-------------------------- MODULE PyObjectsProofs --------------------------
(***************************************************************************)
(* Proofs about PyObjects for any threads, any objects and any bounds.     *)
(***************************************************************************)
EXTENDS PyObjects, TLAPS, FiniteSetTheorems, WellFoundedInduction

Ops == {"none", "open", "open file object", "close", "part", "sequence", "value", "item", "next", "free"}
Stages == {"idle", "library", "seek", "read", "done", "failed", "handle", "freed"}
Found == Nat \cup Offsets

ObjectRecord == [class : Classes, parent : Objects, refs : Int, library : BOOLEAN, index : Nat]
CallRecord == [op : Ops, on : Objects, part : Classes, stage : Stages, slot : Objects,
               offset : Found, found : Found, alone : BOOLEAN]

Typed ==
  /\ object \in [Objects -> ObjectRecord]
  /\ held \in [Objects -> 0 .. MaxHeld]
  /\ call \in [Threads -> CallRecord]
  /\ file \in [open : BOOLEAN, using : {"none", "own", "handle"}, handle : BOOLEAN]
  /\ medium \in [refs : Int, offset : {0} \cup Offsets]
  /\ history \in [disturbed : BOOLEAN, closed : BOOLEAN, shared : SUBSET Objects,
                  given : [Objects -> Seq(Found)]]

\* What a call may be at.
InCall == {"library", "seek", "read", "done", "failed"}
Getting == {"part", "item", "next"}
Shaped(c) ==
  /\ c.op = "none" => c = NoCall
  /\ c.op = "free" => c.stage \in (IF c.on = File THEN {"library", "handle"} ELSE {"library", "done"})
  /\ c.op = "close" => c.stage \in InCall \cup {"handle", "freed"}
  /\ c.op \notin {"none", "free", "close"} => c.stage \in InCall
  /\ Settles(c.op) => c.on = File
  /\ c.slot # File <=> c.op \in Getting /\ c.stage = "done"
Calls == \A t \in Threads : Shaped(call[t])

\* An object that is being freed, or whose Python object is not made yet, is in one thread's hands.
Claims(t, o) == (call[t].op = "free" /\ call[t].on = o) \/ (o # File /\ call[t].slot = o)
Alive(o) == Exists(o) /\ \A t \in Threads : ~ Claims(t, o)

Claimed ==
  /\ \A t \in Threads, o \in Objects : Claims(t, o) => Exists(o)
  /\ \A t, u \in Threads, o \in Objects : Claims(t, o) /\ Claims(u, o) => t = u
Counted ==
  \A o \in Objects : object[o].refs = held[o] + Cardinality(Children(o)) + Cardinality(Calling(o))
Living == \A o \in Objects : object[o].refs > 0 <=> Alive(o)
Gone == \A o \in Objects : ~ Exists(o) => object[o] = NoObject

\* The class of the parent of an object.
ParentClass ==
  [tables |-> "file", table |-> "file", columns |-> "table", column |-> "table",
   records |-> "table", record |-> "table", longvalue |-> "record"]
ClassOf(o) == object[o].class
Family ==
  /\ ClassOf(File) \in {"file", "none"}
  /\ \A s \in Slots : Exists(s) =>
       ClassOf(s) \in DOMAIN ParentClass /\ ClassOf(object[s].parent) = ParentClass[ClassOf(s)]

GetsPart(t) ==
  /\ call[t].part \in DOMAIN ParentClass \ Sequences
  /\ ClassOf(Target(call[t].on)) = ParentClass[call[t].part]
  /\ call[t].op = "part" <=> ~ IsSequence(call[t].on)
GetsSequence(t) ==
  call[t].part \in Sequences /\ ClassOf(call[t].on) = ParentClass[call[t].part]
Makes(t) ==
  object[call[t].slot].parent = Target(call[t].on) /\ ClassOf(call[t].slot) = call[t].part
Wanted ==
  \A t \in Threads :
    /\ call[t].op \in Getting => GetsPart(t)
    /\ call[t].op = "sequence" => GetsSequence(t)
    /\ call[t].slot # File => Makes(t)

LibraryFreed(t, o) == call[t].op = "free" /\ call[t].on = o /\ o # File /\ call[t].stage = "done"
LibraryKept ==
  /\ \A o \in Objects :
       object[o].library <=> Exists(o) /\ ~ IsSequence(o) /\ \A t \in Threads : ~ LibraryFreed(t, o)
  /\ \A s \in Slots : object[s].library => file.open \/ history.closed

\* Between an open call and its end.
OpensHandle(t) == call[t].op = "open file object" /\ call[t].stage # "done"
ClosesHandle(t) ==
  \/ call[t].op = "close" /\ call[t].stage \in {"done", "handle"}
  \/ call[t].op = "free" /\ call[t].stage = "handle"
InCallBesides(t) == {u \in Threads \ {t} : call[u].op \notin {"none", "free"}}
HandleOwned == file.handle /\ ~ file.open => \E t \in Threads : OpensHandle(t) \/ ClosesHandle(t)
FileFreed ==
  /\ ~ Exists(File) => ~ file.open /\ ~ file.handle
  /\ \A t \in Threads : call[t].op = "free" /\ call[t].stage = "handle" => ~ file.open
Undisturbed ==
  ~ history.disturbed =>
    \A t \in Threads :
      /\ Settles(call[t].op) => InCallBesides(t) = {}
      /\ OpensHandle(t) => ~ (file.open /\ file.using = "handle") /\ file.handle
      /\ call[t].op = "close" /\ call[t].stage \in {"done", "handle", "freed"} => ~ file.open

\* Iterating.
Nexts(o) == {t \in Threads : call[t].op = "next" /\ call[t].on = o}
Bounded ==
  \A o \in Objects :
    /\ object[o].index + Cardinality(Nexts(o)) <= Items + Cardinality(Threads) - 1
    /\ ~ IsSequence(o) => object[o].index = 0 /\ history.given[o] = <<>>
Iterated ==
  \A o \in Slots : IsSequence(o) /\ o \notin history.shared =>
    /\ \A t, u \in Calling(o) : t = u
    /\ \A t \in Calling(o) : call[t].op = "next" /\ call[t].stage = "done" => call[t].found = object[o].index

\* Reading.
Seeking ==
  /\ \A t \in Threads : call[t].op \notin {"none", "free"} /\ call[t].alone => InCallBesides(t) = {}
  /\ \A t \in Threads : call[t].stage = "seek" /\ call[t].alone => medium.offset = call[t].offset

Inv ==
  /\ Typed /\ Calls
  /\ Claimed /\ Counted /\ Living /\ Gone
  /\ Family /\ Wanted /\ LibraryKept
  /\ HandleOwned /\ FileFreed /\ Undisturbed /\ HandleOutlivesItsUse /\ FileObjectIsKept
  /\ Bounded /\ Iterated /\ ItemsInOrder
  /\ Seeking /\ ReadsAtItsOffset

-----------------------------------------------------------------------------
(***************************************************************************)
(* Numbers and finite sets.                                                *)
(***************************************************************************)
LEMMA LessThan == \A a, b \in Nat : <<a, b>> \in OpToRel(<, Nat) \/ b <= a
BY DEF OpToRel

\* There is a first of some numbers.
LEMMA HasFirst ==
  ASSUME NEW S \in SUBSET Nat, S # {}
  PROVE  \E i \in S : \A j \in S : i <= j
<1>1. \E i \in S : \A j \in S : ~ (<<j, i>> \in OpToRel(<, Nat))
  BY NatLessThanWellFounded, WFMin
<1>. QED
  BY <1>1, LessThan

\* The slot that a new object takes is free.
LEMMA MinIsFree ==
  ASSUME FreeSlots # {}
  PROVE  Min(FreeSlots) \in FreeSlots
<1>1. FreeSlots \in SUBSET Nat
  BY SlotsAssumption DEF FreeSlots
<1>2. \E s \in FreeSlots : \A r \in FreeSlots : s <= r
  BY <1>1, HasFirst
<1>. QED
  BY <1>2 DEF Min

\* Sets of slots and of threads are finite.
LEMMA SomeSlots ==
  ASSUME NEW S \in SUBSET Slots
  PROVE  /\ IsFiniteSet(S) /\ Cardinality(S) \in Nat
         /\ Cardinality(S) = 0 <=> S = {}
BY SlotsAssumption, FS_Subset, FS_CardinalityType, FS_EmptySet

\* A set of threads is finite and no larger than the set of all of them.
LEMMA SomeThreads ==
  ASSUME NEW S \in SUBSET Threads
  PROVE  /\ IsFiniteSet(S) /\ Cardinality(S) \in Nat /\ Cardinality(S) <= Cardinality(Threads)
         /\ Cardinality(S) = 0 <=> S = {}
BY ThreadsAssumption, FS_Subset, FS_CardinalityType, FS_EmptySet

\* What is not in a set makes it larger by one.
LEMMA OneMore ==
  ASSUME NEW S, NEW x, IsFiniteSet(S), x \notin S
  PROVE  Cardinality(S \cup {x}) = Cardinality(S) + 1
BY FS_AddElement

\* What is in a set makes it smaller by one when it leaves.
LEMMA OneLess ==
  ASSUME NEW S, NEW x, IsFiniteSet(S), x \in S
  PROVE  Cardinality(S \ {x}) = Cardinality(S) - 1
BY FS_RemoveElement

\* There are some threads, and they can be counted.
LEMMA SomeThread == Cardinality(Threads) \in Nat \ {0}
BY ThreadsAssumption, FS_CardinalityType, FS_EmptySet

\* The file object has a place of its own.
LEMMA Places ==
  /\ File \in Objects /\ File \notin Slots /\ Slots \subseteq Objects /\ Objects \subseteq Nat
  /\ \A o \in Objects : o # File <=> o \in Slots
BY SlotsAssumption DEF File, Objects

\* The classes of the objects, by their names.
LEMMA ClassesAre ==
  /\ Sequences = {"tables", "columns", "records"}
  /\ Classes = {"none", "file", "table", "column", "record", "longvalue", "tables", "columns", "records"}
  /\ DOMAIN ParentClass = {"tables", "table", "columns", "column", "records", "record", "longvalue"}
<1>1. Sequences = {"tables", "columns", "records"}
  BY DEF Sequences, SequenceItem
<1>. QED
  BY <1>1 DEF Classes, ParentClass

\* The class of a part, and of the item of a sequence, has the class of the caller for a parent.
LEMMA PartsFit ==
  /\ \A class \in {"file", "table", "record", "column", "longvalue"} : \A part \in Parts[class] :
       part \in DOMAIN ParentClass \ Sequences /\ ParentClass[part] = class
  /\ \A class \in DOMAIN SequencesOf : \A part \in SequencesOf[class] :
       part \in Sequences /\ ParentClass[part] = class
  /\ \A class \in Sequences :
       /\ SequenceItem[class] \in DOMAIN ParentClass \ Sequences
       /\ ParentClass[SequenceItem[class]] = ParentClass[class]
<1>1. \A class \in {"file", "table", "record", "column", "longvalue"} : \A part \in Parts[class] :
        part \in DOMAIN ParentClass \ Sequences /\ ParentClass[part] = class
  BY ClassesAre DEF Parts, ParentClass
<1>2. \A class \in DOMAIN SequencesOf : \A part \in SequencesOf[class] :
        part \in Sequences /\ ParentClass[part] = class
  BY ClassesAre DEF SequencesOf, ParentClass
<1>3. \A class \in Sequences :
        /\ SequenceItem[class] \in DOMAIN ParentClass \ Sequences
        /\ ParentClass[SequenceItem[class]] = ParentClass[class]
  BY ClassesAre DEF SequenceItem, ParentClass
<1>. QED
  BY <1>1, <1>2, <1>3

-----------------------------------------------------------------------------
(***************************************************************************)
(* Types.                                                                  *)
(***************************************************************************)
LEMMA NothingTyped == NoObject \in ObjectRecord /\ NoCall \in CallRecord /\ NoObject.class = "none"
BY Places DEF NoObject, NoCall, ObjectRecord, CallRecord, Classes, Ops, Stages, Found

\* The fields of a call.
LEMMA CallIs ==
  ASSUME Typed, NEW t \in Threads
  PROVE  /\ call[t] \in CallRecord
         /\ call[t].op \in Ops /\ call[t].on \in Objects /\ call[t].part \in Classes
         /\ call[t].stage \in Stages /\ call[t].slot \in Objects /\ call[t].offset \in Found
         /\ call[t].found \in Found /\ call[t].alone \in BOOLEAN
BY DEF Typed, CallRecord

\* The fields of an object.
LEMMA ObjectIs ==
  ASSUME Typed, NEW o \in Objects
  PROVE  /\ object[o] \in ObjectRecord
         /\ object[o].class \in Classes /\ object[o].parent \in Objects /\ object[o].refs \in Int
         /\ object[o].library \in BOOLEAN /\ object[o].index \in Nat
         /\ held[o] \in Nat /\ held[o] <= MaxHeld
BY BoundsAssumption DEF Typed, ObjectRecord

\* An object with another count of references is an object.
LEMMA RefsChange ==
  ASSUME NEW e \in ObjectRecord, NEW refs \in Int
  PROVE  [e EXCEPT !.refs = refs] \in ObjectRecord
BY DEF ObjectRecord

\* What is left of the call that let go of an object.
LEMMA AfterReleaseIs ==
  ASSUME NEW refs, NEW o \in Objects
  PROVE  /\ AfterRelease(refs, o) \in CallRecord /\ Shaped(AfterRelease(refs, o))
         /\ AfterRelease(refs, o).slot = File
         /\ refs # 0 => AfterRelease(refs, o) = NoCall
         /\ refs = 0 => /\ AfterRelease(refs, o).op = "free" /\ AfterRelease(refs, o).on = o
                        /\ AfterRelease(refs, o).stage = "library"
<1>1. CASE refs = 0
  <2>1. AfterRelease(refs, o) = [NoCall EXCEPT !.op = "free", !.on = o, !.stage = "library"]
    BY <1>1 DEF AfterRelease, Freeing
  <2>. DEFINE c == AfterRelease(refs, o)
  <2>2. /\ c.op = "free" /\ c.on = o /\ c.stage = "library" /\ c.slot = File /\ c.part = "none"
        /\ c.offset = 0 /\ c.found = 0 /\ c.alone = TRUE
        /\ c = [op |-> c.op, on |-> c.on, part |-> c.part, stage |-> c.stage, slot |-> c.slot,
                offset |-> c.offset, found |-> c.found, alone |-> c.alone]
    BY <2>1 DEF NoCall
  <2>. HIDE DEF c
  <2>3. c \in CallRecord
    <3>1. c.op \in Ops /\ c.on \in Objects /\ c.part \in Classes /\ c.stage \in Stages /\ c.slot \in Objects
      BY <2>2, Places DEF Classes, Ops, Stages
    <3>2. c.offset \in Found /\ c.found \in Found
      BY <2>2 DEF Found
    <3>3. c.alone \in BOOLEAN
      BY <2>2, Zenon
    <3>. QED
      BY <2>2, <3>1, <3>2, <3>3 DEF CallRecord
  <2>4. Shaped(c)
    BY <2>2 DEF Shaped, Settles, Getting
  <2>. QED
    BY <1>1, <2>2, <2>3, <2>4 DEF c
<1>2. CASE refs # 0
  <2>1. AfterRelease(refs, o) = NoCall
    BY <1>2 DEF AfterRelease
  <2>2. Shaped(NoCall) /\ NoCall.slot = File
    BY DEF Shaped, Settles, Getting, NoCall
  <2>. QED
    BY <1>2, <2>1, <2>2, NothingTyped
<1>. QED
  BY <1>1, <1>2

\* A call goes on in the library or leaves it: it stays the same call.
Going(t) ==
  /\ call' \in [Threads -> CallRecord]
  /\ \A u \in Threads \ {t} : call'[u] = call[u]
  /\ call'[t].op = call[t].op /\ call'[t].on = call[t].on /\ call'[t].part = call[t].part
  /\ call'[t].slot = call[t].slot /\ call'[t].alone = call[t].alone

\* Leaving the library only moves the stage of the call.
LEMMA LeavesIs ==
  ASSUME Typed, NEW t \in Threads, NEW stage \in Stages, LeaveLibrary(t, stage)
  PROVE  Going(t) /\ call'[t].stage = stage /\ call'[t].found = 0
<1>1. call' = [call EXCEPT ![t] = [call[t] EXCEPT !.stage = stage, !.offset = 0, !.found = 0]]
  BY DEF LeaveLibrary, Typed
<1>. DEFINE c == [call[t] EXCEPT !.stage = stage, !.offset = 0, !.found = 0]
<1>2. c \in CallRecord
  BY CallIs, 0 \in Found DEF CallRecord, Found
<1>3. /\ c.op = call[t].op /\ c.on = call[t].on /\ c.part = call[t].part /\ c.slot = call[t].slot
      /\ c.alone = call[t].alone /\ c.stage = stage /\ c.found = 0
  BY CallIs DEF CallRecord
<1>. HIDE DEF c
<1>4. call \in [Threads -> CallRecord] /\ call' = [call EXCEPT ![t] = c]
  BY <1>1 DEF Typed, c
<1>. QED
  BY <1>2, <1>3, <1>4 DEF Going

\* A call begins.
LEMMA BeginCallIs ==
  ASSUME NEW t \in Threads, NEW o, NEW op, NEW part, Begin(t, o, op, part)
  PROVE  /\ call'[t].op = op /\ call'[t].on = o /\ call'[t].part = part /\ call'[t].stage = "library"
         /\ call'[t].slot = File /\ (call'[t].alone <=> Others(t) = {})
<1>. DEFINE alone == Others(t) = {}
            c == [op |-> op, on |-> o, part |-> part, stage |-> "library", slot |-> File,
                  offset |-> 0, found |-> 0, alone |-> alone]
<1>1. call'[t] = c
  BY DEF Begin, NoCall
<1>2. c.alone = alone
  BY Zenon
<1>. HIDE DEF alone
<1>3. c.op = op /\ c.on = o /\ c.part = part /\ c.stage = "library" /\ c.slot = File
  OBVIOUS
<1>. HIDE DEF c
<1>4. call'[t].alone <=> alone
  BY <1>1, <1>2, Zenon
<1>. QED
  BY <1>1, <1>3, <1>4 DEF alone

\* Beginning a call takes a reference to the object it is made on.
LEMMA BeginIs ==
  ASSUME Typed, NEW t \in Threads, NEW o \in Objects, NEW op \in Ops, NEW part \in Classes,
         Begin(t, o, op, part)
  PROVE  /\ call[t].op = "none" /\ Exists(o) /\ held[o] > 0 /\ MayUse(o, op)
         /\ object' \in [Objects -> ObjectRecord]
         /\ \A x \in Objects \ {o} : object'[x] = object[x]
         /\ object'[o] = [object[o] EXCEPT !.refs = @ + 1]
         /\ call' \in [Threads -> CallRecord]
         /\ \A u \in Threads \ {t} : call'[u] = [call[u] EXCEPT !.alone = call'[u].alone]
         /\ \A u \in Threads \ {t} : call[u].op # "none" => ~ call'[u].alone
         /\ \A u \in Threads \ {t} : call[u].op = "none" => call'[u] = call[u]
         /\ call'[t].op = op /\ call'[t].on = o /\ call'[t].part = part /\ call'[t].stage = "library"
         /\ call'[t].slot = File /\ (call'[t].alone <=> Others(t) = {})
         /\ history' = Noted(t, o, op)
<1>1. call[t].op = "none" /\ Exists(o) /\ held[o] > 0 /\ MayUse(o, op) /\ history' = Noted(t, o, op)
  BY DEF Begin, MayCall, Busy
<1>2. /\ object' \in [Objects -> ObjectRecord]
      /\ \A x \in Objects \ {o} : object'[x] = object[x]
      /\ object'[o] = [object[o] EXCEPT !.refs = @ + 1]
  <2>1. object' = [object EXCEPT ![o] = [object[o] EXCEPT !.refs = object[o].refs + 1]]
    BY DEF Begin, Typed
  <2>2. [object[o] EXCEPT !.refs = object[o].refs + 1] \in ObjectRecord
    BY ObjectIs, RefsChange
  <2>. QED
    BY <2>1, <2>2 DEF Typed
<1>3. call'[t] = [op |-> op, on |-> o, part |-> part, stage |-> "library", slot |-> File,
                  offset |-> 0, found |-> 0, alone |-> Others(t) = {}]
  BY DEF Begin, NoCall
<1>4. \A u \in Threads \ {t} : call'[u] = IF Busy(u) THEN [call[u] EXCEPT !.alone = FALSE] ELSE call[u]
  BY DEF Begin
<1>5. \A u \in Threads \ {t} :
        /\ call'[u] = [call[u] EXCEPT !.alone = call'[u].alone]
        /\ call[u].op # "none" => ~ call'[u].alone
        /\ call[u].op = "none" => call'[u] = call[u]
        /\ call'[u] \in CallRecord
  <2>1. ASSUME NEW u \in Threads \ {t}
        PROVE  /\ call'[u] = [call[u] EXCEPT !.alone = call'[u].alone]
               /\ call[u].op # "none" => ~ call'[u].alone
               /\ call[u].op = "none" => call'[u] = call[u]
               /\ call'[u] \in CallRecord
    <3>1. call[u] \in CallRecord
      BY CallIs
    <3>. QED
      BY <1>4, <3>1 DEF Busy, CallRecord
  <2>. QED
    BY <2>1
<1>6. call'[t] \in CallRecord
  <2>1. (Others(t) = {}) \in BOOLEAN
    OBVIOUS
  <2>2. "library" \in Stages /\ 0 \in Found /\ File \in Objects
    BY Places DEF Stages, Found
  <2>. QED
    BY <1>3, <2>1, <2>2 DEF CallRecord
<1>7. call' \in [Threads -> CallRecord]
  <2>1. call' = [u \in Threads |-> call'[u]]
    BY DEF Begin
  <2>2. \A u \in Threads : call'[u] \in CallRecord
    BY <1>5, <1>6
  <2>. QED
    BY <2>1, <2>2
<1>8. /\ call'[t].op = op /\ call'[t].on = o /\ call'[t].part = part /\ call'[t].stage = "library"
      /\ call'[t].slot = File /\ (call'[t].alone <=> Others(t) = {})
  BY BeginCallIs
<1>. QED
  BY <1>1, <1>2, <1>5, <1>7, <1>8

-----------------------------------------------------------------------------
(***************************************************************************)
(* What refers to an object keeps it alive.                                *)
(***************************************************************************)
LEMMA Counts ==
  ASSUME Typed, NEW o \in Objects
  PROVE  /\ Children(o) \in SUBSET Slots /\ Calling(o) \in SUBSET Threads
         /\ IsFiniteSet(Children(o)) /\ IsFiniteSet(Calling(o))
         /\ Cardinality(Children(o)) \in Nat /\ Cardinality(Calling(o)) \in Nat
         /\ Cardinality(Children(o)) = 0 <=> Children(o) = {}
         /\ Cardinality(Calling(o)) = 0 <=> Calling(o) = {}
<1>1. Children(o) \in SUBSET Slots /\ Calling(o) \in SUBSET Threads
  BY DEF Children, Calling
<1>. QED
  BY <1>1, SomeSlots, SomeThreads

\* An object that is held, that has children or that is called has references.
LEMMA ReferredLives ==
  ASSUME Typed, Counted, Living, NEW o \in Objects, held[o] > 0 \/ Children(o) # {} \/ Calling(o) # {}
  PROVE  object[o].refs > 0 /\ Alive(o)
<1>1. object[o].refs = held[o] + Cardinality(Children(o)) + Cardinality(Calling(o))
  BY DEF Counted
<1>2. held[o] \in Nat
  BY ObjectIs
<1>3. /\ Cardinality(Children(o)) \in Nat /\ Cardinality(Calling(o)) \in Nat
      /\ Cardinality(Children(o)) = 0 <=> Children(o) = {}
      /\ Cardinality(Calling(o)) = 0 <=> Calling(o) = {}
  BY Counts
<1>4. object[o].refs > 0
  BY <1>1, <1>2, <1>3
<1>. QED
  BY <1>4 DEF Living

\* A slot is not wrapped yet while a call has it in hand.
LEMMA UnwrappedIs ==
  ASSUME Calls, NEW o \in Slots
  PROVE  Unwrapped(o) <=> \E t \in Threads : call[t].slot = o
BY Places DEF Calls, Shaped, Unwrapped, Busy, Getting

\* The parent of an object that is wrapped has references.
LEMMA ChildLives ==
  ASSUME Typed, Calls, Counted, Living, NEW s \in Slots, Exists(s), ~ Unwrapped(s)
  PROVE  object[s].parent \in Objects /\ object[object[s].parent].refs > 0 /\ Alive(object[s].parent)
<1>1. object[s].parent \in Objects
  BY ObjectIs, Places
<1>2. s \in Children(object[s].parent)
  BY DEF Children
<1>. QED
  BY <1>1, <1>2, ReferredLives

\* The object a method runs on has references.
LEMMA CalledLives ==
  ASSUME Typed, Counted, Living, NEW t \in Threads, call[t].op \notin {"none", "free"}
  PROVE  call[t].on \in Objects /\ object[call[t].on].refs > 0 /\ Alive(call[t].on)
<1>1. call[t].on \in Objects
  BY CallIs
<1>2. t \in Calling(call[t].on)
  BY DEF Calling, Busy
<1>. QED
  BY <1>1, <1>2, ReferredLives

\* The parent of an object is no sequence, and it is there.
LEMMA NoSequenceAbove ==
  ASSUME Typed, Family, NEW s \in Slots, Exists(s)
  PROVE  ~ IsSequence(object[s].parent) /\ Exists(object[s].parent)
<1>1. ClassOf(s) \in DOMAIN ParentClass /\ ClassOf(object[s].parent) = ParentClass[ClassOf(s)]
  BY DEF Family
<1>2. \A class \in DOMAIN ParentClass : ParentClass[class] \in {"file", "table", "record"}
  BY ClassesAre DEF ParentClass
<1>. QED
  BY <1>1, <1>2, ClassesAre DEF IsSequence, Exists, ClassOf

\* The file object is no sequence.
LEMMA SequencesAreSlots ==
  ASSUME Family, NEW o \in Objects, IsSequence(o)
  PROVE  o \in Slots /\ Exists(o)
BY ClassesAre, Places DEF Family, IsSequence, Exists, ClassOf

\* The library object that a method works on belongs to a living object.
LEMMA TargetLives ==
  ASSUME Typed, Calls, Counted, Living, Family, NEW t \in Threads, call[t].op \notin {"none", "free"}
  PROVE  LET o == Target(call[t].on) IN
         o \in Objects /\ object[o].refs > 0 /\ Alive(o) /\ ~ IsSequence(o)
<1>. DEFINE o == call[t].on
<1>1. o \in Objects /\ object[o].refs > 0 /\ Alive(o)
  BY CalledLives
<1>2. CASE IsSequence(o)
  <2>1. o \in Slots /\ Exists(o)
    BY <1>1, <1>2, SequencesAreSlots
  <2>2. ~ Unwrapped(o)
    BY <1>1, <2>1, UnwrappedIs, Places DEF Alive, Claims
  <2>. QED
    BY <1>2, <2>1, <2>2, ChildLives, NoSequenceAbove DEF Target
<1>3. CASE ~ IsSequence(o)
  BY <1>1, <1>3 DEF Target
<1>. QED
  BY <1>2, <1>3

\* Also the object that is not wrapped yet has a parent.
LEMMA ParentLives ==
  ASSUME Typed, Calls, Counted, Living, Family, Wanted, NEW s \in Slots, Exists(s)
  PROVE  object[s].parent \in Objects /\ object[object[s].parent].refs > 0 /\ Alive(object[s].parent)
<1>1. CASE ~ Unwrapped(s)
  BY <1>1, ChildLives
<1>2. CASE Unwrapped(s)
  <2>1. PICK t \in Threads : call[t].slot = s
    BY <1>2, UnwrappedIs
  <2>2. call[t].slot # File /\ call[t].op \notin {"none", "free"}
    BY <2>1, Places DEF Calls, Shaped, Getting
  <2>3. object[s].parent = Target(call[t].on)
    BY <2>1, <2>2 DEF Wanted, Makes
  <2>. QED
    BY <2>2, <2>3, TargetLives
<1>. QED
  BY <1>1, <1>2

\* Everything needs the file.
LEMMA FileLives ==
  ASSUME Typed, Calls, Claimed, Counted, Living, Family, Wanted, object[File].refs = 0
  PROVE  /\ \A s \in Slots : ~ Exists(s)
         /\ \A t \in Threads : call[t].op # "none" => call[t].op = "free" /\ call[t].on = File
<1>1. \A s \in Slots : Exists(s) =>
        /\ object[s].parent \in Objects /\ object[s].parent # File /\ Exists(object[s].parent)
        /\ ClassOf(s) \in DOMAIN ParentClass /\ ClassOf(object[s].parent) = ParentClass[ClassOf(s)]
  <2>1. ASSUME NEW s \in Slots, Exists(s)
        PROVE  object[s].parent \in Objects /\ object[s].parent # File /\ Exists(object[s].parent)
    BY <2>1, ParentLives DEF Alive
  <2>. QED
    BY <2>1 DEF Family
<1>2. \A s \in Slots : Exists(s) => ClassOf(object[s].parent) \in {"table", "record"}
  <2>1. ASSUME NEW s \in Slots, Exists(s)
        PROVE  ClassOf(object[s].parent) \in {"table", "record"}
    <3>1. object[s].parent \in Slots /\ ClassOf(object[s].parent) \in DOMAIN ParentClass
      BY <1>1, <2>1, Places
    <3>2. \A class \in DOMAIN ParentClass : ParentClass[class] \in {"file", "table", "record"}
      BY ClassesAre DEF ParentClass
    <3>. QED
      BY <1>1, <2>1, <3>1, <3>2, ClassesAre
  <2>. QED
    BY <2>1
<1>3. \A s \in Slots : ~ Exists(s)
  <2>1. ASSUME NEW s \in Slots, Exists(s)
        PROVE  FALSE
    <3>. DEFINE p == object[s].parent
                q == object[p].parent
                r == object[q].parent
    <3>1. p \in Slots /\ Exists(p) /\ ClassOf(p) \in {"table", "record"}
      BY <1>1, <1>2, <2>1, Places
    <3>2. q \in Slots /\ Exists(q) /\ ClassOf(q) \in {"table", "record"} /\ ClassOf(q) = ParentClass[ClassOf(p)]
      BY <1>1, <1>2, <3>1, Places
    <3>3. r \in Slots /\ Exists(r) /\ ClassOf(r) \in {"table", "record"} /\ ClassOf(r) = ParentClass[ClassOf(q)]
      BY <1>1, <1>2, <3>2, Places
    <3>. HIDE DEF p, q, r
    <3>4. ParentClass["table"] = "file" /\ ParentClass["record"] = "table"
      BY DEF ParentClass
    <3>. QED
      BY <3>1, <3>2, <3>3, <3>4
  <2>. QED
    BY <2>1
<1>4. ASSUME NEW t \in Threads, call[t].op # "none"
      PROVE  call[t].op = "free" /\ call[t].on = File
  <2>1. call[t].on \in Objects
    BY CallIs
  <2>2. Exists(call[t].on)
    <3>1. CASE call[t].op = "free"
      BY <2>1, <3>1 DEF Claimed, Claims
    <3>2. CASE call[t].op # "free"
      BY <1>4, <3>2, CalledLives DEF Alive
    <3>. QED
      BY <3>1, <3>2
  <2>3. call[t].on = File
    BY <1>3, <2>1, <2>2, Places
  <2>4. call[t].op \notin {"none", "free"} => FALSE
    <3>1. call[t].op \notin {"none", "free"} => object[call[t].on].refs > 0
      BY CalledLives
    <3>. QED
      BY <2>3, <3>1
  <2>. QED
    BY <1>4, <2>3, <2>4
<1>. QED
  BY <1>3, <1>4

-----------------------------------------------------------------------------
(***************************************************************************)
(* What the steps do to the objects and the calls.                         *)
(***************************************************************************)
Sound == Typed /\ Calls /\ Claimed /\ Counted /\ Living /\ Gone /\ Family /\ Wanted

SameButRefs(x) ==
  /\ object'[x].class = object[x].class /\ object'[x].parent = object[x].parent
  /\ object'[x].library = object[x].library
Becomes(t, c) ==
  /\ call' \in [Threads -> CallRecord] /\ call'[t] = c
  /\ \A u \in Threads \ {t} : call'[u] = call[u]
EndsAt(t, o) == Becomes(t, AfterRelease(object'[o].refs, o))
ObjectsTyped == object' \in [Objects -> ObjectRecord]

\* A call goes on.
Goes(t) ==
  /\ Going(t) /\ held' = held /\ ObjectsTyped /\ call[t].op # "none" /\ Shaped(call'[t])
  /\ call[t].op \in Getting => call[t].slot = File
  /\ \A x \in Objects :
       /\ object'[x].class = object[x].class /\ object'[x].parent = object[x].parent
       /\ object'[x].refs = object[x].refs /\ object'[x].index = object[x].index
       /\ ~ Exists(x) => object'[x] = object[x]

\* The program has another reference.
Takes(o) ==
  /\ o \in Objects /\ held[o] > 0 /\ ObjectsTyped /\ held' \in [Objects -> 0 .. MaxHeld] /\ call' = call
  /\ \A x \in Objects :
       /\ SameButRefs(x) /\ object'[x].index = object[x].index
       /\ object'[x].refs = object[x].refs + (IF x = o THEN 1 ELSE 0)
       /\ held'[x] = held[x] + (IF x = o THEN 1 ELSE 0)

\* It lets go of one.
LetsGo(t, o) ==
  /\ o \in Objects /\ held[o] > 0 /\ call[t].op = "none"
  /\ ObjectsTyped /\ held' \in [Objects -> 0 .. MaxHeld]
  /\ \A x \in Objects :
       /\ SameButRefs(x) /\ object'[x].index = object[x].index
       /\ object'[x].refs = object[x].refs - (IF x = o THEN 1 ELSE 0)
       /\ held'[x] = held[x] - (IF x = o THEN 1 ELSE 0)
  /\ EndsAt(t, o)

\* A library object is there.
MakesPart(t, s) ==
  /\ s \in Slots /\ ~ Exists(s) /\ ObjectsTyped /\ held' = held
  /\ call[t].op \in Getting /\ call[t].slot = File
  /\ \A x \in Objects \ {s} : object'[x] = object[x]
  /\ object'[s] = [NoObject EXCEPT !.class = call[t].part, !.library = TRUE, !.parent = Target(call[t].on)]
  /\ \E found \in Nat :
       /\ Becomes(t, [call[t] EXCEPT !.stage = "done", !.slot = s, !.offset = 0, !.found = found])
       /\ found = IF call[t].op = "next" THEN object[call[t].on].index ELSE 0

\* The free of an object ends.
Releases(t) ==
  LET o == call[t].on
      p == object[o].parent
  IN  /\ call[t].op = "free" /\ o \in Slots /\ p \in Objects \ {o} /\ ObjectsTyped /\ held' = held
      /\ object'[o] = NoObject
      /\ \A x \in Objects \ {o} :
           /\ SameButRefs(x) /\ object'[x].index = object[x].index
           /\ object'[x].refs = object[x].refs - (IF x = p THEN 1 ELSE 0)
      /\ EndsAt(t, p)
FileGoes(t) ==
  /\ call[t].op = "free" /\ call[t].on = File /\ ObjectsTyped /\ held' = held
  /\ object'[File] = NoObject /\ \A s \in Slots : object'[s] = object[s]
  /\ Becomes(t, NoCall)

\* A call returns, with a part, without it, with a sequence or with another answer.
Wraps(t) ==
  LET o == call[t].on
      s == call[t].slot
      p == object[s].parent
  IN  /\ s \in Slots \ {o, p} /\ ObjectsTyped /\ held' \in [Objects -> 0 .. MaxHeld]
      /\ \A x \in Objects :
           /\ SameButRefs(x)
           /\ object'[x].index = object[x].index + (IF call[t].op = "next" /\ x = o THEN 1 ELSE 0)
           /\ held'[x] = IF x = s THEN 1 ELSE held[x]
      /\ \A x \in Objects \ {s} :
           object'[x].refs = object[x].refs + (IF x = p THEN 1 ELSE 0) - (IF x = o THEN 1 ELSE 0)
      /\ object'[s].refs = 1
      /\ EndsAt(t, o)
Unmakes(t) ==
  LET o == call[t].on
      s == call[t].slot
  IN  /\ s \in Slots \ {o} /\ ObjectsTyped /\ held' = held
      /\ object'[s] = NoObject
      /\ \A x \in Objects \ {s} :
           /\ SameButRefs(x) /\ object'[x].index = object[x].index
           /\ object'[x].refs = object[x].refs - (IF x = o THEN 1 ELSE 0)
      /\ EndsAt(t, o)
Collects(t, s) ==
  LET o == call[t].on IN
  /\ s \in Slots \ {o} /\ ~ Exists(s) /\ call[t].op = "sequence" /\ call[t].slot = File
  /\ ObjectsTyped /\ held' \in [Objects -> 0 .. MaxHeld]
  /\ \A x \in Objects \ {s} : object'[x] = object[x]
  /\ object'[s] = [NoObject EXCEPT !.class = call[t].part, !.refs = 1, !.parent = o]
  /\ \A x \in Objects : held'[x] = IF x = s THEN 1 ELSE held[x]
  /\ EndsAt(t, o)
Ends(t) ==
  LET o == call[t].on IN
  /\ call[t].op \notin {"none", "free"} /\ call[t].slot = File /\ ObjectsTyped /\ held' = held
  /\ \A x \in Objects :
       /\ SameButRefs(x) /\ object'[x].index = object[x].index
       /\ object'[x].refs = object[x].refs - (IF x = o THEN 1 ELSE 0)
  /\ EndsAt(t, o)

-----------------------------------------------------------------------------
\* Returning from a call drops the reference that the call took.
LEMMA ReturnIs ==
  ASSUME Typed, NEW t \in Threads, NEW objects \in [Objects -> ObjectRecord], Return(t, objects)
  PROVE  /\ ObjectsTyped
         /\ \A x \in Objects \ {call[t].on} : object'[x] = objects[x]
         /\ object'[call[t].on] = [objects[call[t].on] EXCEPT !.refs = objects[call[t].on].refs - 1]
         /\ EndsAt(t, call[t].on)
<1>. DEFINE o == call[t].on
            e == [objects[o] EXCEPT !.refs = objects[o].refs - 1]
<1>1. o \in Objects
  BY CallIs
<1>2. objects[o] \in ObjectRecord /\ objects[o].refs \in Int /\ objects[o].refs - 1 \in Int
  BY <1>1 DEF ObjectRecord
<1>3. e \in ObjectRecord /\ e.refs = objects[o].refs - 1
  BY <1>2, RefsChange DEF ObjectRecord
<1>4. object' = [objects EXCEPT ![o] = e]
  BY <1>1 DEF Return
<1>5. call' = [call EXCEPT ![t] = AfterRelease(objects[o].refs - 1, o)]
  BY DEF Return
<1>. HIDE DEF e
<1>6. object'[o] = e /\ ObjectsTyped /\ \A x \in Objects \ {o} : object'[x] = objects[x]
  BY <1>1, <1>3, <1>4 DEF ObjectsTyped
<1>7. AfterRelease(objects[o].refs - 1, o) = AfterRelease(object'[o].refs, o)
  BY <1>3, <1>6
<1>8. AfterRelease(object'[o].refs, o) \in CallRecord
  BY <1>1, AfterReleaseIs
<1>. HIDE DEF o
<1>9. EndsAt(t, o)
  BY <1>5, <1>7, <1>8 DEF Typed, EndsAt, Becomes
<1>. QED
  BY <1>6, <1>9 DEF e, o

\* __iter__ takes a reference.
LEMMA IterIs ==
  ASSUME Sound, NEW t \in Threads, NEW o \in Objects, Iter(t, o)
  PROVE  Takes(o)
<1>. DEFINE e == [object[o] EXCEPT !.refs = object[o].refs + 1]
<1>1. object' = [object EXCEPT ![o] = e] /\ held' = [held EXCEPT ![o] = held[o] + 1] /\ call' = call
  BY DEF Iter
<1>2. held[o] > 0 /\ held[o] + 1 \in 0 .. MaxHeld
  BY ObjectIs, BoundsAssumption DEF Iter, MayCall, Sound
<1>3. e \in ObjectRecord /\ e.refs = object[o].refs + 1 /\ e.class = object[o].class
      /\ e.parent = object[o].parent /\ e.library = object[o].library /\ e.index = object[o].index
  BY ObjectIs, RefsChange DEF ObjectRecord, Sound
<1>. HIDE DEF e
<1>4. \A x \in Objects : object[x].refs \in Int /\ held[x] \in Int
  BY ObjectIs DEF Sound
<1>. QED
  BY <1>1, <1>2, <1>3, <1>4 DEF Takes, SameButRefs, ObjectsTyped, Sound, Typed

\* The program lets go of a reference it holds.
LEMMA DropIs ==
  ASSUME Sound, NEW t \in Threads, NEW o \in Objects, Drop(t, o)
  PROVE  LetsGo(t, o)
<1>. DEFINE e == [object[o] EXCEPT !.refs = object[o].refs - 1]
<1>1. /\ object' = [object EXCEPT ![o] = e] /\ held' = [held EXCEPT ![o] = held[o] - 1]
      /\ call' = [call EXCEPT ![t] = AfterRelease(object[o].refs - 1, o)]
  BY DEF Drop
<1>2. held[o] > 0 /\ held[o] - 1 \in 0 .. MaxHeld /\ call[t].op = "none"
  BY ObjectIs, BoundsAssumption DEF Drop, MayCall, Busy, Sound
<1>3. e \in ObjectRecord /\ e.refs = object[o].refs - 1 /\ e.class = object[o].class
      /\ e.parent = object[o].parent /\ e.library = object[o].library /\ e.index = object[o].index
  BY ObjectIs, RefsChange DEF ObjectRecord, Sound
<1>. HIDE DEF e
<1>4. \A x \in Objects : object[x].refs \in Int /\ held[x] \in Int
  BY ObjectIs DEF Sound
<1>5. object'[o] = e /\ ObjectsTyped /\ \A x \in Objects \ {o} : object'[x] = object[x]
  BY <1>1, <1>3 DEF ObjectsTyped, Sound, Typed
<1>6. EndsAt(t, o)
  <2>1. AfterRelease(object[o].refs - 1, o) = AfterRelease(object'[o].refs, o)
    BY <1>3, <1>5
  <2>2. AfterRelease(object'[o].refs, o) \in CallRecord
    BY AfterReleaseIs
  <2>. QED
    BY <1>1, <2>1, <2>2 DEF Sound, Typed, EndsAt, Becomes
<1>. QED
  BY <1>1, <1>2, <1>3, <1>4, <1>5, <1>6 DEF LetsGo, SameButRefs, Sound, Typed

\* The library makes the object of a part in a free slot.
LEMMA LibraryMakesIs ==
  ASSUME Sound, NEW t \in Threads, LibraryMakes(t)
  PROVE  \E s \in Slots : MakesPart(t, s)
<1>. DEFINE s == Min(FreeSlots)
            o == call[t].on
            e == [NoObject EXCEPT !.class = call[t].part, !.library = TRUE, !.parent = Target(o)]
            found == IF call[t].op = "next" THEN object[o].index ELSE 0
            c == [call[t] EXCEPT !.stage = "done", !.slot = s, !.offset = 0, !.found = found]
<1>1. s \in Slots /\ ~ Exists(s)
  BY MinIsFree DEF LibraryMakes, FreeSlots
<1>2. call[t].op \in Getting /\ call[t].slot = File
  BY DEF LibraryMakes, ReadyToLeave, InLibrary, Getting, Sound, Calls, Shaped
<1>3. o \in Objects /\ Target(o) \in Objects /\ call[t].part \in Classes
  BY <1>2, TargetLives, CallIs DEF Sound, Getting
<1>4. object' = [object EXCEPT ![s] = e] /\ call' = [call EXCEPT ![t] = c] /\ held' = held
  BY DEF LibraryMakes, Sound, Typed
<1>5. e \in ObjectRecord
  BY <1>3, NothingTyped DEF NoObject, ObjectRecord
<1>6. found \in Nat
  BY <1>3, ObjectIs DEF Sound
<1>7. c \in CallRecord
  <2>1. call[t] \in CallRecord /\ s \in Objects /\ "done" \in Stages /\ 0 \in Found /\ found \in Found
    BY <1>1, <1>6, CallIs, Places DEF Sound, Stages, Found
  <2>. HIDE DEF found, s
  <2>. QED
    BY <2>1 DEF CallRecord
<1>. HIDE DEF e, c, found, s
<1>8. ObjectsTyped /\ object'[s] = e /\ \A x \in Objects \ {s} : object'[x] = object[x]
  BY <1>1, <1>4, <1>5, Places DEF ObjectsTyped, Sound, Typed
<1>9. Becomes(t, c)
  BY <1>4, <1>7 DEF Becomes, Sound, Typed
<1>. QED
  BY <1>1, <1>2, <1>4, <1>6, <1>8, <1>9 DEF MakesPart, e, c, found

\* Freeing an object drops its reference to the parent.
LEMMA ReleaseParentIs ==
  ASSUME Sound, NEW t \in Threads, ReleaseParent(t)
  PROVE  Releases(t)
<1>. DEFINE o == call[t].on
            p == object[o].parent
            e == [object[p] EXCEPT !.refs = object[p].refs - 1]
<1>1. call[t].op = "free" /\ o \in Slots
  BY CallIs, Places DEF ReleaseParent, FreesPart, Sound
<1>2. Exists(o) /\ ~ Alive(o)
  BY <1>1, Places DEF Sound, Claimed, Claims, Alive
<1>3. p \in Objects \ {o} /\ object[p].refs \in Int
  BY <1>1, <1>2, ParentLives, ObjectIs DEF Sound
<1>4. /\ object' = [object EXCEPT ![o] = NoObject, ![p] = e] /\ held' = held
      /\ call' = [call EXCEPT ![t] = AfterRelease(object[p].refs - 1, p)]
  BY <1>3 DEF ReleaseParent
<1>5. e \in ObjectRecord /\ e.refs = object[p].refs - 1 /\ e.class = object[p].class
      /\ e.parent = object[p].parent /\ e.library = object[p].library /\ e.index = object[p].index
  BY <1>3, ObjectIs, RefsChange, SMTT(40) DEF ObjectRecord, Sound
<1>. HIDE DEF e
<1>6. /\ ObjectsTyped /\ object'[p] = e /\ object'[o] = NoObject
      /\ \A x \in Objects \ {o, p} : object'[x] = object[x]
  BY <1>1, <1>3, <1>4, <1>5, Places, NothingTyped DEF ObjectsTyped, Sound, Typed
<1>7. EndsAt(t, p)
  <2>1. AfterRelease(object[p].refs - 1, p) = AfterRelease(object'[p].refs, p)
    BY <1>5, <1>6
  <2>2. AfterRelease(object'[p].refs, p) \in CallRecord
    BY <1>3, AfterReleaseIs
  <2>. QED
    BY <1>4, <2>1, <2>2 DEF Sound, Typed, EndsAt, Becomes
<1>8. \A x \in Objects : object[x].refs \in Int
  BY ObjectIs DEF Sound
<1>. HIDE DEF p, o
<1>9. \A x \in Objects \ {o} :
        /\ SameButRefs(x) /\ object'[x].index = object[x].index
        /\ object'[x].refs = object[x].refs - (IF x = p THEN 1 ELSE 0)
  BY <1>3, <1>5, <1>6, <1>8 DEF SameButRefs
<1>. QED
  BY <1>1, <1>3, <1>4, <1>6, <1>7, <1>9 DEF Releases, o, p

\* The new object is wrapped and takes a reference to the parent.
LEMMA ReturnPartIs ==
  ASSUME Sound, NEW t \in Threads, ReturnPart(t)
  PROVE  Wraps(t) /\ call[t].op \in Getting /\ call[t].stage = "done"
<1>. DEFINE o == call[t].on
            s == call[t].slot
            p == object[s].parent
            wrapped == Wrapped(s)
            objects == IF call[t].op = "next" THEN [wrapped EXCEPT ![o].index = @ + 1] ELSE wrapped
<1>1. call[t].op \in Getting /\ call[t].stage = "done" /\ s \in Slots /\ o \in Objects
  BY CallIs, Places DEF ReturnPart, Sound, Calls, Shaped
<1>2. Exists(s) /\ ~ Alive(s)
  BY <1>1, Places DEF Sound, Claimed, Claims, Alive
<1>3. Alive(o) /\ p \in Objects /\ Alive(p)
  BY <1>1, <1>2, CalledLives, ParentLives DEF Sound, Getting
<1>4. s \notin {o, p}
  BY <1>2, <1>3
<1>5. wrapped = [object EXCEPT ![s] = [object[s] EXCEPT !.refs = 1],
                               ![p] = [object[p] EXCEPT !.refs = object[p].refs + 1]]
  BY <1>1, <1>3, <1>4, Places DEF Wrapped, Sound, Typed
<1>6. /\ wrapped \in [Objects -> ObjectRecord]
      /\ wrapped[s] = [object[s] EXCEPT !.refs = 1]
      /\ wrapped[p] = [object[p] EXCEPT !.refs = object[p].refs + 1]
      /\ \A x \in Objects \ {s, p} : wrapped[x] = object[x]
  <2>1. [object[s] EXCEPT !.refs = 1] \in ObjectRecord
    BY <1>1, ObjectIs, RefsChange, Places DEF Sound
  <2>2. [object[p] EXCEPT !.refs = object[p].refs + 1] \in ObjectRecord
    BY <1>3, ObjectIs, RefsChange, SMTT(40) DEF Sound
  <2>. DEFINE e == [object[s] EXCEPT !.refs = 1]
              f == [object[p] EXCEPT !.refs = object[p].refs + 1]
  <2>3. s \in Objects /\ p \in Objects /\ s # p /\ object \in [Objects -> ObjectRecord]
    BY <1>1, <1>3, <1>4, Places DEF Sound, Typed
  <2>. HIDE DEF e, f, s, p
  <2>4. wrapped = [object EXCEPT ![s] = e, ![p] = f] /\ e \in ObjectRecord /\ f \in ObjectRecord
    BY <1>5, <2>1, <2>2 DEF e, f
  <2>. HIDE DEF wrapped
  <2>5. /\ wrapped \in [Objects -> ObjectRecord] /\ wrapped[s] = e /\ wrapped[p] = f
        /\ \A x \in Objects \ {s, p} : wrapped[x] = object[x]
    BY <2>3, <2>4
  <2>. QED
    BY <2>5 DEF e, f
<1>7. \A x \in Objects :
        /\ wrapped[x].class = object[x].class /\ wrapped[x].parent = object[x].parent
        /\ wrapped[x].library = object[x].library /\ wrapped[x].index = object[x].index
        /\ wrapped[x].refs = IF x = s THEN 1 ELSE object[x].refs + (IF x = p THEN 1 ELSE 0)
  <2>1. \A x \in Objects : object[x] \in ObjectRecord /\ object[x].refs \in Int
    BY ObjectIs DEF Sound
  <2>. QED
    BY <1>1, <1>3, <1>4, <1>6, <2>1, Places, SMTT(40) DEF ObjectRecord
<1>. HIDE DEF wrapped
<1>8. /\ objects \in [Objects -> ObjectRecord]
      /\ \A x \in Objects :
           /\ objects[x].class = wrapped[x].class /\ objects[x].parent = wrapped[x].parent
           /\ objects[x].library = wrapped[x].library /\ objects[x].refs = wrapped[x].refs
           /\ objects[x].index = wrapped[x].index + (IF call[t].op = "next" /\ x = o THEN 1 ELSE 0)
  <2>. DEFINE e == [wrapped[o] EXCEPT !.index = wrapped[o].index + 1]
  <2>1. wrapped[o] \in ObjectRecord /\ wrapped[o].index \in Nat
    BY <1>1, <1>6 DEF ObjectRecord
  <2>2. /\ e \in ObjectRecord /\ e.class = wrapped[o].class /\ e.parent = wrapped[o].parent
        /\ e.library = wrapped[o].library /\ e.refs = wrapped[o].refs /\ e.index = wrapped[o].index + 1
    BY <2>1 DEF ObjectRecord
  <2>3. objects = IF call[t].op = "next" THEN [wrapped EXCEPT ![o] = e] ELSE wrapped
    OBVIOUS
  <2>4. \A x \in Objects : wrapped[x].index \in Nat
    BY <1>6 DEF ObjectRecord
  <2>. HIDE DEF e, objects
  <2>. QED
    BY <1>1, <1>6, <2>2, <2>3, <2>4, SMTT(40)
<1>9. Return(t, objects) /\ held' = [held EXCEPT ![s] = 1]
  BY DEF ReturnPart, wrapped
<1>. HIDE DEF objects
<1>10. /\ ObjectsTyped /\ EndsAt(t, o)
       /\ \A x \in Objects \ {o} : object'[x] = objects[x]
       /\ object'[o] = [objects[o] EXCEPT !.refs = objects[o].refs - 1]
  BY <1>8, <1>9, ReturnIs DEF Sound
<1>11. \A x \in Objects :
         /\ object'[x].class = object[x].class /\ object'[x].parent = object[x].parent
         /\ object'[x].library = object[x].library
         /\ object'[x].index = object[x].index + (IF call[t].op = "next" /\ x = o THEN 1 ELSE 0)
         /\ object'[x].refs = (IF x = s THEN 1 ELSE object[x].refs + (IF x = p THEN 1 ELSE 0))
                              - (IF x = o THEN 1 ELSE 0)
  <2>1. \A x \in Objects : objects[x] \in ObjectRecord /\ objects[x].refs \in Int
    BY <1>8 DEF ObjectRecord
  <2>2. \A x \in Objects :
          /\ object'[x].class = objects[x].class /\ object'[x].parent = objects[x].parent
          /\ object'[x].library = objects[x].library /\ object'[x].index = objects[x].index
          /\ object'[x].refs = objects[x].refs - (IF x = o THEN 1 ELSE 0)
    BY <1>1, <1>10, <2>1 DEF ObjectRecord
  <2>. QED
    BY <1>7, <1>8, <2>1, <2>2
<1>12. held' \in [Objects -> 0 .. MaxHeld] /\ \A x \in Objects : held'[x] = IF x = s THEN 1 ELSE held[x]
  <2>1. s \in Objects /\ held \in [Objects -> 0 .. MaxHeld]
    BY <1>1, Places DEF Sound, Typed
  <2>2. 1 \in 0 .. MaxHeld
    BY BoundsAssumption
  <2>. QED
    BY <1>9, <2>1, <2>2
<1>13. \A x \in Objects \ {s} :
         object'[x].refs = object[x].refs + (IF x = p THEN 1 ELSE 0) - (IF x = o THEN 1 ELSE 0)
  <2>1. \A x \in Objects : object[x].refs \in Int
    BY ObjectIs DEF Sound
  <2>. HIDE DEF o, s, p
  <2>. QED
    BY <1>11, <2>1
<1>14. object'[s].refs = 1
  <2>1. s \in Objects /\ s # o
    BY <1>1, <1>4, Places
  <2>. HIDE DEF o, s, p
  <2>. QED
    BY <1>11, <2>1
<1>. HIDE DEF o, s, p
<1>15. \A x \in Objects :
         /\ SameButRefs(x)
         /\ object'[x].index = object[x].index + (IF call[t].op = "next" /\ x = o THEN 1 ELSE 0)
         /\ held'[x] = IF x = s THEN 1 ELSE held[x]
  BY <1>11, <1>12 DEF SameButRefs
<1>16. s \in Slots \ {o, p} /\ ObjectsTyped /\ held' \in [Objects -> 0 .. MaxHeld] /\ EndsAt(t, o)
  BY <1>1, <1>4, <1>10, <1>12
<1>. QED
  BY <1>1, <1>13, <1>14, <1>15, <1>16 DEF Wraps, o, s, p

\* Without memory for the wrapper the library object is freed and nothing is handed out.
LEMMA ReturnNoMemoryIs ==
  ASSUME Sound, NEW t \in Threads, ReturnNoMemory(t)
  PROVE  Unmakes(t) /\ call[t].op \in Getting /\ call[t].stage = "done"
<1>. DEFINE o == call[t].on
            s == call[t].slot
            objects == [object EXCEPT ![s] = NoObject]
<1>1. call[t].op \in Getting /\ call[t].stage = "done" /\ s \in Slots /\ o \in Objects
  BY CallIs, Places DEF ReturnNoMemory, Sound, Calls, Shaped
<1>2. Exists(s) /\ ~ Alive(s)
  BY <1>1, Places DEF Sound, Claimed, Claims, Alive
<1>3. Alive(o)
  BY <1>1, CalledLives DEF Sound, Getting
<1>4. s # o /\ s \in Objects
  BY <1>1, <1>2, <1>3, Places
<1>5. Return(t, objects) /\ held' = held
  BY DEF ReturnNoMemory
<1>6. /\ objects \in [Objects -> ObjectRecord] /\ objects[s] = NoObject
      /\ \A x \in Objects \ {s} : objects[x] = object[x]
  BY <1>4, NothingTyped DEF Sound, Typed
<1>. HIDE DEF objects
<1>7. /\ ObjectsTyped /\ EndsAt(t, o)
      /\ \A x \in Objects \ {o} : object'[x] = objects[x]
      /\ object'[o] = [objects[o] EXCEPT !.refs = objects[o].refs - 1]
  BY <1>5, <1>6, ReturnIs DEF Sound
<1>8. \A x \in Objects : object[x] \in ObjectRecord /\ object[x].refs \in Int
  BY ObjectIs DEF Sound
<1>. HIDE DEF s, o
<1>9. object'[s] = NoObject
  BY <1>4, <1>6, <1>7
<1>10. \A x \in Objects \ {s} :
         /\ SameButRefs(x) /\ object'[x].index = object[x].index
         /\ object'[x].refs = object[x].refs - (IF x = o THEN 1 ELSE 0)
  BY <1>1, <1>4, <1>6, <1>7, <1>8 DEF SameButRefs, ObjectRecord
<1>. QED
  BY <1>1, <1>4, <1>5, <1>7, <1>9, <1>10 DEF Unmakes, s, o

\* A sequence is made when the call for it returns.
LEMMA ReturnSequenceIs ==
  ASSUME Sound, NEW t \in Threads, ReturnSequence(t)
  PROVE  \E s \in Slots : Collects(t, s)
<1>. DEFINE s == Min(FreeSlots)
            o == call[t].on
            e == [NoObject EXCEPT !.class = call[t].part, !.refs = 1, !.parent = o]
            f == [object[o] EXCEPT !.refs = object[o].refs + 1]
            objects == [object EXCEPT ![s] = e, ![o] = f]
<1>1. s \in Slots /\ ~ Exists(s)
  BY MinIsFree DEF ReturnSequence, FreeSlots
<1>2. call[t].op = "sequence" /\ call[t].slot = File
  BY DEF ReturnSequence, Sound, Calls, Shaped, Getting
<1>3. o \in Objects /\ Alive(o) /\ object[o].refs > 0 /\ object[o].refs \in Int
  BY <1>2, CalledLives, ObjectIs DEF Sound
<1>4. s # o /\ s \in Objects
  BY <1>1, <1>3, Places DEF Alive
<1>5. Return(t, objects) /\ held' = [held EXCEPT ![s] = 1]
  BY <1>3, <1>4 DEF ReturnSequence, Sound, Typed
<1>6. e \in ObjectRecord /\ f \in ObjectRecord
  <2>1. call[t].part \in Classes /\ 1 \in Int
    BY CallIs DEF Sound
  <2>2. e \in ObjectRecord
    BY <1>3, <2>1, NothingTyped DEF NoObject, ObjectRecord
  <2>3. object[o] \in ObjectRecord /\ object[o].refs + 1 \in Int
    BY <1>3, ObjectIs DEF Sound
  <2>. QED
    BY <2>2, <2>3, RefsChange
<1>7. object[o] \in ObjectRecord /\ f.refs = object[o].refs + 1
  BY <1>3, ObjectIs DEF Sound, ObjectRecord
<1>8. [f EXCEPT !.refs = f.refs - 1] = object[o]
  <2>1. f.refs - 1 = object[o].refs
    BY <1>3, <1>7
  <2>2. [f EXCEPT !.refs = object[o].refs] = object[o]
    BY <1>7 DEF ObjectRecord
  <2>. HIDE DEF f
  <2>. QED
    BY <2>1, <2>2
<1>. HIDE DEF e, f
<1>9. /\ objects \in [Objects -> ObjectRecord] /\ objects[s] = e /\ objects[o] = f
      /\ \A x \in Objects \ {s, o} : objects[x] = object[x]
  <2>1. object \in [Objects -> ObjectRecord]
    BY DEF Sound, Typed
  <2>. HIDE DEF s, o
  <2>. QED
    BY <1>3, <1>4, <1>6, <2>1
<1>. HIDE DEF objects
<1>10. /\ ObjectsTyped /\ EndsAt(t, o)
       /\ \A x \in Objects \ {o} : object'[x] = objects[x]
       /\ object'[o] = [objects[o] EXCEPT !.refs = objects[o].refs - 1]
  BY <1>5, <1>9, ReturnIs DEF Sound
<1>. HIDE DEF s, o
<1>11. object'[s] = e /\ \A x \in Objects \ {s} : object'[x] = object[x]
  BY <1>3, <1>4, <1>8, <1>9, <1>10
<1>12. held' \in [Objects -> 0 .. MaxHeld] /\ \A x \in Objects : held'[x] = IF x = s THEN 1 ELSE held[x]
  <2>1. held \in [Objects -> 0 .. MaxHeld]
    BY DEF Sound, Typed
  <2>2. 1 \in 0 .. MaxHeld
    BY BoundsAssumption
  <2>. QED
    BY <1>4, <1>5, <2>1, <2>2
<1>. QED
  BY <1>1, <1>2, <1>4, <1>10, <1>11, <1>12 DEF Collects, e, o

\* A call that answers without an object ends.
LEMMA EndsIs ==
  ASSUME Sound, NEW t \in Threads, Answered(t), call[t].op # "none", call[t].slot = File,
         Return(t, object), held' = held
  PROVE  Ends(t)
<1>. DEFINE o == call[t].on
<1>1. call[t].op \notin {"none", "free"} /\ o \in Objects
  BY CallIs DEF Answered, Sound
<1>2. /\ ObjectsTyped /\ EndsAt(t, o)
      /\ \A x \in Objects \ {o} : object'[x] = object[x]
      /\ object'[o] = [object[o] EXCEPT !.refs = object[o].refs - 1]
  BY ReturnIs DEF Sound, Typed
<1>3. \A x \in Objects : object[x] \in ObjectRecord /\ object[x].refs \in Int
  BY ObjectIs DEF Sound
<1>4. \A x \in Objects :
        /\ SameButRefs(x) /\ object'[x].index = object[x].index
        /\ object'[x].refs = object[x].refs - (IF x = o THEN 1 ELSE 0)
  BY <1>1, <1>2, <1>3 DEF SameButRefs, ObjectRecord
<1>. QED
  BY <1>1, <1>2, <1>4 DEF Ends

\* A call begins.
Begins(t, o, op, part) ==
  /\ o \in Objects /\ op \in Ops \ {"none", "free"} /\ part \in Classes
  /\ op \in Getting =>
       /\ part \in DOMAIN ParentClass \ Sequences /\ ClassOf(Target(o)) = ParentClass[part]
       /\ op = "part" <=> ~ IsSequence(o)
  /\ op = "sequence" => part \in Sequences /\ ClassOf(o) = ParentClass[part]
  /\ op = "next" => object[o].index < Items
  /\ Settles(op) => o = File
  /\ Begin(t, o, op, part) /\ held' = held

\* The calls that get an object begin as calls do.
LEMMA GettingBegins ==
  ASSUME Sound, NEW t \in Threads, NEW o \in Objects, NEW part \in Classes,
         GetPart(t, o, part) \/ GetItem(t, o) \/ IterNext(t, o)
  PROVE  \E op, p : op \in Getting /\ Begins(t, o, op, p)
<1>1. Exists(o) /\ ClassOf(o) \in Classes
  BY ObjectIs DEF GetPart, GetItem, IterNext, Begin, MayCall, ClassOf, Sound
<1>2. CASE GetPart(t, o, part)
  <2>1. ~ IsSequence(o) /\ part \in Parts[ClassOf(o)] /\ Begin(t, o, "part", part) /\ held' = held
    BY <1>2 DEF GetPart, ClassOf, Unchanged
  <2>2. ClassOf(o) \in {"file", "table", "record", "column", "longvalue"}
    BY <1>1, <2>1, ClassesAre DEF Exists, IsSequence, ClassOf
  <2>3. part \in DOMAIN ParentClass \ Sequences /\ ParentClass[part] = ClassOf(o)
    BY <2>1, <2>2, PartsFit
  <2>4. Target(o) = o
    BY <2>1 DEF Target
  <2>5. Begins(t, o, "part", part)
    BY <2>1, <2>3, <2>4 DEF Begins, Ops, Getting, Settles
  <2>. QED
    BY <2>5 DEF Getting
<1>3. ASSUME NEW op \in {"item", "next"}, IsSequence(o), op = "next" => object[o].index < Items,
             Begin(t, o, op, SequenceItem[object[o].class]), held' = held
      PROVE  Begins(t, o, op, SequenceItem[object[o].class])
  <2>. DEFINE item == SequenceItem[object[o].class]
  <2>1. o \in Slots /\ Exists(o) /\ ClassOf(o) \in Sequences
    BY <1>3, SequencesAreSlots DEF Sound, IsSequence, ClassOf
  <2>2. item \in DOMAIN ParentClass \ Sequences /\ ParentClass[item] = ParentClass[ClassOf(o)]
    BY <2>1, PartsFit DEF ClassOf
  <2>3. ClassOf(Target(o)) = ParentClass[item]
    BY <1>3, <2>1, <2>2 DEF Target, Sound, Family
  <2>4. item \in Classes
    BY <2>2, ClassesAre
  <2>. HIDE DEF item
  <2>5. op \in Ops \ {"none", "free"} /\ ~ Settles(op) /\ op # "part" /\ op # "sequence"
    BY DEF Ops, Settles
  <2>6. Begin(t, o, op, item)
    BY <1>3 DEF item
  <2>7. Begins(t, o, op, item)
    BY <1>3, <2>2, <2>3, <2>4, <2>5, <2>6 DEF Begins
  <2>. QED
    BY <2>7 DEF item
<1>4. CASE GetItem(t, o)
  <2>1. Begins(t, o, "item", SequenceItem[object[o].class])
    BY <1>3, <1>4 DEF GetItem, Unchanged
  <2>. QED
    BY <2>1 DEF Getting
<1>5. CASE IterNext(t, o)
  <2>1. Begins(t, o, "next", SequenceItem[object[o].class])
    BY <1>3, <1>5 DEF IterNext, Unchanged
  <2>. QED
    BY <2>1 DEF Getting
<1>. QED
  BY <1>2, <1>4, <1>5

\* So does the call for a sequence,
LEMMA SequenceBegins ==
  ASSUME NEW t \in Threads, NEW o \in Objects, NEW part \in Sequences, GetSequence(t, o, part)
  PROVE  Begins(t, o, "sequence", part)
<1>1. part \in SequencesOf[ClassOf(o)] /\ ClassOf(o) \in DOMAIN SequencesOf /\ Begin(t, o, "sequence", part)
      /\ held' = held
  BY DEF GetSequence, ClassOf, Unchanged
<1>2. ParentClass[part] = ClassOf(o) /\ part \in Classes
  BY <1>1, PartsFit, ClassesAre
<1>. QED
  BY <1>1, <1>2 DEF Begins, Ops, Getting, Settles

\* the call for a value,
LEMMA ValueBegins ==
  ASSUME NEW t \in Threads, NEW o \in Objects, GetValue(t, o)
  PROVE  Begins(t, o, "value", "none")
BY ClassesAre DEF GetValue, Unchanged, Begins, Ops, Getting, Settles

\* and those that open and close the file.
LEMMA SettlingBegins ==
  ASSUME NEW t \in Threads, NEW op \in {"open", "open file object", "close"}, Begin(t, File, op, "none"),
         held' = held
  PROVE  Begins(t, File, op, "none")
BY ClassesAre, Places DEF Begins, Ops, Getting

-----------------------------------------------------------------------------
\* A stage that a call may go on to.
ShapedAt(t, stage) ==
  LET op == call[t].op IN
  \/ op \notin {"none", "free"} /\ stage \in {"seek", "read", "failed"} /\ call[t].stage # "done"
  \/ op \notin {"none", "free"} \cup Getting /\ stage = "done"
  \/ op = "close" /\ stage \in {"handle", "freed"}
  \/ op = "free" /\ call[t].on # File /\ stage = "done"
  \/ op = "free" /\ call[t].on = File /\ stage \in {"library", "handle"}

\* A call that only moves its stage keeps its shape.
LEMMA ShapedStays ==
  ASSUME Sound, NEW t \in Threads, NEW stage, ShapedAt(t, stage),
         call'[t].op = call[t].op, call'[t].on = call[t].on, call'[t].slot = call[t].slot,
         call'[t].stage = stage
  PROVE  Shaped(call'[t]) /\ (call[t].op \in Getting => call[t].slot = File)
<1>1. Shaped(call[t])
  BY DEF Sound, Calls
<1>2. call[t].op \in Getting => call[t].slot = File
  BY <1>1 DEF ShapedAt, Shaped, Getting
<1>. QED
  BY <1>1, <1>2 DEF ShapedAt, Shaped, Getting, InCall, Settles

\* A call that leaves the library and changes no object goes on.
LEMMA LeavingGoes ==
  ASSUME Sound, NEW t \in Threads, NEW stage \in Stages, LeaveLibrary(t, stage),
         call[t].op # "none", object' = object, held' = held, ShapedAt(t, stage)
  PROVE  Goes(t) /\ call'[t].stage = stage
<1>1. Going(t) /\ call'[t].stage = stage
  BY LeavesIs DEF Sound
<1>2. Shaped(call'[t]) /\ (call[t].op \in Getting => call[t].slot = File)
  BY <1>1, ShapedStays DEF Going
<1>. QED
  BY <1>1, <1>2 DEF Goes, Sound, Typed, ObjectsTyped

\* The steps of a call that leave the objects as they are.
LEMMA LibraryGoes ==
  ASSUME Sound, NEW t \in Threads, Busy(t),
         \/ Seek(t) \/ Read(t) \/ LibraryOpens(t) \/ LibraryCloses(t) \/ LibraryAnswers(t) \/ LibraryFails(t)
         \/ ReturnCloseWithHandle(t) \/ FreeHandle(t)
  PROVE  Goes(t)
<1>1. call[t].op # "none" /\ {"done", "failed", "handle", "library", "freed"} \subseteq Stages
  BY DEF Busy, Stages
<1>2. CASE Seek(t)
  <2>1. PICK offset \in Offsets : call' = [call EXCEPT ![t].stage = "seek", ![t].offset = offset]
    BY <1>2 DEF Seek
  <2>. DEFINE c == [call[t] EXCEPT !.stage = "seek", !.offset = offset]
  <2>2. /\ c \in CallRecord /\ c.op = call[t].op /\ c.on = call[t].on /\ c.part = call[t].part
        /\ c.slot = call[t].slot /\ c.alone = call[t].alone /\ c.stage = "seek"
    <3>1. call[t] \in CallRecord /\ "seek" \in Stages /\ offset \in Found
      BY CallIs DEF Sound, Stages, Found
    <3>. QED
      BY <3>1 DEF CallRecord
  <2>3. call' = [call EXCEPT ![t] = c] /\ call \in [Threads -> CallRecord]
    BY <2>1 DEF Sound, Typed
  <2>. HIDE DEF c
  <2>4. Going(t) /\ call'[t].stage = "seek"
    BY <2>2, <2>3 DEF Going
  <2>5. ShapedAt(t, "seek")
    BY <1>1, <1>2 DEF ShapedAt, Seek, InLibrary
  <2>6. Shaped(call'[t]) /\ (call[t].op \in Getting => call[t].slot = File)
    BY <2>4, <2>5, ShapedStays DEF Going
  <2>. QED
    BY <1>1, <1>2, <2>4, <2>6 DEF Seek, Goes, Sound, Typed, ObjectsTyped
<1>3. CASE Read(t)
  <2>. DEFINE c == [call[t] EXCEPT !.stage = "read", !.found = medium.offset]
  <2>1. /\ c \in CallRecord /\ c.op = call[t].op /\ c.on = call[t].on /\ c.part = call[t].part
        /\ c.slot = call[t].slot /\ c.alone = call[t].alone /\ c.stage = "read"
    <3>1. call[t] \in CallRecord /\ "read" \in Stages /\ medium.offset \in Found
      BY CallIs DEF Sound, Stages, Found, Typed
    <3>. QED
      BY <3>1 DEF CallRecord
  <2>2. call' = [call EXCEPT ![t] = c] /\ call \in [Threads -> CallRecord]
    BY <1>3 DEF Read, Sound, Typed
  <2>. HIDE DEF c
  <2>3. Going(t) /\ call'[t].stage = "read"
    BY <2>1, <2>2 DEF Going
  <2>4. ShapedAt(t, "read")
    BY <1>1, <1>3 DEF ShapedAt, Read, Sound, Calls, Shaped
  <2>5. Shaped(call'[t]) /\ (call[t].op \in Getting => call[t].slot = File)
    BY <2>3, <2>4, ShapedStays DEF Going
  <2>. QED
    BY <1>1, <1>3, <2>3, <2>5 DEF Read, Goes, Sound, Typed, ObjectsTyped
<1>4. CASE LibraryOpens(t) \/ LibraryCloses(t) \/ LibraryAnswers(t)
  <2>1. LeaveLibrary(t, "done") /\ object' = object /\ held' = held
    BY <1>4 DEF LibraryOpens, LibraryCloses, LibraryAnswers
  <2>2. ShapedAt(t, "done")
    BY <1>4 DEF ShapedAt, LibraryOpens, LibraryCloses, LibraryAnswers, Opens, Getting
  <2>. QED
    BY <1>1, <2>1, <2>2, LeavingGoes
<1>5. CASE LibraryFails(t)
  <2>1. LeaveLibrary(t, "failed") /\ object' = object /\ held' = held
    BY <1>5 DEF LibraryFails
  <2>2. ShapedAt(t, "failed")
    BY <1>1, <1>5 DEF ShapedAt, LibraryFails, ReadyToLeave, InLibrary, Sound, Calls, Shaped
  <2>. QED
    BY <1>1, <2>1, <2>2, LeavingGoes
<1>6. CASE ReturnCloseWithHandle(t)
  <2>1. LeaveLibrary(t, "handle") /\ object' = object /\ held' = held
    BY <1>6 DEF ReturnCloseWithHandle
  <2>2. ShapedAt(t, "handle")
    BY <1>6 DEF ShapedAt, ReturnCloseWithHandle
  <2>. QED
    BY <1>1, <2>1, <2>2, LeavingGoes
<1>7. CASE FreeHandle(t)
  <2>1. LeaveLibrary(t, IF FreesFile(t) THEN "library" ELSE "freed") /\ object' = object /\ held' = held
    BY <1>7 DEF FreeHandle
  <2>2. ShapedAt(t, IF FreesFile(t) THEN "library" ELSE "freed")
    <3>1. FreesFile(t) \/ call[t].op = "close"
      BY <1>1, <1>7 DEF FreeHandle, FreesFile, Sound, Calls, Shaped, InCall
    <3>. QED
      BY <3>1 DEF ShapedAt, FreesFile
  <2>3. (IF FreesFile(t) THEN "library" ELSE "freed") \in Stages
    BY DEF Stages
  <2>. QED
    BY <1>1, <2>1, <2>2, <2>3, LeavingGoes
<1>. QED
  BY <1>2, <1>3, <1>4, <1>5, <1>6, <1>7

\* Freeing the library object of an object leaves all the counts.
LEMMA FreeLibraryGoes ==
  ASSUME Sound, NEW t \in Threads, FreeLibrary(t)
  PROVE  /\ Goes(t) /\ call'[t].stage = "done" /\ call[t].op = "free" /\ call[t].on \in Slots
         /\ ~ object'[call[t].on].library
         /\ \A x \in Objects \ {call[t].on} : object'[x] = object[x]
<1>. DEFINE o == call[t].on
            e == [object[o] EXCEPT !.library = FALSE]
<1>1. o \in Slots /\ o \in Objects /\ call[t].op = "free"
  BY CallIs, Places DEF FreeLibrary, FreesPart, Sound
<1>2. object' = [object EXCEPT ![o] = e] /\ object \in [Objects -> ObjectRecord]
  BY DEF FreeLibrary, Sound, Typed
<1>3. /\ e \in ObjectRecord /\ ~ e.library /\ e.class = object[o].class /\ e.parent = object[o].parent
      /\ e.refs = object[o].refs /\ e.index = object[o].index
  <2>1. object[o] \in ObjectRecord
    BY <1>1, ObjectIs DEF Sound
  <2>. QED
    BY <2>1 DEF ObjectRecord
<1>4. Going(t) /\ call'[t].stage = "done" /\ held' = held
  BY LeavesIs DEF FreeLibrary, Sound, Stages
<1>. HIDE DEF e, o
<1>5. ObjectsTyped /\ object'[o] = e /\ \A x \in Objects \ {o} : object'[x] = object[x]
  BY <1>1, <1>2, <1>3 DEF ObjectsTyped
<1>6. Exists(o)
  BY <1>1 DEF Sound, Claimed, Claims, o
<1>7. Shaped(call'[t]) /\ (call[t].op \in Getting => call[t].slot = File)
  <2>1. ShapedAt(t, "done")
    BY <1>1, Places DEF ShapedAt, o
  <2>. QED
    BY <1>4, <2>1, ShapedStays DEF Going
<1>. QED
  BY <1>1, <1>3, <1>4, <1>5, <1>6, <1>7 DEF Goes, o

\* The file is freed when nothing uses it, and it has no handle that is not open.
LEMMA FreeFileIs ==
  ASSUME Sound, HandleOwned, NEW t \in Threads, FreeFile(t)
  PROVE  /\ call[t].op = "free" /\ call[t].on = File /\ call[t].stage = "library"
         /\ object[File].refs = 0
         /\ \/ ~ file.handle /\ FileGoes(t)
            \/ file.handle /\ Goes(t) /\ call'[t].stage = "handle" /\ object' = object
<1>1. call[t].op = "free" /\ call[t].on = File /\ call[t].stage = "library" /\ held' = held
  BY DEF FreeFile, FreesFile
<1>2. object[File].refs = 0
  <2>1. ~ Alive(File)
    BY <1>1 DEF Alive, Claims
  <2>2. object[File].refs = held[File] + Cardinality(Children(File)) + Cardinality(Calling(File))
    BY Places DEF Sound, Counted
  <2>3. held[File] \in Nat /\ Cardinality(Children(File)) \in Nat /\ Cardinality(Calling(File)) \in Nat
    BY Places, ObjectIs, Counts DEF Sound
  <2>4. ~ (object[File].refs > 0)
    BY <2>1, Places DEF Sound, Living
  <2>. QED
    BY <2>2, <2>3, <2>4
<1>3. CASE ~ file.handle
  <2>1. object' = [object EXCEPT ![File] = NoObject] /\ call' = [call EXCEPT ![t] = NoCall]
    BY <1>3 DEF FreeFile
  <2>2. ObjectsTyped /\ object'[File] = NoObject /\ \A s \in Slots : object'[s] = object[s]
    BY <2>1, Places, NothingTyped DEF ObjectsTyped, Sound, Typed
  <2>3. Becomes(t, NoCall)
    BY <2>1, NothingTyped DEF Becomes, Sound, Typed
  <2>. QED
    BY <1>1, <1>2, <1>3, <2>2, <2>3 DEF FileGoes
<1>4. CASE file.handle
  <2>1. file.open
    <3>1. \A u \in Threads : ~ OpensHandle(u) /\ ~ ClosesHandle(u)
      <4>1. \A u \in Threads : call[u].op # "none" => call[u].op = "free" /\ call[u].on = File
        BY <1>2, FileLives DEF Sound
      <4>2. \A u \in Threads : call[u].op = "free" => u = t
        BY <1>1, <4>1, Places DEF Sound, Claimed, Claims
      <4>. QED
        BY <1>1, <4>1, <4>2 DEF OpensHandle, ClosesHandle
    <3>. QED
      BY <1>4, <3>1 DEF HandleOwned
  <2>2. call' = [call EXCEPT ![t] = [call[t] EXCEPT !.stage = "handle"]] /\ object' = object
    BY <1>4, <2>1 DEF FreeFile, Sound, Typed
  <2>. DEFINE c == [call[t] EXCEPT !.stage = "handle"]
  <2>3. /\ c \in CallRecord /\ c.op = call[t].op /\ c.on = call[t].on /\ c.part = call[t].part
        /\ c.slot = call[t].slot /\ c.alone = call[t].alone /\ c.stage = "handle"
    <3>1. call[t] \in CallRecord /\ "handle" \in Stages
      BY CallIs DEF Sound, Stages
    <3>. QED
      BY <3>1 DEF CallRecord
  <2>4. call' = [call EXCEPT ![t] = c] /\ call \in [Threads -> CallRecord]
    BY <2>2 DEF Sound, Typed
  <2>. HIDE DEF c
  <2>5. Going(t) /\ call'[t].stage = "handle"
    BY <2>3, <2>4 DEF Going
  <2>6. Shaped(call'[t]) /\ (call[t].op \in Getting => call[t].slot = File)
    <3>1. ShapedAt(t, "handle")
      BY <1>1 DEF ShapedAt
    <3>. QED
      BY <2>5, <3>1, ShapedStays DEF Going
  <2>. QED
    BY <1>1, <1>2, <1>4, <2>2, <2>5, <2>6 DEF Goes, Sound, Typed, ObjectsTyped
<1>. QED
  BY <1>1, <1>2, <1>3, <1>4

-----------------------------------------------------------------------------
(***************************************************************************)
(* The references stay exact.  Each effect is looked at alone: which       *)
(* objects have another child, another call or another claim.              *)
(***************************************************************************)
Core == Calls /\ Claimed /\ Counted /\ Living /\ Gone /\ Family /\ Wanted

\* A slot is not wrapped while a call has it in hand, after the step.
LEMMA UnwrappedNext ==
  ASSUME Calls', NEW s \in Slots
  PROVE  Unwrapped(s)' <=> \E t \in Threads : call'[t].slot = s
BY Places DEF Calls, Shaped, Unwrapped, Busy, Getting

\* The children of an object after a step, by their fields.
LEMMA ChildrenNext ==
  ASSUME Calls', NEW x \in Objects, NEW s \in Slots
  PROVE  s \in Children(x)' <=>
           object'[s].class # "none" /\ object'[s].parent = x /\ \A t \in Threads : call'[t].slot # s
BY UnwrappedNext DEF Children, Exists

\* The children of an object before a step, by their fields.
LEMMA ChildrenNow ==
  ASSUME Calls, NEW x \in Objects, NEW s \in Slots
  PROVE  s \in Children(x) <=>
           object[s].class # "none" /\ object[s].parent = x /\ \A t \in Threads : call[t].slot # s
BY UnwrappedIs DEF Children, Exists

\* The sets that are counted do not change with the classes, the parents and the calls' slots.
LEMMA SameChildren ==
  ASSUME Calls, Calls', NEW x \in Objects,
         \A s \in Slots : object'[s].class = object[s].class /\ object'[s].parent = object[s].parent,
         \A t \in Threads : call'[t].slot = call[t].slot
  PROVE  Children(x)' = Children(x)
<1>1. \A s \in Slots : s \in Children(x)' <=> s \in Children(x)
  BY ChildrenNow, ChildrenNext
<1>2. Children(x) \subseteq Slots /\ Children(x)' \subseteq Slots
  BY DEF Children
<1>. QED
  BY <1>1, <1>2

\* A step of a thread changes the calls on an object by that thread at most.
LEMMA SameCalling ==
  ASSUME NEW x \in Objects, NEW t \in Threads,
         \A u \in Threads \ {t} : call'[u].op = call[u].op /\ call'[u].on = call[u].on
  PROVE  /\ t \notin Calling(x)' => Calling(x)' = Calling(x) \ {t}
         /\ t \in Calling(x)' => Calling(x)' = Calling(x) \cup {t}
BY DEF Calling, Busy

\* The classes do not change.
LEMMA SameFamily ==
  ASSUME Sound,
         \A x \in Objects : object'[x].class = object[x].class /\ object'[x].parent = object[x].parent
  PROVE  Family'
<1>1. \A s \in Slots : object[s].parent \in Objects /\ s \in Objects
  BY ObjectIs, Places DEF Sound
<1>2. \A x \in Objects : ClassOf(x)' = ClassOf(x) /\ (Exists(x)' <=> Exists(x))
  BY DEF ClassOf, Exists
<1>3. ClassOf(File)' \in {"file", "none"}
  BY <1>2, Places DEF Sound, Family
<1>4. ASSUME NEW s \in Slots, Exists(s)'
      PROVE  ClassOf(s)' \in DOMAIN ParentClass /\ ClassOf(object[s].parent)' = ParentClass[ClassOf(s)']
  <2>1. PICK p \in Objects : p = object[s].parent
    BY <1>1
  <2>2. ClassOf(s) \in DOMAIN ParentClass /\ ClassOf(p) = ParentClass[ClassOf(s)]
    BY <1>1, <1>2, <1>4, <2>1 DEF Sound, Family
  <2>3. ClassOf(object[s].parent)' = ClassOf(p)'
    BY <1>1, <2>1 DEF ClassOf
  <2>. QED
    BY <1>1, <1>2, <2>2, <2>3
<1>. QED
  BY <1>3, <1>4 DEF Family

\* What a call is about stays as it is with the classes.
LEMMA SameTarget ==
  ASSUME Sound, NEW o \in Objects,
         \A x \in Objects : object'[x].class = object[x].class /\ object'[x].parent = object[x].parent
  PROVE  Target(o)' = Target(o) /\ Target(o) \in Objects /\ (IsSequence(o)' <=> IsSequence(o))
BY ObjectIs DEF Sound, Target, IsSequence

\* and what a call that goes on may hand out.
LEMMA SameWanted ==
  ASSUME Sound, NEW t \in Threads,
         \A x \in Objects : object'[x].class = object[x].class /\ object'[x].parent = object[x].parent,
         call'[t].op = call[t].op, call'[t].on = call[t].on, call'[t].part = call[t].part,
         call'[t].slot = call[t].slot
  PROVE  /\ call'[t].op \in Getting => GetsPart(t)'
         /\ call'[t].op = "sequence" => GetsSequence(t)'
         /\ call'[t].slot # File => Makes(t)'
<1>1. PICK o \in Objects, r \in Objects : o = call[t].on /\ r = call[t].slot
  BY CallIs DEF Sound
<1>2. PICK q \in Objects : q = Target(o)
  BY <1>1, SameTarget
<1>3. Target(o)' = q /\ (IsSequence(o)' <=> IsSequence(o)) /\ ClassOf(o)' = ClassOf(o)
      /\ ClassOf(q)' = ClassOf(q) /\ ClassOf(r)' = ClassOf(r) /\ object'[r].parent = object[r].parent
  BY <1>1, <1>2, SameTarget DEF ClassOf
<1>4. /\ call[t].op \in Getting => GetsPart(t)
      /\ call[t].op = "sequence" => GetsSequence(t)
      /\ call[t].slot # File => Makes(t)
  BY DEF Sound, Wanted
<1>5. call'[t].on = o /\ call'[t].slot = r
  BY <1>1
<1>6. call'[t].op \in Getting => GetsPart(t)'
  BY <1>1, <1>2, <1>3, <1>4, <1>5 DEF GetsPart
<1>7. call'[t].op = "sequence" => GetsSequence(t)'
  BY <1>1, <1>3, <1>4, <1>5 DEF GetsSequence
<1>8. call'[t].slot # File => Makes(t)'
  BY <1>1, <1>2, <1>3, <1>4, <1>5 DEF Makes
<1>. QED
  BY <1>6, <1>7, <1>8

\* Facts that every effect starts from.
LEMMA CountIs ==
  ASSUME Sound, NEW x \in Objects
  PROVE  /\ object[x].refs = held[x] + Cardinality(Children(x)) + Cardinality(Calling(x))
         /\ held[x] \in Nat /\ Cardinality(Children(x)) \in Nat /\ Cardinality(Calling(x)) \in Nat
         /\ object[x].refs \in Nat
         /\ object[x].refs > 0 <=> Alive(x)
<1>1. object[x].refs = held[x] + Cardinality(Children(x)) + Cardinality(Calling(x))
  BY DEF Sound, Counted
<1>2. held[x] \in Nat /\ Cardinality(Children(x)) \in Nat /\ Cardinality(Calling(x)) \in Nat
  BY Counts, ObjectIs DEF Sound
<1>3. object[x].refs > 0 <=> Alive(x)
  BY DEF Sound, Living
<1>. HIDE DEF Sound
<1>. QED
  BY <1>1, <1>2, <1>3

\* What each thread has in hand, with the same classes, keeps the claims and the living.
LEMMA SameClaims ==
  ASSUME Sound, \A x \in Objects : object'[x].class = object[x].class,
         \A x \in Objects : object'[x].refs > 0 <=> object[x].refs > 0,
         \A u \in Threads, x \in Objects : Claims(u, x)' <=> Claims(u, x)
  PROVE  Claimed' /\ Living'
<1>1. \A x \in Objects : Exists(x)' <=> Exists(x)
  BY DEF Exists
<1>2. Claimed'
  BY <1>1 DEF Sound, Claimed
<1>3. ASSUME NEW x \in Objects
      PROVE  object'[x].refs > 0 <=> Alive(x)'
  <2>1. Alive(x)' <=> Alive(x)
    BY <1>1 DEF Alive
  <2>. QED
    BY <2>1 DEF Sound, Living
<1>. QED
  BY <1>2, <1>3 DEF Living

\* Beginning a call keeps the references exact.
LEMMA BeginsCore ==
  ASSUME Sound, NEW t \in Threads, NEW o, NEW op, NEW part, Begins(t, o, op, part)
  PROVE  Core'
<1>1. o \in Objects /\ op \in Ops /\ part \in Classes /\ op \notin {"none", "free"} /\ Begin(t, o, op, part)
  BY DEF Begins
<1>2. /\ call[t].op = "none" /\ Exists(o) /\ held[o] > 0
      /\ \A x \in Objects \ {o} : object'[x] = object[x]
      /\ object'[o] = [object[o] EXCEPT !.refs = @ + 1]
      /\ \A u \in Threads \ {t} : call'[u] = [call[u] EXCEPT !.alone = call'[u].alone]
      /\ \A u \in Threads \ {t} : call[u].op = "none" => call'[u] = call[u]
      /\ call'[t].op = op /\ call'[t].on = o /\ call'[t].part = part /\ call'[t].stage = "library"
      /\ call'[t].slot = File
  <2>1. Typed
    BY DEF Sound
  <2>2. /\ call[t].op = "none" /\ Exists(o) /\ held[o] > 0
        /\ \A x \in Objects \ {o} : object'[x] = object[x]
        /\ object'[o] = [object[o] EXCEPT !.refs = @ + 1]
    BY <1>1, <2>1, BeginIs
  <2>3. \A u \in Threads \ {t} : call'[u] = [call[u] EXCEPT !.alone = call'[u].alone]
    BY <1>1, <2>1, BeginIs
  <2>4. \A u \in Threads \ {t} : call[u].op = "none" => call'[u] = call[u]
    BY <1>1, <2>1, BeginIs
  <2>5. /\ call'[t].op = op /\ call'[t].on = o /\ call'[t].part = part /\ call'[t].stage = "library"
        /\ call'[t].slot = File
    BY <1>1, BeginCallIs
  <2>. QED
    BY <2>2, <2>3, <2>4, <2>5
<1>3. \A x \in Objects : object[x] \in ObjectRecord
  BY ObjectIs DEF Sound
<1>4. \A x \in Objects :
        /\ object'[x].class = object[x].class /\ object'[x].parent = object[x].parent
        /\ object'[x].refs = object[x].refs + (IF x = o THEN 1 ELSE 0)
  BY <1>1, <1>2, <1>3 DEF ObjectRecord
<1>5. \A u \in Threads \ {t} :
        /\ call'[u].op = call[u].op /\ call'[u].on = call[u].on /\ call'[u].part = call[u].part
        /\ call'[u].stage = call[u].stage /\ call'[u].slot = call[u].slot
  <2>1. ASSUME NEW u \in Threads \ {t}
        PROVE  /\ call'[u].op = call[u].op /\ call'[u].on = call[u].on /\ call'[u].part = call[u].part
               /\ call'[u].stage = call[u].stage /\ call'[u].slot = call[u].slot
    <3>1. call'[u] = [call[u] EXCEPT !.alone = call'[u].alone]
      BY <1>2
    <3>2. call[u] \in CallRecord
      BY CallIs DEF Sound
    <3>3. PICK alone : alone = call'[u].alone
      OBVIOUS
    <3>4. call'[u] = [call[u] EXCEPT !.alone = alone]
      BY <3>1, <3>3
    <3>. QED
      BY <3>2, <3>4 DEF CallRecord
  <2>. QED
    BY <2>1
<1>6. call[t] = NoCall
  BY <1>2 DEF Sound, Calls, Shaped
<1>7. Calls'
  <2>1. Shaped(call[t])'
    BY <1>1, <1>2 DEF Shaped, InCall, Begins
  <2>2. ASSUME NEW u \in Threads \ {t}
        PROVE  Shaped(call[u])'
    BY <1>2, <1>5 DEF Shaped, Sound, Calls
  <2>. QED
    BY <2>1, <2>2 DEF Calls
<1>8. \A u \in Threads, x \in Objects : Claims(u, x)' <=> Claims(u, x)
  BY <1>1, <1>2, <1>5, <1>6 DEF Claims, NoCall
<1>9. \A x \in Objects : object[x].refs \in Nat /\ (object[x].refs > 0 <=> Alive(x))
  BY CountIs
<1>10. object[o].refs > 0
  BY <1>1, <1>2, ReferredLives DEF Sound
<1>11. Claimed' /\ Living'
  <2>1. \A x \in Objects : object'[x].refs > 0 <=> object[x].refs > 0
    BY <1>4, <1>9, <1>10
  <2>. QED
    BY <1>4, <1>8, <2>1, SameClaims
<1>12. Counted'
  <2>1. ASSUME NEW x \in Objects
        PROVE  object'[x].refs = held[x] + Cardinality(Children(x)') + Cardinality(Calling(x)')
    <3>1. Children(x)' = Children(x)
      <4>1. \A s \in Slots : object'[s].class = object[s].class /\ object'[s].parent = object[s].parent
        BY <1>4, Places
      <4>2. \A u \in Threads : call'[u].slot = call[u].slot
        BY <1>2, <1>5, <1>6 DEF NoCall
      <4>. QED
        BY <1>7, <4>1, <4>2, SameChildren DEF Sound
    <3>2. x = o => t \in Calling(x)' /\ t \notin Calling(x)
      BY <1>1, <1>2 DEF Calling, Busy
    <3>3. x # o => t \notin Calling(x)' /\ t \notin Calling(x)
      BY <1>1, <1>2 DEF Calling, Busy
    <3>4. x = o => Cardinality(Calling(x)') = Cardinality(Calling(x)) + 1
      <4>1. IsFiniteSet(Calling(x))
        BY Counts DEF Sound
      <4>. QED
        BY <1>5, <3>2, <4>1, SameCalling, OneMore
    <3>5. x # o => Calling(x)' = Calling(x)
      BY <1>5, <3>3, SameCalling, SMTT(40)
    <3>. QED
      BY <1>4, <3>1, <3>4, <3>5, CountIs
  <2>2. held' = held
    BY DEF Begins
  <2>. QED
    BY <2>1, <2>2 DEF Counted
<1>13. Gone'
  <2>1. \A x \in Objects : object'[x].class = "none" => x # o
    BY <1>2, <1>4 DEF Exists
  <2>. QED
    BY <1>2, <1>4, <2>1 DEF Gone, Exists, Sound
<1>14. Family'
  BY <1>4, SameFamily
<1>15. Wanted'
  <2>1. ASSUME NEW u \in Threads \ {t}
        PROVE  /\ call'[u].op \in Getting => GetsPart(u)'
               /\ call'[u].op = "sequence" => GetsSequence(u)'
               /\ call'[u].slot # File => Makes(u)'
    BY <1>4, <1>5, SameWanted
  <2>2. Target(o)' = Target(o) /\ Target(o) \in Objects /\ (IsSequence(o)' <=> IsSequence(o))
    BY <1>1, <1>4, SameTarget
  <2>3. PICK q \in Objects : q = Target(o)
    BY <2>2
  <2>4. ClassOf(q)' = ClassOf(q) /\ ClassOf(o)' = ClassOf(o)
    BY <1>1, <1>4 DEF ClassOf
  <2>5. call'[t].op \in Getting => GetsPart(t)'
    <3>1. op \in Getting =>
            /\ part \in DOMAIN ParentClass \ Sequences /\ ClassOf(q) = ParentClass[part]
            /\ op = "part" <=> ~ IsSequence(o)
      BY <2>3 DEF Begins
    <3>. QED
      BY <1>2, <2>2, <2>3, <2>4, <3>1 DEF GetsPart
  <2>6. call'[t].op = "sequence" => GetsSequence(t)'
    BY <1>2, <2>4 DEF GetsSequence, Begins
  <2>. QED
    BY <1>2, <2>1, <2>5, <2>6 DEF Wanted
<1>. QED
  BY <1>7, <1>11, <1>12, <1>13, <1>14, <1>15 DEF Core

\* Taking a reference keeps them exact.
LEMMA TakesCore ==
  ASSUME Sound, NEW o \in Objects, Takes(o)
  PROVE  Core'
<1>1. /\ call' = call /\ held[o] > 0
      /\ \A x \in Objects :
           /\ object'[x].class = object[x].class /\ object'[x].parent = object[x].parent
           /\ object'[x].library = object[x].library /\ object'[x].index = object[x].index
           /\ object'[x].refs = object[x].refs + (IF x = o THEN 1 ELSE 0)
           /\ held'[x] = held[x] + (IF x = o THEN 1 ELSE 0)
  BY DEF Takes, SameButRefs
<1>2. Calls'
  BY <1>1 DEF Sound, Calls
<1>3. \A x \in Objects : object[x].refs \in Nat /\ (object[x].refs > 0 <=> Alive(x))
  BY CountIs
<1>4. object[o].refs > 0
  BY <1>1, ReferredLives DEF Sound
<1>5. Claimed' /\ Living'
  <2>1. \A u \in Threads, x \in Objects : Claims(u, x)' <=> Claims(u, x)
    BY <1>1 DEF Claims
  <2>2. \A x \in Objects : object'[x].refs > 0 <=> object[x].refs > 0
    BY <1>1, <1>3, <1>4
  <2>. QED
    BY <1>1, <2>1, <2>2, SameClaims
<1>6. Counted'
  <2>1. ASSUME NEW x \in Objects
        PROVE  object'[x].refs = held'[x] + Cardinality(Children(x)') + Cardinality(Calling(x)')
    <3>1. Children(x)' = Children(x)
      BY <1>1, <1>2, SameChildren, Places DEF Sound
    <3>2. Calling(x)' = Calling(x)
      BY <1>1 DEF Calling, Busy
    <3>. QED
      BY <1>1, <3>1, <3>2, CountIs
  <2>. QED
    BY <2>1 DEF Counted
<1>7. Gone'
  <2>1. ASSUME NEW x \in Objects, ~ Exists(x)'
        PROVE  object'[x] = NoObject
    <3>1. ~ Exists(x) /\ x # o
      BY <1>1, <1>3, <1>4, <2>1 DEF Exists, Alive
    <3>2. object[x] = NoObject
      BY <3>1 DEF Sound, Gone
    <3>3. object'[x] \in ObjectRecord /\ object[x] \in ObjectRecord
      BY ObjectIs DEF Sound, Takes, ObjectsTyped
    <3>4. object'[x].refs = object[x].refs
      BY <1>1, <1>3, <3>1
    <3>. QED
      BY <1>1, <3>2, <3>3, <3>4 DEF ObjectRecord
  <2>. QED
    BY <2>1 DEF Gone
<1>8. Family'
  BY <1>1, SameFamily
<1>9. Wanted'
  BY <1>1, SameWanted DEF Wanted
<1>. QED
  BY <1>2, <1>5, <1>6, <1>7, <1>8, <1>9 DEF Core

\* A call that goes on keeps them exact.
LEMMA GoesCore ==
  ASSUME Sound, NEW t \in Threads, Goes(t)
  PROVE  Core'
<1>1. /\ held' = held
      /\ \A x \in Objects :
           /\ object'[x].class = object[x].class /\ object'[x].parent = object[x].parent
           /\ object'[x].refs = object[x].refs /\ object'[x].index = object[x].index
           /\ ~ Exists(x) => object'[x] = object[x]
      /\ \A u \in Threads :
           /\ call'[u].op = call[u].op /\ call'[u].on = call[u].on /\ call'[u].part = call[u].part
           /\ call'[u].slot = call[u].slot
      /\ \A u \in Threads \ {t} : call'[u] = call[u]
  BY DEF Goes, Going
<1>2. Calls'
  <2>1. \A u \in Threads : Shaped(call'[u])
    BY <1>1 DEF Sound, Calls, Goes
  <2>. QED
    BY <2>1 DEF Calls
<1>3. Claimed' /\ Living'
  <2>1. \A u \in Threads, x \in Objects : Claims(u, x)' <=> Claims(u, x)
    BY <1>1 DEF Claims
  <2>. QED
    BY <1>1, <2>1, SameClaims
<1>4. Counted'
  <2>1. ASSUME NEW x \in Objects
        PROVE  object'[x].refs = held'[x] + Cardinality(Children(x)') + Cardinality(Calling(x)')
    <3>1. Children(x)' = Children(x)
      BY <1>1, <1>2, SameChildren, Places DEF Sound
    <3>2. Calling(x)' = Calling(x)
      BY <1>1 DEF Calling, Busy
    <3>. QED
      BY <1>1, <3>1, <3>2, CountIs
  <2>. QED
    BY <2>1 DEF Counted
<1>5. Gone'
  BY <1>1 DEF Gone, Exists, Sound
<1>6. Family'
  BY <1>1, SameFamily
<1>7. Wanted'
  BY <1>1, SameWanted DEF Wanted
<1>. QED
  BY <1>2, <1>3, <1>4, <1>5, <1>6, <1>7 DEF Core

\* The calls besides the one of a thread stay, and so do their claims.
LEMMA BecomesCalls ==
  ASSUME Sound, NEW t \in Threads, NEW c, Becomes(t, c), Shaped(c)
  PROVE  Calls'
<1>1. \A u \in Threads : Shaped(call'[u])
  BY DEF Becomes, Sound, Calls
<1>. QED
  BY <1>1 DEF Calls

\* A call that ends leaves nothing, or frees the object it was the last to refer to.
LEMMA EndsCalls ==
  ASSUME Sound, NEW t \in Threads, NEW o \in Objects, EndsAt(t, o)
  PROVE  /\ Calls'
         /\ \A u \in Threads \ {t} : call'[u] = call[u]
         /\ call'[t].slot = File /\ call'[t].op \in {"none", "free"}
         /\ \A x \in Objects : Claims(t, x)' <=> object'[o].refs = 0 /\ x = o
<1>1. PICK r : r = object'[o].refs
  OBVIOUS
<1>2. Becomes(t, AfterRelease(r, o))
  BY <1>1 DEF EndsAt
<1>3. Calls'
  BY <1>2, AfterReleaseIs, BecomesCalls
<1>4. call'[t] = AfterRelease(r, o) /\ \A u \in Threads \ {t} : call'[u] = call[u]
  BY <1>2 DEF Becomes
<1>5. call'[t].slot = File /\ (r # 0 => call'[t].op = "none")
      /\ (r = 0 => call'[t].op = "free" /\ call'[t].on = o)
  BY <1>4, AfterReleaseIs DEF NoCall
<1>6. \A x \in Objects : Claims(t, x)' <=> r = 0 /\ x = o
  BY <1>5 DEF Claims
<1>. QED
  BY <1>1, <1>3, <1>4, <1>5, <1>6

\* After a call on an object there is one call on it less.
LEMMA OneCallLess ==
  ASSUME Sound, NEW t \in Threads, call[t].op \notin {"none", "free"}, call'[t].op \in {"none", "free"},
         \A u \in Threads \ {t} : call'[u] = call[u]
  PROVE  \A x \in Objects :
           Cardinality(Calling(x)') = Cardinality(Calling(x)) - (IF x = call[t].on THEN 1 ELSE 0)
<1>1. ASSUME NEW x \in Objects
      PROVE  Cardinality(Calling(x)') = Cardinality(Calling(x)) - (IF x = call[t].on THEN 1 ELSE 0)
  <2>1. Calling(x)' = Calling(x) \ {t}
    BY SameCalling DEF Calling, Busy
  <2>2. IsFiniteSet(Calling(x)) /\ Cardinality(Calling(x)) \in Nat
    BY Counts DEF Sound
  <2>3. CASE x = call[t].on
    <3>1. t \in Calling(x)
      BY <2>3 DEF Calling, Busy
    <3>. QED
      BY <2>1, <2>2, <2>3, <3>1, OneLess
  <2>4. CASE x # call[t].on
    <3>1. t \notin Calling(x)
      BY <2>4 DEF Calling, Busy
    <3>2. Calling(x)' = Calling(x)
      BY <2>1, <3>1
    <3>. QED
      BY <2>2, <2>4, <3>2
  <2>. QED
    BY <2>3, <2>4
<1>. QED
  BY <1>1

\* A step that takes no call on an object away, and adds none.
LEMMA SameCalls ==
  ASSUME Sound, NEW t \in Threads, call[t].op \in {"none", "free"}, call'[t].op \in {"none", "free"},
         \A u \in Threads \ {t} : call'[u] = call[u]
  PROVE  \A x \in Objects : Calling(x)' = Calling(x)
BY DEF Calling, Busy

\* The other threads want what they did, as long as the objects that they are about stay.
LEMMA OthersWant ==
  ASSUME Sound, NEW u \in Threads, NEW s \in Objects, call'[u] = call[u],
         ~ Alive(s), call[u].slot # s,
         \A x \in Objects \ {s} : object'[x].class = object[x].class /\ object'[x].parent = object[x].parent
  PROVE  /\ call'[u].op \in Getting => GetsPart(u)'
         /\ call'[u].op = "sequence" => GetsSequence(u)'
         /\ call'[u].slot # File => Makes(u)'
<1>1. PICK o \in Objects, r \in Objects : o = call[u].on /\ r = call[u].slot
  BY CallIs DEF Sound
<1>2. CASE call[u].op \notin {"none", "free"}
  <2>1. Alive(o)
    BY <1>1, <1>2, CalledLives DEF Sound
  <2>2. Alive(Target(o)) /\ Target(o) \in Objects
    BY <1>1, <1>2, TargetLives DEF Sound
  <2>3. PICK q \in Objects : q = Target(o)
    BY <2>2
  <2>4. o # s /\ q # s /\ r # s
    BY <1>1, <2>1, <2>2, <2>3
  <2>5. /\ Target(o)' = q /\ (IsSequence(o)' <=> IsSequence(o)) /\ ClassOf(o)' = ClassOf(o)
        /\ ClassOf(q)' = ClassOf(q) /\ ClassOf(r)' = ClassOf(r) /\ object'[r].parent = object[r].parent
    BY <2>3, <2>4 DEF ClassOf, Target, IsSequence
  <2>6. /\ call[u].op \in Getting => GetsPart(u)
        /\ call[u].op = "sequence" => GetsSequence(u)
        /\ call[u].slot # File => Makes(u)
    BY DEF Sound, Wanted
  <2>7. call'[u].on = o /\ call'[u].slot = r
    BY <1>1
  <2>8. call'[u].op \in Getting => GetsPart(u)'
    BY <1>1, <2>3, <2>5, <2>6, <2>7 DEF GetsPart
  <2>9. call'[u].op = "sequence" => GetsSequence(u)'
    BY <1>1, <2>5, <2>6, <2>7 DEF GetsSequence
  <2>10. call'[u].slot # File => Makes(u)'
    BY <1>1, <2>3, <2>5, <2>6, <2>7 DEF Makes
  <2>. QED
    BY <2>8, <2>9, <2>10
<1>3. CASE call[u].op \in {"none", "free"}
  <2>1. call[u].slot = File
    BY <1>3 DEF Sound, Calls, Shaped, Getting
  <2>. QED
    BY <1>3, <2>1 DEF Getting
<1>. QED
  BY <1>2, <1>3

\* A call or a free ends with an object, and leaves another one that only it had in hand.
LEMMA EndsLiving ==
  ASSUME Sound, NEW t \in Threads, NEW o \in Objects, NEW s, s # o, EndsAt(t, o),
         \A x \in Objects : Claims(t, x) => x = s,
         s \in Objects => \A u \in Threads \ {t} : ~ Claims(u, s),
         Alive(o), object'[o].refs \in Nat,
         \A x \in Objects \ {s} : object'[x].class = object[x].class,
         \A x \in Objects \ {s, o} : object'[x].refs > 0 <=> object[x].refs > 0,
         s \in Objects => (object'[s].refs > 0 <=> object'[s].class # "none")
  PROVE  Claimed' /\ Living'
<1>1. /\ \A u \in Threads \ {t} : call'[u] = call[u]
      /\ \A x \in Objects : Claims(t, x)' <=> object'[o].refs = 0 /\ x = o
  BY EndsCalls
<1>2. \A u \in Threads \ {t}, x \in Objects : Claims(u, x)' <=> Claims(u, x)
  BY <1>1 DEF Claims
<1>3. \A x \in Objects \ {s} : Exists(x)' <=> Exists(x)
  BY DEF Exists
<1>4. Exists(o) /\ \A u \in Threads : ~ Claims(u, o)
  BY DEF Alive
<1>5. /\ \A u \in Threads, x \in Objects : Claims(u, x) => Exists(x)
      /\ \A u, v \in Threads, x \in Objects : Claims(u, x) /\ Claims(v, x) => u = v
  BY DEF Sound, Claimed
<1>6. Claimed'
  <2>1. \A u \in Threads, x \in Objects : Claims(u, x)' => Exists(x)'
    BY <1>1, <1>2, <1>3, <1>4, <1>5
  <2>2. \A u, v \in Threads, x \in Objects : Claims(u, x)' /\ Claims(v, x)' => u = v
    BY <1>1, <1>2, <1>4, <1>5
  <2>. QED
    BY <2>1, <2>2 DEF Claimed
<1>7. ASSUME NEW x \in Objects
      PROVE  object'[x].refs > 0 <=> Alive(x)'
  <2>1. CASE x = o
    <3>1. Alive(o)' <=> object'[o].refs # 0
      BY <1>1, <1>2, <1>3, <1>4 DEF Alive
    <3>. QED
      BY <2>1, <3>1
  <2>2. CASE x = s
    <3>1. \A u \in Threads : ~ Claims(u, s)'
      BY <1>1, <1>2, <2>2
    <3>. QED
      BY <2>2, <3>1 DEF Alive, Exists
  <2>3. CASE x \notin {o, s}
    <3>1. \A u \in Threads : Claims(u, x)' <=> Claims(u, x)
      BY <1>1, <1>2, <2>3
    <3>2. Alive(x)' <=> Alive(x)
      BY <1>3, <2>3, <3>1 DEF Alive
    <3>. QED
      BY <2>3, <3>2 DEF Sound, Living
  <2>. QED
    BY <2>1, <2>2, <2>3
<1>. QED
  BY <1>6, <1>7 DEF Living

\* An end without anything in hand.
LEMMA EndsAlone ==
  ASSUME Sound, NEW t \in Threads, NEW o \in Objects, EndsAt(t, o), call[t].op # "free", call[t].slot = File,
         Alive(o), object'[o].refs \in Nat,
         \A x \in Objects : object'[x].class = object[x].class,
         \A x \in Objects \ {o} : object'[x].refs > 0 <=> object[x].refs > 0
  PROVE  Claimed' /\ Living'
<1>1. -1 \notin Objects /\ -1 # o
  BY Places
<1>2. \A x \in Objects : ~ Claims(t, x)
  BY DEF Claims
<1>3. \A x \in Objects \ {-1} : object'[x].class = object[x].class
  OBVIOUS
<1>4. \A x \in Objects \ {-1, o} : object'[x].refs > 0 <=> object[x].refs > 0
  OBVIOUS
<1>. QED
  BY <1>1, <1>2, <1>3, <1>4, EndsLiving

\* What does not exist stays as nothing.
LEMMA StillGone ==
  ASSUME Sound, NEW x \in Objects, ObjectsTyped, ~ Exists(x),
         SameButRefs(x), object'[x].index = object[x].index, object'[x].refs = object[x].refs
  PROVE  object'[x] = NoObject
<1>1. object[x] = NoObject
  BY DEF Sound, Gone
<1>2. object'[x] \in ObjectRecord /\ object[x] \in ObjectRecord
  BY ObjectIs DEF Sound, ObjectsTyped
<1>. QED
  BY <1>1, <1>2 DEF ObjectRecord, SameButRefs

\* Letting go keeps the references exact, when the object is freed by it also.
LEMMA LetsGoCore ==
  ASSUME Sound, NEW t \in Threads, NEW o \in Objects, LetsGo(t, o)
  PROVE  Core'
<1>1. /\ held[o] > 0 /\ call[t].op = "none" /\ EndsAt(t, o) /\ ObjectsTyped
      /\ \A x \in Objects :
           /\ SameButRefs(x) /\ object'[x].index = object[x].index
           /\ object'[x].refs = object[x].refs - (IF x = o THEN 1 ELSE 0)
           /\ held'[x] = held[x] - (IF x = o THEN 1 ELSE 0)
  BY DEF LetsGo
<1>2. \A x \in Objects : object'[x].class = object[x].class /\ object'[x].parent = object[x].parent
  BY <1>1 DEF SameButRefs
<1>3. /\ Calls' /\ \A u \in Threads \ {t} : call'[u] = call[u]
      /\ call'[t].slot = File /\ call'[t].op \in {"none", "free"}
  BY <1>1, EndsCalls
<1>4. call[t].slot = File
  BY <1>1 DEF Sound, Calls, Shaped, Getting
<1>5. \A x \in Objects : object[x].refs \in Nat /\ (object[x].refs > 0 <=> Alive(x))
  BY CountIs
<1>6. object[o].refs > 0 /\ Alive(o) /\ object'[o].refs \in Nat
  BY <1>1, <1>5, ReferredLives DEF Sound
<1>7. \A x \in Objects \ {o} : object'[x].refs = object[x].refs
  BY <1>1, <1>5
<1>8. Claimed' /\ Living'
  BY <1>1, <1>2, <1>4, <1>6, <1>7, EndsAlone
<1>9. Counted'
  <2>1. ASSUME NEW x \in Objects
        PROVE  object'[x].refs = held'[x] + Cardinality(Children(x)') + Cardinality(Calling(x)')
    <3>1. Children(x)' = Children(x)
      <4>1. \A u \in Threads : call'[u].slot = call[u].slot
        BY <1>3, <1>4
      <4>. QED
        BY <1>2, <1>3, <4>1, SameChildren, Places DEF Sound
    <3>2. Calling(x)' = Calling(x)
      BY <1>1, <1>3, SameCalls
    <3>. QED
      BY <1>1, <3>1, <3>2, CountIs
  <2>. QED
    BY <2>1 DEF Counted
<1>10. Gone'
  <2>1. ASSUME NEW x \in Objects, ~ Exists(x)'
        PROVE  object'[x] = NoObject
    <3>1. ~ Exists(x) /\ x # o
      BY <1>2, <1>6, <2>1 DEF Exists, Alive
    <3>. QED
      BY <1>1, <1>7, <3>1, StillGone
  <2>. QED
    BY <2>1 DEF Gone
<1>11. Family'
  BY <1>2, SameFamily
<1>12. Wanted'
  <2>1. ASSUME NEW u \in Threads \ {t}
        PROVE  /\ call'[u].op \in Getting => GetsPart(u)'
               /\ call'[u].op = "sequence" => GetsSequence(u)'
               /\ call'[u].slot # File => Makes(u)'
    BY <1>2, <1>3, SameWanted
  <2>. QED
    BY <1>3, <2>1 DEF Wanted, Getting
<1>. QED
  BY <1>3, <1>8, <1>9, <1>10, <1>11, <1>12 DEF Core

\* A call that ends keeps them exact.
LEMMA EndsCore ==
  ASSUME Sound, NEW t \in Threads, Ends(t)
  PROVE  Core'
<1>1. PICK o \in Objects : o = call[t].on
  BY CallIs DEF Sound
<1>2. /\ call[t].op \notin {"none", "free"} /\ call[t].slot = File /\ EndsAt(t, o) /\ ObjectsTyped
      /\ held' = held
      /\ \A x \in Objects :
           /\ SameButRefs(x) /\ object'[x].index = object[x].index
           /\ object'[x].refs = object[x].refs - (IF x = o THEN 1 ELSE 0)
  BY <1>1 DEF Ends
<1>3. \A x \in Objects : object'[x].class = object[x].class /\ object'[x].parent = object[x].parent
  BY <1>2 DEF SameButRefs
<1>4. /\ Calls' /\ \A u \in Threads \ {t} : call'[u] = call[u]
      /\ call'[t].slot = File /\ call'[t].op \in {"none", "free"}
  BY <1>2, EndsCalls
<1>5. \A x \in Objects : object[x].refs \in Nat /\ (object[x].refs > 0 <=> Alive(x))
  BY CountIs
<1>6. object[o].refs > 0 /\ Alive(o) /\ object'[o].refs \in Nat
  <2>1. object[o].refs > 0 /\ Alive(o)
    BY <1>1, <1>2, CalledLives DEF Sound
  <2>. QED
    BY <1>2, <1>5, <2>1
<1>7. \A x \in Objects \ {o} : object'[x].refs = object[x].refs
  BY <1>2, <1>5
<1>8. Claimed' /\ Living'
  BY <1>2, <1>3, <1>6, <1>7, EndsAlone
<1>9. Counted'
  <2>1. ASSUME NEW x \in Objects
        PROVE  object'[x].refs = held'[x] + Cardinality(Children(x)') + Cardinality(Calling(x)')
    <3>1. Children(x)' = Children(x)
      <4>1. \A u \in Threads : call'[u].slot = call[u].slot
        BY <1>2, <1>4
      <4>. QED
        BY <1>3, <1>4, <4>1, SameChildren, Places DEF Sound
    <3>2. Cardinality(Calling(x)') = Cardinality(Calling(x)) - (IF x = o THEN 1 ELSE 0)
      BY <1>1, <1>2, <1>4, OneCallLess
    <3>. QED
      BY <1>2, <3>1, <3>2, CountIs
  <2>. QED
    BY <2>1 DEF Counted
<1>10. Gone'
  <2>1. ASSUME NEW x \in Objects, ~ Exists(x)'
        PROVE  object'[x] = NoObject
    <3>1. ~ Exists(x) /\ x # o
      BY <1>3, <1>6, <2>1 DEF Exists, Alive
    <3>. QED
      BY <1>2, <1>7, <3>1, StillGone
  <2>. QED
    BY <2>1 DEF Gone
<1>11. Family'
  BY <1>3, SameFamily
<1>12. Wanted'
  <2>1. ASSUME NEW u \in Threads \ {t}
        PROVE  /\ call'[u].op \in Getting => GetsPart(u)'
               /\ call'[u].op = "sequence" => GetsSequence(u)'
               /\ call'[u].slot # File => Makes(u)'
    BY <1>3, <1>4, SameWanted
  <2>. QED
    BY <1>4, <2>1 DEF Wanted, Getting
<1>. QED
  BY <1>4, <1>8, <1>9, <1>10, <1>11, <1>12 DEF Core

\* The children besides an object that comes, goes or is wrapped.
LEMMA OtherChildren ==
  ASSUME Calls, Calls', NEW x \in Objects, NEW s,
         \A c \in Slots \ {s} :
           /\ object'[c].class = object[c].class /\ object'[c].parent = object[c].parent
           /\ \A u \in Threads : call'[u].slot = c <=> call[u].slot = c
  PROVE  /\ s \in Children(x)' => Children(x)' = Children(x) \cup {s}
         /\ s \notin Children(x)' => Children(x)' = Children(x) \ {s}
<1>1. \A c \in Slots \ {s} : c \in Children(x)' <=> c \in Children(x)
  BY ChildrenNow, ChildrenNext
<1>2. Children(x) \subseteq Slots /\ Children(x)' \subseteq Slots
  BY DEF Children
<1>. QED
  BY <1>1, <1>2

\* The classes of the parents of the others do not depend on an object nobody refers to.
LEMMA OthersFamily ==
  ASSUME Sound, NEW s \in Slots, ~ Alive(s),
         \A x \in Objects \ {s} : object'[x].class = object[x].class /\ object'[x].parent = object[x].parent
  PROVE  /\ ClassOf(File)' \in {"file", "none"}
         /\ \A c \in Slots \ {s} : Exists(c)' =>
              ClassOf(c)' \in DOMAIN ParentClass /\ ClassOf(object[c].parent)' = ParentClass[ClassOf(c)']
<1>1. ASSUME NEW c \in Slots \ {s}, Exists(c)'
      PROVE  ClassOf(c)' \in DOMAIN ParentClass /\ ClassOf(object[c].parent)' = ParentClass[ClassOf(c)']
  <2>1. Exists(c) /\ ClassOf(c)' = ClassOf(c) /\ object'[c].parent = object[c].parent
    BY <1>1, Places DEF Exists, ClassOf
  <2>2. PICK p \in Objects : p = object[c].parent /\ Alive(p)
    BY <2>1, ParentLives DEF Sound
  <2>3. ClassOf(c) \in DOMAIN ParentClass /\ ClassOf(p) = ParentClass[ClassOf(c)]
    BY <2>1, <2>2 DEF Sound, Family
  <2>4. ClassOf(object[c].parent)' = ClassOf(p)' /\ ClassOf(p)' = ClassOf(p)
    BY <2>1, <2>2 DEF ClassOf
  <2>. QED
    BY <2>1, <2>3, <2>4
<1>2. ClassOf(File)' \in {"file", "none"}
  BY Places DEF Sound, Family, ClassOf
<1>. QED
  BY <1>1, <1>2

\* What a thread has in hand is nobody else's, and is not alive.
LEMMA InHand ==
  ASSUME Sound, NEW t \in Threads, NEW s \in Objects, Claims(t, s)
  PROVE  Exists(s) /\ ~ Alive(s) /\ object[s].refs = 0 /\ \A u \in Threads \ {t} : ~ Claims(u, s)
<1>1. Exists(s) /\ \A u \in Threads \ {t} : ~ Claims(u, s)
  BY DEF Sound, Claimed
<1>2. ~ Alive(s)
  BY DEF Alive
<1>. QED
  BY <1>1, <1>2, CountIs

\* Making the library object of a part keeps the references exact.
LEMMA MakesPartCore ==
  ASSUME Sound, NEW t \in Threads, NEW s \in Slots, MakesPart(t, s)
  PROVE  Core'
<1>1. PICK o \in Objects : o = call[t].on
  BY CallIs DEF Sound
<1>2. call[t].op \in Getting /\ call[t].slot = File /\ ~ Exists(s) /\ held' = held /\ s \in Objects /\ s # File
  BY Places DEF MakesPart
<1>3. PICK q \in Objects : q = Target(o) /\ Alive(q)
  BY <1>1, <1>2, TargetLives DEF Sound, Getting
<1>4. Alive(o) /\ o # s /\ q # s
  BY <1>1, <1>2, <1>3, CalledLives DEF Sound, Getting, Alive
<1>5. /\ \A x \in Objects \ {s} : object'[x] = object[x]
      /\ object'[s].class = call[t].part /\ object'[s].parent = q /\ object'[s].refs = 0
  BY <1>1, <1>3 DEF MakesPart, NoObject
<1>6. /\ \A u \in Threads \ {t} : call'[u] = call[u]
      /\ call'[t].op = call[t].op /\ call'[t].on = o /\ call'[t].part = call[t].part
      /\ call'[t].stage = "done" /\ call'[t].slot = s
  <2>1. PICK found \in Nat :
          Becomes(t, [call[t] EXCEPT !.stage = "done", !.slot = s, !.offset = 0, !.found = found])
    BY DEF MakesPart
  <2>2. call[t] \in CallRecord
    BY CallIs DEF Sound
  <2>. QED
    BY <1>1, <2>1, <2>2 DEF Becomes, CallRecord
<1>7. /\ call[t].part \in DOMAIN ParentClass \ Sequences /\ ClassOf(q) = ParentClass[call[t].part]
      /\ call[t].op = "part" <=> ~ IsSequence(o)
  BY <1>1, <1>2, <1>3 DEF Sound, Wanted, GetsPart
<1>8. call[t].part # "none"
  BY <1>7, ClassesAre
<1>9. Calls'
  <2>1. Shaped(call[t])'
    BY <1>2, <1>6 DEF Shaped, Getting, Settles, InCall
  <2>. QED
    BY <1>6, <2>1 DEF Calls, Sound
<1>10. object[s].refs = 0 /\ ~ Alive(s) /\ \A u \in Threads : ~ Claims(u, s) /\ call[u].slot # s
  BY <1>2 DEF Sound, Gone, NoObject, Alive, Claimed, Claims
<1>11. /\ \A u \in Threads, x \in Objects \ {s} : Claims(u, x)' <=> Claims(u, x)
       /\ \A u \in Threads : Claims(u, s)' <=> u = t
  BY <1>2, <1>6, <1>10 DEF Claims, Getting
<1>12. \A x \in Objects \ {s} : Exists(x)' <=> Exists(x)
  BY <1>5 DEF Exists
<1>13. Exists(s)'
  BY <1>5, <1>8 DEF Exists
<1>14. Claimed'
  BY <1>11, <1>12, <1>13 DEF Sound, Claimed
<1>15. Living'
  <2>1. ASSUME NEW x \in Objects \ {s}
        PROVE  object'[x].refs > 0 <=> Alive(x)'
    <3>1. Alive(x)' <=> Alive(x)
      BY <1>11, <1>12 DEF Alive
    <3>. QED
      BY <1>5, <3>1 DEF Sound, Living
  <2>2. ~ Alive(s)'
    BY <1>2, <1>11 DEF Alive
  <2>3. ~ (object'[s].refs > 0)
    BY <1>5
  <2>. QED
    BY <2>1, <2>2, <2>3 DEF Living
<1>16. Counted'
  <2>1. ASSUME NEW x \in Objects
        PROVE  object'[x].refs = held[x] + Cardinality(Children(x)') + Cardinality(Calling(x)')
    <3>1. Children(x)' = Children(x)
      <4>1. \A c \in Slots \ {s} :
              /\ object'[c].class = object[c].class /\ object'[c].parent = object[c].parent
              /\ \A u \in Threads : call'[u].slot = c <=> call[u].slot = c
        BY <1>2, <1>5, <1>6, Places
      <4>2. s \notin Children(x)'
        BY <1>6, <1>9, ChildrenNext
      <4>3. s \notin Children(x)
        BY <1>2 DEF Children
      <4>4. Children(x)' = Children(x) \ {s}
        BY <1>9, <4>1, <4>2, OtherChildren DEF Sound
      <4>. QED
        BY <4>3, <4>4
    <3>2. Calling(x)' = Calling(x)
      BY <1>1, <1>6 DEF Calling, Busy
    <3>3. object'[x].refs = object[x].refs
      BY <1>5, <1>10
    <3>. QED
      BY <3>1, <3>2, <3>3, CountIs
  <2>. QED
    BY <1>2, <2>1 DEF Counted
<1>17. Gone'
  BY <1>5, <1>12, <1>13 DEF Sound, Gone
<1>18. Family'
  <2>1. \A x \in Objects \ {s} : object'[x].class = object[x].class /\ object'[x].parent = object[x].parent
    BY <1>5
  <2>2. /\ ClassOf(File)' \in {"file", "none"}
        /\ \A c \in Slots \ {s} : Exists(c)' =>
             ClassOf(c)' \in DOMAIN ParentClass /\ ClassOf(object[c].parent)' = ParentClass[ClassOf(c)']
    BY <1>10, <2>1, OthersFamily
  <2>3. ClassOf(s)' \in DOMAIN ParentClass /\ ClassOf(object[s].parent)' = ParentClass[ClassOf(s)']
    <3>1. ClassOf(s)' = call[t].part /\ ClassOf(object[s].parent)' = ClassOf(q)
      BY <1>4, <1>5 DEF ClassOf
    <3>. QED
      BY <1>7, <3>1
  <2>. QED
    BY <2>2, <2>3 DEF Family
<1>19. Wanted'
  <2>1. ASSUME NEW u \in Threads \ {t}
        PROVE  /\ call'[u].op \in Getting => GetsPart(u)'
               /\ call'[u].op = "sequence" => GetsSequence(u)'
               /\ call'[u].slot # File => Makes(u)'
    BY <1>2, <1>5, <1>6, <1>10, OthersWant
  <2>2. /\ Target(o)' = q /\ (IsSequence(o)' <=> IsSequence(o)) /\ ClassOf(q)' = ClassOf(q)
    BY <1>3, <1>4, <1>5 DEF Target, IsSequence, ClassOf
  <2>3. GetsPart(t)'
    BY <1>6, <1>7, <2>2 DEF GetsPart
  <2>4. Makes(t)'
    BY <1>5, <1>6, <2>2 DEF Makes, ClassOf
  <2>. QED
    BY <1>2, <1>6, <2>1, <2>3, <2>4 DEF Wanted, Getting
<1>. QED
  BY <1>9, <1>14, <1>15, <1>16, <1>17, <1>18, <1>19 DEF Core

\* Releasing the parent of an object that is freed keeps them exact.
LEMMA ReleasesCore ==
  ASSUME Sound, NEW t \in Threads, Releases(t)
  PROVE  Core'
<1>1. PICK o \in Slots, p \in Objects : o = call[t].on /\ p = object[o].parent
  BY DEF Releases
<1>2. /\ call[t].op = "free" /\ p # o /\ ObjectsTyped /\ held' = held /\ object'[o] = NoObject /\ EndsAt(t, p)
      /\ o \in Objects /\ o # File
      /\ \A x \in Objects \ {o} :
           /\ SameButRefs(x) /\ object'[x].index = object[x].index
           /\ object'[x].refs = object[x].refs - (IF x = p THEN 1 ELSE 0)
  BY <1>1, Places DEF Releases
<1>3. /\ Calls' /\ \A u \in Threads \ {t} : call'[u] = call[u]
      /\ call'[t].slot = File /\ call'[t].op \in {"none", "free"}
  BY <1>2, EndsCalls
<1>4. call[t].slot = File /\ \A x \in Objects : Claims(t, x) <=> x = o
  BY <1>1, <1>2 DEF Sound, Calls, Shaped, Getting, Claims
<1>5. Exists(o) /\ ~ Alive(o) /\ object[o].refs = 0 /\ \A u \in Threads \ {t} : ~ Claims(u, o)
  BY <1>2, <1>4, InHand
<1>6. Alive(p) /\ object[p].refs > 0
  BY <1>1, <1>5, ParentLives DEF Sound
<1>7. \A x \in Objects : object[x].refs \in Nat
  BY CountIs
<1>8. \A x \in Objects \ {o} : object'[x].class = object[x].class /\ object'[x].parent = object[x].parent
  BY <1>2 DEF SameButRefs
<1>9. Claimed' /\ Living'
  <2>1. object'[p].refs \in Nat
    BY <1>2, <1>6, <1>7
  <2>2. \A x \in Objects \ {o, p} : object'[x].refs > 0 <=> object[x].refs > 0
    BY <1>2, <1>7
  <2>3. object'[o].refs > 0 <=> object'[o].class # "none"
    BY <1>2 DEF NoObject
  <2>. QED
    BY <1>2, <1>4, <1>5, <1>6, <1>8, <2>1, <2>2, <2>3, EndsLiving
<1>10. Counted'
  <2>1. ASSUME NEW x \in Objects
        PROVE  object'[x].refs = held[x] + Cardinality(Children(x)') + Cardinality(Calling(x)')
    <3>1. Calling(x)' = Calling(x)
      BY <1>2, <1>3, SameCalls
    <3>2. \A c \in Slots \ {o} :
            /\ object'[c].class = object[c].class /\ object'[c].parent = object[c].parent
            /\ \A u \in Threads : call'[u].slot = c <=> call[u].slot = c
      BY <1>3, <1>4, <1>8, Places
    <3>3. o \notin Children(x)'
      BY <1>2, <1>3, ChildrenNext DEF NoObject
    <3>4. Children(x)' = Children(x) \ {o}
      BY <1>3, <3>2, <3>3, OtherChildren DEF Sound
    <3>5. o \in Children(x) <=> x = p
      <4>1. \A u \in Threads : call[u].slot # o
        BY <1>2, <1>4, <1>5 DEF Claims
      <4>. QED
        BY <1>1, <1>5, <4>1, ChildrenNow DEF Sound, Exists
    <3>6. x = p => Cardinality(Children(x)') = Cardinality(Children(x)) - 1
      <4>1. IsFiniteSet(Children(x))
        BY Counts DEF Sound
      <4>. QED
        BY <3>4, <3>5, <4>1, OneLess
    <3>7. x # p => Children(x)' = Children(x)
      BY <3>4, <3>5
    <3>8. object'[x].refs = object[x].refs - (IF x = p THEN 1 ELSE 0)
      BY <1>2, <1>5 DEF NoObject
    <3>. QED
      BY <3>1, <3>6, <3>7, <3>8, CountIs
  <2>. QED
    BY <1>2, <2>1 DEF Counted
<1>11. Gone'
  <2>1. ASSUME NEW x \in Objects, ~ Exists(x)'
        PROVE  object'[x] = NoObject
    <3>1. CASE x = o
      BY <1>2, <3>1
    <3>2. CASE x # o
      <4>1. ~ Exists(x) /\ x # p
        BY <1>6, <1>8, <2>1, <3>2 DEF Exists, Alive
      <4>2. object'[x].refs = object[x].refs
        BY <1>2, <1>7, <3>2, <4>1
      <4>. QED
        BY <1>2, <3>2, <4>1, <4>2, StillGone
    <3>. QED
      BY <3>1, <3>2
  <2>. QED
    BY <2>1 DEF Gone
<1>12. Family'
  <2>1. /\ ClassOf(File)' \in {"file", "none"}
        /\ \A c \in Slots \ {o} : Exists(c)' =>
             ClassOf(c)' \in DOMAIN ParentClass /\ ClassOf(object[c].parent)' = ParentClass[ClassOf(c)']
    BY <1>5, <1>8, OthersFamily
  <2>2. ~ Exists(o)'
    BY <1>2 DEF Exists, NoObject
  <2>. QED
    BY <2>1, <2>2 DEF Family
<1>13. Wanted'
  <2>1. ASSUME NEW u \in Threads \ {t}
        PROVE  /\ call'[u].op \in Getting => GetsPart(u)'
               /\ call'[u].op = "sequence" => GetsSequence(u)'
               /\ call'[u].slot # File => Makes(u)'
    <3>1. call[u].slot # o
      BY <1>2, <1>5 DEF Claims
    <3>. QED
      BY <1>2, <1>3, <1>5, <1>8, <3>1, OthersWant
  <2>. QED
    BY <1>3, <2>1 DEF Wanted, Getting
<1>. QED
  BY <1>3, <1>9, <1>10, <1>11, <1>12, <1>13 DEF Core

\* With the file object everything is gone.
LEMMA FileGoesCore ==
  ASSUME Sound, NEW t \in Threads, FileGoes(t), object[File].refs = 0
  PROVE  Core' /\ (\A u \in Threads : call'[u] = NoCall) /\ (\A x \in Objects : ~ Exists(x)')
<1>1. /\ call[t].op = "free" /\ call[t].on = File /\ held' = held
      /\ object'[File] = NoObject /\ \A s \in Slots : object'[s] = object[s]
      /\ call'[t] = NoCall /\ \A u \in Threads \ {t} : call'[u] = call[u]
  BY DEF FileGoes, Becomes
<1>2. /\ \A s \in Slots : ~ Exists(s)
      /\ \A u \in Threads : call[u].op # "none" => call[u].op = "free" /\ call[u].on = File
  BY FileLives DEF Sound
<1>3. \A u \in Threads : call'[u] = NoCall
  <2>1. ASSUME NEW u \in Threads \ {t}
        PROVE  call[u] = NoCall
    <3>1. call[u].op = "none"
      <4>1. Claims(t, File) /\ (call[u].op # "none" => Claims(u, File))
        BY <1>1, <1>2 DEF Claims
      <4>. QED
        BY <4>1, Places DEF Sound, Claimed
    <3>. QED
      BY <3>1 DEF Sound, Calls, Shaped
  <2>. QED
    BY <1>1, <2>1
<1>4. Calls'
  BY <1>1, <1>3, BecomesCalls, Zenon DEF Calls, FileGoes, Shaped, NoCall, Settles, Getting
<1>5. \A x \in Objects : ~ Exists(x)'
  BY <1>1, <1>2, Places DEF Exists, NoObject
<1>6. \A u \in Threads, x \in Objects : ~ Claims(u, x)'
  BY <1>3 DEF Claims, NoCall
<1>7. \A x \in Objects : object[x].refs = 0 /\ object'[x].refs = 0
  <2>1. ASSUME NEW s \in Slots
        PROVE  object[s].refs = 0 /\ object'[s].refs = 0
    <3>1. object[s] = NoObject
      BY <1>2, Places DEF Sound, Gone
    <3>. QED
      BY <1>1, <3>1 DEF NoObject
  <2>2. object'[File].refs = 0
    BY <1>1 DEF NoObject
  <2>. QED
    BY <2>1, <2>2, Places
<1>8. Counted'
  <2>1. ASSUME NEW x \in Objects
        PROVE  object'[x].refs = held[x] + Cardinality(Children(x)') + Cardinality(Calling(x)')
    <3>1. Children(x)' = Children(x)
      <4>1. \A u \in Threads : call'[u].slot = call[u].slot
        BY <1>1, <1>3 DEF Sound, Calls, Shaped, Getting, NoCall
      <4>. QED
        BY <1>1, <1>4, <4>1, SameChildren DEF Sound
    <3>2. Calling(x)' = Calling(x)
      BY <1>1, SameCalls DEF NoCall
    <3>. QED
      BY <1>7, <3>1, <3>2, CountIs
  <2>. QED
    BY <1>1, <2>1 DEF Counted
<1>9. Claimed' /\ Living'
  BY <1>5, <1>6, <1>7 DEF Claimed, Living, Alive
<1>10. Gone'
  BY <1>1, <1>2, Places DEF Gone, Sound
<1>11. Family'
  <2>1. ClassOf(File)' = "none"
    BY <1>1 DEF ClassOf, NoObject
  <2>2. \A s \in Slots : ~ Exists(s)'
    BY <1>5, Places
  <2>. QED
    BY <2>1, <2>2 DEF Family
<1>12. Wanted'
  BY <1>3 DEF Wanted, NoCall, Getting
<1>. QED
  BY <1>3, <1>4, <1>5, <1>8, <1>9, <1>10, <1>11, <1>12 DEF Core

\* Wrapping a new object keeps the references exact.
LEMMA WrapsCore ==
  ASSUME Sound, NEW t \in Threads, call[t].op \in Getting, Wraps(t)
  PROVE  Core'
<1>0. PICK o \in Objects, s \in Objects : o = call[t].on /\ s = call[t].slot
  BY CallIs DEF Sound
<1>1. PICK p : o = call[t].on /\ s = call[t].slot /\ p = object[s].parent
  BY <1>0
<1>2. /\ s \in Slots \ {o, p} /\ ObjectsTyped /\ EndsAt(t, o) /\ s # File
      /\ \A x \in Objects :
           /\ SameButRefs(x)
           /\ object'[x].index = object[x].index + (IF call[t].op = "next" /\ x = o THEN 1 ELSE 0)
           /\ held'[x] = IF x = s THEN 1 ELSE held[x]
      /\ \A x \in Objects \ {s} :
           object'[x].refs = object[x].refs + (IF x = p THEN 1 ELSE 0) - (IF x = o THEN 1 ELSE 0)
      /\ object'[s].refs = 1
  BY <1>1, Places DEF Wraps
<1>3. \A x \in Objects : object'[x].class = object[x].class /\ object'[x].parent = object[x].parent
  BY <1>2 DEF SameButRefs
<1>4. /\ Calls' /\ \A u \in Threads \ {t} : call'[u] = call[u]
      /\ call'[t].slot = File /\ call'[t].op \in {"none", "free"}
  BY <1>2, EndsCalls
<1>5. \A x \in Objects : Claims(t, x) <=> x = s
  BY <1>1, <1>2 DEF Claims, Getting
<1>6. Exists(s) /\ ~ Alive(s) /\ object[s].refs = 0 /\ \A u \in Threads \ {t} : ~ Claims(u, s)
  BY <1>5, InHand
<1>7. p \in Objects /\ Alive(p) /\ object[p].refs > 0 /\ Alive(o) /\ object[o].refs > 0
  BY <1>1, <1>2, <1>6, ParentLives, CalledLives DEF Sound, Getting
<1>8. \A x \in Objects : object[x].refs \in Nat /\ object[x].index \in Nat
  BY CountIs, ObjectIs DEF Sound
<1>9. Claimed' /\ Living'
  <2>1. object'[o].refs \in Nat
    BY <1>2, <1>7, <1>8
  <2>2. \A x \in Objects \ {s, o} : object'[x].refs > 0 <=> object[x].refs > 0
    BY <1>2, <1>7, <1>8
  <2>3. object'[s].refs > 0 <=> object'[s].class # "none"
    BY <1>2, <1>3, <1>6 DEF Exists
  <2>4. \A x \in Objects : Claims(t, x) => x = s
    BY <1>5
  <2>5. s # o
    BY <1>2
  <2>. QED
    BY <1>2, <1>3, <1>6, <1>7, <2>1, <2>2, <2>3, <2>4, <2>5, EndsLiving
<1>10. Counted'
  <2>1. ASSUME NEW x \in Objects
        PROVE  object'[x].refs = held'[x] + Cardinality(Children(x)') + Cardinality(Calling(x)')
    <3>1. Cardinality(Calling(x)') = Cardinality(Calling(x)) - (IF x = o THEN 1 ELSE 0)
      BY <1>1, <1>4, OneCallLess DEF Getting
    <3>2. \A c \in Slots \ {s} :
            /\ object'[c].class = object[c].class /\ object'[c].parent = object[c].parent
            /\ \A u \in Threads : call'[u].slot = c <=> call[u].slot = c
      BY <1>1, <1>3, <1>4, Places
    <3>3. s \notin Children(x)
      BY <1>1, <1>2, ChildrenNow DEF Sound
    <3>4. s \in Children(x)' <=> x = p
      <4>1. \A u \in Threads : call'[u].slot # s
        BY <1>2, <1>4, <1>6 DEF Claims
      <4>. QED
        BY <1>1, <1>2, <1>3, <1>4, <1>6, <4>1, ChildrenNext DEF Exists
    <3>5. x = p => Cardinality(Children(x)') = Cardinality(Children(x)) + 1
      <4>1. IsFiniteSet(Children(x))
        BY Counts DEF Sound
      <4>2. x = p => Children(x)' = Children(x) \cup {s}
        BY <1>4, <3>2, <3>4, OtherChildren DEF Sound
      <4>. QED
        BY <3>3, <4>1, <4>2, OneMore
    <3>6. x # p => Children(x)' = Children(x)
      <4>1. x # p => Children(x)' = Children(x) \ {s}
        BY <1>4, <3>2, <3>4, OtherChildren DEF Sound
      <4>. QED
        BY <3>3, <4>1
    <3>7. /\ object[x].refs = held[x] + Cardinality(Children(x)) + Cardinality(Calling(x))
          /\ object[x].refs \in Nat /\ held[x] \in Nat
          /\ Cardinality(Children(x)) \in Nat /\ Cardinality(Calling(x)) \in Nat
      BY CountIs
    <3>. DEFINE children == Cardinality(Children(x))
                calling == Cardinality(Calling(x))
    <3>8. CASE x = s
      <4>1. object'[x].refs = 1 /\ held'[x] = 1 /\ x # o /\ x # p /\ object[x].refs = 0
        BY <1>2, <1>6, <3>8
      <4>2. Cardinality(Children(x)') = children /\ Cardinality(Calling(x)') = calling
        BY <3>1, <3>6, <3>7, <4>1
      <4>. HIDE DEF children, calling
      <4>3. children = 0 /\ calling = 0
        BY <3>7, <4>1 DEF children, calling
      <4>. QED
        BY <4>1, <4>2, <4>3
    <3>9. CASE x # s
      <4>1. /\ object'[x].refs = object[x].refs + (IF x = p THEN 1 ELSE 0) - (IF x = o THEN 1 ELSE 0)
            /\ held'[x] = held[x]
        BY <1>2, <3>7, <3>9
      <4>2. /\ Cardinality(Children(x)') = children + (IF x = p THEN 1 ELSE 0)
            /\ Cardinality(Calling(x)') = calling - (IF x = o THEN 1 ELSE 0)
        BY <3>1, <3>5, <3>6, <3>7
      <4>3. object[x].refs = held[x] + children + calling /\ children \in Nat /\ calling \in Nat
        BY <3>7
      <4>. HIDE DEF children, calling
      <4>. QED
        BY <3>7, <4>1, <4>2, <4>3
    <3>. QED
      BY <3>8, <3>9
  <2>. QED
    BY <2>1 DEF Counted
<1>11. Gone'
  <2>1. ASSUME NEW x \in Objects, ~ Exists(x)'
        PROVE  object'[x] = NoObject
    <3>1. ~ Exists(x) /\ x \notin {s, o, p}
      BY <1>3, <1>6, <1>7, <2>1 DEF Exists, Alive
    <3>2. object'[x].refs = object[x].refs /\ object'[x].index = object[x].index
      BY <1>2, <1>8, <3>1
    <3>. QED
      BY <1>2, <3>1, <3>2, StillGone
  <2>. QED
    BY <2>1 DEF Gone
<1>12. Family'
  BY <1>3, SameFamily
<1>13. Wanted'
  <2>1. ASSUME NEW u \in Threads \ {t}
        PROVE  /\ call'[u].op \in Getting => GetsPart(u)'
               /\ call'[u].op = "sequence" => GetsSequence(u)'
               /\ call'[u].slot # File => Makes(u)'
    BY <1>3, <1>4, SameWanted
  <2>. QED
    BY <1>4, <2>1 DEF Wanted, Getting
<1>. QED
  BY <1>4, <1>9, <1>10, <1>11, <1>12, <1>13 DEF Core

\* Taking back what could not be wrapped keeps them exact.
LEMMA UnmakesCore ==
  ASSUME Sound, NEW t \in Threads, call[t].op \in Getting, Unmakes(t)
  PROVE  Core'
<1>1. PICK o \in Objects, s \in Objects : o = call[t].on /\ s = call[t].slot
  BY CallIs DEF Sound
<1>2. /\ s \in Slots \ {o} /\ ObjectsTyped /\ held' = held /\ EndsAt(t, o) /\ s # File /\ object'[s] = NoObject
      /\ \A x \in Objects \ {s} :
           /\ SameButRefs(x) /\ object'[x].index = object[x].index
           /\ object'[x].refs = object[x].refs - (IF x = o THEN 1 ELSE 0)
  BY <1>1, Places DEF Unmakes
<1>3. \A x \in Objects \ {s} : object'[x].class = object[x].class /\ object'[x].parent = object[x].parent
  BY <1>2 DEF SameButRefs
<1>4. /\ Calls' /\ \A u \in Threads \ {t} : call'[u] = call[u]
      /\ call'[t].slot = File /\ call'[t].op \in {"none", "free"}
  BY <1>2, EndsCalls
<1>5. \A x \in Objects : Claims(t, x) <=> x = s
  BY <1>1, <1>2 DEF Claims, Getting
<1>6. Exists(s) /\ ~ Alive(s) /\ object[s].refs = 0 /\ \A u \in Threads \ {t} : ~ Claims(u, s)
  BY <1>5, InHand
<1>7. Alive(o) /\ object[o].refs > 0
  BY <1>1, CalledLives DEF Sound, Getting
<1>8. \A x \in Objects : object[x].refs \in Nat
  BY CountIs
<1>9. Claimed' /\ Living'
  <2>1. object'[o].refs \in Nat
    BY <1>2, <1>7, <1>8
  <2>2. \A x \in Objects \ {s, o} : object'[x].refs > 0 <=> object[x].refs > 0
    BY <1>2, <1>8
  <2>3. object'[s].refs > 0 <=> object'[s].class # "none"
    BY <1>2 DEF NoObject
  <2>4. \A x \in Objects : Claims(t, x) => x = s
    BY <1>5
  <2>5. s # o
    BY <1>2
  <2>. QED
    BY <1>2, <1>3, <1>6, <1>7, <2>1, <2>2, <2>3, <2>4, <2>5, EndsLiving
<1>10. Counted'
  <2>1. ASSUME NEW x \in Objects
        PROVE  object'[x].refs = held[x] + Cardinality(Children(x)') + Cardinality(Calling(x)')
    <3>1. Cardinality(Calling(x)') = Cardinality(Calling(x)) - (IF x = o THEN 1 ELSE 0)
      BY <1>1, <1>4, OneCallLess DEF Getting
    <3>2. \A c \in Slots \ {s} :
            /\ object'[c].class = object[c].class /\ object'[c].parent = object[c].parent
            /\ \A u \in Threads : call'[u].slot = c <=> call[u].slot = c
      BY <1>1, <1>3, <1>4, Places
    <3>3. s \notin Children(x)
      BY <1>1, <1>2, ChildrenNow DEF Sound
    <3>4. s \notin Children(x)'
      BY <1>2, <1>4, ChildrenNext DEF NoObject
    <3>5. Children(x)' = Children(x)
      <4>1. Children(x)' = Children(x) \ {s}
        BY <1>4, <3>2, <3>4, OtherChildren DEF Sound
      <4>. QED
        BY <3>3, <4>1
    <3>6. object'[x].refs = object[x].refs - (IF x = o THEN 1 ELSE 0)
      BY <1>2, <1>6 DEF NoObject
    <3>. QED
      BY <3>1, <3>5, <3>6, CountIs
  <2>. QED
    BY <1>2, <2>1 DEF Counted
<1>11. Gone'
  <2>1. ASSUME NEW x \in Objects, ~ Exists(x)'
        PROVE  object'[x] = NoObject
    <3>1. CASE x = s
      BY <1>2, <3>1
    <3>2. CASE x # s
      <4>1. ~ Exists(x) /\ x # o
        BY <1>3, <1>7, <2>1, <3>2 DEF Exists, Alive
      <4>2. object'[x].refs = object[x].refs
        BY <1>2, <1>8, <3>2, <4>1
      <4>. QED
        BY <1>2, <3>2, <4>1, <4>2, StillGone
    <3>. QED
      BY <3>1, <3>2
  <2>. QED
    BY <2>1 DEF Gone
<1>12. Family'
  <2>1. /\ ClassOf(File)' \in {"file", "none"}
        /\ \A c \in Slots \ {s} : Exists(c)' =>
             ClassOf(c)' \in DOMAIN ParentClass /\ ClassOf(object[c].parent)' = ParentClass[ClassOf(c)']
    BY <1>2, <1>3, <1>6, OthersFamily
  <2>2. ~ Exists(s)'
    BY <1>2 DEF Exists, NoObject
  <2>. QED
    BY <2>1, <2>2 DEF Family
<1>13. Wanted'
  <2>1. ASSUME NEW u \in Threads \ {t}
        PROVE  /\ call'[u].op \in Getting => GetsPart(u)'
               /\ call'[u].op = "sequence" => GetsSequence(u)'
               /\ call'[u].slot # File => Makes(u)'
    <3>1. call[u].slot # s
      BY <1>2, <1>6 DEF Claims
    <3>. QED
      BY <1>3, <1>4, <1>6, <3>1, OthersWant
  <2>. QED
    BY <1>4, <2>1 DEF Wanted, Getting
<1>. QED
  BY <1>4, <1>9, <1>10, <1>11, <1>12, <1>13 DEF Core

\* Making a sequence keeps them exact.
LEMMA CollectsCore ==
  ASSUME Sound, NEW t \in Threads, NEW s \in Slots, Collects(t, s)
  PROVE  Core'
<1>1. PICK o \in Objects : o = call[t].on
  BY CallIs DEF Sound
<1>2. /\ s # o /\ ~ Exists(s) /\ call[t].op = "sequence" /\ call[t].slot = File /\ ObjectsTyped /\ EndsAt(t, o)
      /\ s \in Objects /\ s # File
      /\ \A x \in Objects \ {s} : object'[x] = object[x]
      /\ object'[s].class = call[t].part /\ object'[s].refs = 1 /\ object'[s].parent = o
      /\ \A x \in Objects : held'[x] = IF x = s THEN 1 ELSE held[x]
  BY <1>1, Places DEF Collects, NoObject
<1>3. call[t].part \in Sequences /\ ClassOf(o) = ParentClass[call[t].part] /\ call[t].part # "none"
  BY <1>1, <1>2, ClassesAre DEF Sound, Wanted, GetsSequence
<1>4. /\ Calls' /\ \A u \in Threads \ {t} : call'[u] = call[u]
      /\ call'[t].slot = File /\ call'[t].op \in {"none", "free"}
  BY <1>2, EndsCalls
<1>5. object[s].refs = 0 /\ ~ Alive(s) /\ \A u \in Threads : ~ Claims(u, s) /\ call[u].slot # s
  BY <1>2 DEF Sound, Gone, NoObject, Alive, Claimed, Claims
<1>6. Alive(o) /\ object[o].refs > 0 /\ object[o].refs \in Nat
  BY <1>1, <1>2, CalledLives, CountIs DEF Sound
<1>7. Claimed' /\ Living'
  <2>1. \A x \in Objects : Claims(t, x) => x = s
    BY <1>2 DEF Claims
  <2>2. /\ object'[o].refs \in Nat
        /\ \A x \in Objects \ {s} : object'[x].class = object[x].class
        /\ \A x \in Objects \ {s, o} : object'[x].refs > 0 <=> object[x].refs > 0
        /\ object'[s].refs > 0 <=> object'[s].class # "none"
    BY <1>2, <1>3, <1>6
  <2>. QED
    BY <1>2, <1>5, <1>6, <2>1, <2>2, EndsLiving
<1>8. Counted'
  <2>1. ASSUME NEW x \in Objects
        PROVE  object'[x].refs = held'[x] + Cardinality(Children(x)') + Cardinality(Calling(x)')
    <3>1. Cardinality(Calling(x)') = Cardinality(Calling(x)) - (IF x = o THEN 1 ELSE 0)
      BY <1>1, <1>2, <1>4, OneCallLess
    <3>2. \A c \in Slots \ {s} :
            /\ object'[c].class = object[c].class /\ object'[c].parent = object[c].parent
            /\ \A u \in Threads : call'[u].slot = c <=> call[u].slot = c
      BY <1>2, <1>4, Places
    <3>3. s \notin Children(x)
      BY <1>2 DEF Children
    <3>4. s \in Children(x)' <=> x = o
      <4>1. \A u \in Threads : call'[u].slot # s
        BY <1>2, <1>4, <1>5
      <4>. QED
        BY <1>2, <1>3, <1>4, <4>1, ChildrenNext
    <3>5. x = o => Cardinality(Children(x)') = Cardinality(Children(x)) + 1
      <4>1. IsFiniteSet(Children(x))
        BY Counts DEF Sound
      <4>2. x = o => Children(x)' = Children(x) \cup {s}
        BY <1>4, <3>2, <3>4, OtherChildren DEF Sound
      <4>. QED
        BY <3>3, <4>1, <4>2, OneMore
    <3>6. x # o => Children(x)' = Children(x)
      <4>1. x # o => Children(x)' = Children(x) \ {s}
        BY <1>4, <3>2, <3>4, OtherChildren DEF Sound
      <4>. QED
        BY <3>3, <4>1
    <3>7. /\ object[x].refs = held[x] + Cardinality(Children(x)) + Cardinality(Calling(x))
          /\ object[x].refs \in Nat /\ held[x] \in Nat
          /\ Cardinality(Children(x)) \in Nat /\ Cardinality(Calling(x)) \in Nat
      BY CountIs
    <3>. DEFINE children == Cardinality(Children(x))
                calling == Cardinality(Calling(x))
    <3>8. CASE x = s
      <4>1. object'[x].refs = 1 /\ held'[x] = 1 /\ x # o /\ x # o /\ object[x].refs = 0
        BY <1>2, <1>5, <3>8
      <4>2. Cardinality(Children(x)') = children /\ Cardinality(Calling(x)') = calling
        BY <3>1, <3>6, <3>7, <4>1
      <4>. HIDE DEF children, calling
      <4>3. children = 0 /\ calling = 0
        BY <3>7, <4>1 DEF children, calling
      <4>. QED
        BY <4>1, <4>2, <4>3
    <3>9. CASE x # s
      <4>1. /\ object'[x].refs = object[x].refs + (IF x = o THEN 1 ELSE 0) - (IF x = o THEN 1 ELSE 0)
            /\ held'[x] = held[x]
        BY <1>2, <3>7, <3>9
      <4>2. /\ Cardinality(Children(x)') = children + (IF x = o THEN 1 ELSE 0)
            /\ Cardinality(Calling(x)') = calling - (IF x = o THEN 1 ELSE 0)
        BY <3>1, <3>5, <3>6, <3>7
      <4>3. object[x].refs = held[x] + children + calling /\ children \in Nat /\ calling \in Nat
        BY <3>7
      <4>. HIDE DEF children, calling
      <4>. QED
        BY <3>7, <4>1, <4>2, <4>3
    <3>. QED
      BY <3>8, <3>9
  <2>. QED
    BY <2>1 DEF Counted
<1>9. Gone'
  BY <1>2, <1>3 DEF Gone, Sound, Exists
<1>10. Family'
  <2>1. \A x \in Objects \ {s} : object'[x].class = object[x].class /\ object'[x].parent = object[x].parent
    BY <1>2
  <2>2. /\ ClassOf(File)' \in {"file", "none"}
        /\ \A c \in Slots \ {s} : Exists(c)' =>
             ClassOf(c)' \in DOMAIN ParentClass /\ ClassOf(object[c].parent)' = ParentClass[ClassOf(c)']
    BY <1>5, <2>1, OthersFamily
  <2>3. ClassOf(s)' \in DOMAIN ParentClass /\ ClassOf(object[s].parent)' = ParentClass[ClassOf(s)']
    <3>1. ClassOf(s)' = call[t].part /\ ClassOf(object[s].parent)' = ClassOf(o)
      BY <1>2 DEF ClassOf
    <3>2. call[t].part \in DOMAIN ParentClass
      BY <1>3, ClassesAre
    <3>. QED
      BY <1>3, <3>1, <3>2
  <2>. QED
    BY <2>2, <2>3 DEF Family
<1>11. Wanted'
  <2>1. ASSUME NEW u \in Threads \ {t}
        PROVE  /\ call'[u].op \in Getting => GetsPart(u)'
               /\ call'[u].op = "sequence" => GetsSequence(u)'
               /\ call'[u].slot # File => Makes(u)'
    BY <1>2, <1>4, <1>5, OthersWant
  <2>. QED
    BY <1>4, <2>1 DEF Wanted, Getting
<1>. QED
  BY <1>4, <1>7, <1>8, <1>9, <1>10, <1>11 DEF Core

-----------------------------------------------------------------------------
(***************************************************************************)
(* What the other invariants need of a step: the calls of the other        *)
(* threads stay, and the call of this thread goes on or ends.              *)
(***************************************************************************)
HandleGroup == HandleOwned /\ FileFreed /\ Undisturbed /\ HandleOutlivesItsUse /\ FileObjectIsKept
Iteration == Bounded /\ Iterated /\ ItemsInOrder
Reading == Seeking /\ ReadsAtItsOffset

Stays(u) ==
  /\ call'[u].op = call[u].op /\ call'[u].on = call[u].on /\ call'[u].stage = call[u].stage
  /\ call'[u].slot = call[u].slot /\ call'[u].offset = call[u].offset /\ call'[u].found = call[u].found
  /\ call'[u].alone => call[u].alone
InMethod(c) == c.op \notin {"none", "free"}
Keeps(t) ==
  /\ \A u \in Threads \ {t} : Stays(u)
  /\ InMethod(call'[t]) =>
       call'[t].op = call[t].op /\ call'[t].on = call[t].on /\ (call'[t].alone => call[t].alone)

\* A call that does not settle the file, or that goes on without it, leaves the handle in peace.
Peaceful(t) ==
  /\ OpensHandle(t)' => OpensHandle(t)
  /\ call'[t].op = "close" /\ call'[t].stage \in {"done", "handle", "freed"} =>
       (call[t].op = "close" /\ call[t].stage \in {"done", "handle", "freed"}) \/ ~ file.open
  /\ call'[t].op = "free" /\ call'[t].stage = "handle" =>
       (call[t].op = "free" /\ call[t].stage = "handle") \/ ~ file.open
  /\ OpensHandle(t) \/ ClosesHandle(t) =>
       OpensHandle(t)' \/ ClosesHandle(t)' \/ file.open \/ ~ file.handle

\* A thread that was alone in its call stays alone when no call begins.
LEMMA FewerBesides ==
  ASSUME NEW t \in Threads, Keeps(t), NEW u \in Threads, InCallBesides(u) = {}
  PROVE  InCallBesides(u)' = {}
<1>1. \A w \in Threads : InMethod(call'[w]) => InMethod(call[w])
  BY DEF Keeps, Stays, InMethod
<1>. QED
  BY <1>1 DEF InCallBesides, InMethod

\* The handle stays as it is.
LEMMA HandleStays ==
  ASSUME HandleGroup, NEW t \in Threads, Keeps(t), Peaceful(t),
         file' = file, medium'.refs = medium.refs, history'.disturbed = history.disturbed,
         Exists(File) => Exists(File)'
  PROVE  HandleGroup'
<1>1. HandleOwned'
  <2>1. ASSUME file'.handle, ~ file'.open
        PROVE  \E u \in Threads : OpensHandle(u)' \/ ClosesHandle(u)'
    <3>1. PICK u \in Threads : OpensHandle(u) \/ ClosesHandle(u)
      BY <2>1 DEF HandleGroup, HandleOwned
    <3>2. OpensHandle(u)' \/ ClosesHandle(u)'
      BY <2>1, <3>1 DEF Keeps, Stays, Peaceful, OpensHandle, ClosesHandle
    <3>. QED
      BY <3>2
  <2>. QED
    BY <2>1 DEF HandleOwned
<1>2. FileFreed'
  <2>1. ~ Exists(File)' => ~ file'.open /\ ~ file'.handle
    BY DEF HandleGroup, FileFreed
  <2>2. ASSUME NEW u \in Threads, call'[u].op = "free", call'[u].stage = "handle"
        PROVE  ~ file'.open
    BY <2>2 DEF HandleGroup, FileFreed, Keeps, Stays, Peaceful
  <2>. QED
    BY <2>1, <2>2 DEF FileFreed
<1>3. Undisturbed'
  <2>1. ASSUME ~ history'.disturbed, NEW u \in Threads
        PROVE  /\ Settles(call'[u].op) => InCallBesides(u)' = {}
               /\ OpensHandle(u)' => ~ (file'.open /\ file'.using = "handle") /\ file'.handle
               /\ call'[u].op = "close" /\ call'[u].stage \in {"done", "handle", "freed"} => ~ file'.open
    <3>1. /\ Settles(call[u].op) => InCallBesides(u) = {}
          /\ OpensHandle(u) => ~ (file.open /\ file.using = "handle") /\ file.handle
          /\ call[u].op = "close" /\ call[u].stage \in {"done", "handle", "freed"} => ~ file.open
      BY <2>1 DEF HandleGroup, Undisturbed
    <3>2. Settles(call'[u].op) => Settles(call[u].op)
      BY DEF Keeps, Stays, InMethod, Settles
    <3>3. Settles(call'[u].op) => InCallBesides(u)' = {}
      BY <3>1, <3>2, FewerBesides
    <3>4. OpensHandle(u)' => OpensHandle(u)
      BY DEF Keeps, Stays, Peaceful, OpensHandle
    <3>5. call'[u].op = "close" /\ call'[u].stage \in {"done", "handle", "freed"} => ~ file'.open
      BY <3>1 DEF Keeps, Stays, Peaceful
    <3>. QED
      BY <3>1, <3>3, <3>4, <3>5
  <2>. QED
    BY <2>1 DEF Undisturbed
<1>4. HandleOutlivesItsUse' /\ FileObjectIsKept'
  BY DEF HandleGroup, HandleOutlivesItsUse, FileObjectIsKept
<1>. QED
  BY <1>1, <1>2, <1>3, <1>4 DEF HandleGroup

\* An object stays where its iteration is, or it is no sequence that is iterated.
IndexStays(o) ==
  /\ object'[o].index = object[o].index /\ object'[o].class = object[o].class
  /\ history'.given[o] = history.given[o] /\ (o \in history.shared => o \in history'.shared)
IndexStarts(o) ==
  /\ object'[o].index = 0 /\ history'.given[o] = <<>>
  /\ \A u \in Threads : InMethod(call'[u]) => call'[u].on # o
FoundFits(t) ==
  call'[t].op = "next" /\ call'[t].stage = "done" =>
    (call[t].stage = "done" /\ call'[t].found = call[t].found) \/ call'[t].found = object[call[t].on].index

\* The threads that are in next can be counted.
LEMMA NextsAre ==
  ASSUME NEW o
  PROVE  Cardinality(Nexts(o)) \in Nat /\ IsFiniteSet(Nexts(o)) /\ Nexts(o) \subseteq Threads
BY SomeThreads DEF Nexts

\* The calls on an object, by their fields.
LEMMA CallingIs == \A t, o : t \in Calling(o) <=> t \in Threads /\ InMethod(call[t]) /\ call[t].on = o
BY DEF Calling, InMethod, Busy

\* The calls on an object after a step, by their fields.
LEMMA CallingNext == \A t, o : t \in Calling(o)' <=> t \in Threads /\ InMethod(call'[t]) /\ call'[t].on = o
BY DEF Calling, InMethod, Busy

\* A step that begins no call makes no more threads be in next.
LEMMA FewerNexts ==
  ASSUME NEW t \in Threads, Keeps(t), NEW o
  PROVE  Cardinality(Nexts(o)') \in Nat /\ Cardinality(Nexts(o)') <= Cardinality(Nexts(o))
<1>1. Nexts(o)' \subseteq Nexts(o)
  BY DEF Keeps, Stays, InMethod, Nexts
<1>. QED
  BY <1>1, NextsAre, FS_Subset, FS_CardinalityType

\* The items stay in order in a step in which no sequence gets on.
LEMMA IterationStays ==
  ASSUME Sound, Iteration, Typed', NEW t \in Threads, Keeps(t), FoundFits(t),
         \A o \in Objects : IndexStays(o) \/ IndexStarts(o)
  PROVE  Iteration'
<1>1. Bounded'
  <2>1. ASSUME NEW o \in Objects
        PROVE  /\ object'[o].index + Cardinality(Nexts(o)') <= Items + Cardinality(Threads) - 1
               /\ ~ IsSequence(o)' => object'[o].index = 0 /\ history'.given[o] = <<>>
    <3>1. /\ object[o].index + Cardinality(Nexts(o)) <= Items + Cardinality(Threads) - 1
          /\ ~ IsSequence(o) => object[o].index = 0 /\ history.given[o] = <<>>
      BY DEF Iteration, Bounded
    <3>2. Cardinality(Nexts(o)') \in Nat /\ Cardinality(Nexts(o)') <= Cardinality(Nexts(o))
          /\ Cardinality(Nexts(o)) \in Nat
      BY FewerNexts, NextsAre
    <3>3. object[o].index \in Nat
      BY ObjectIs DEF Sound
    <3>4. object'[o].index = object[o].index \/ object'[o].index = 0
      BY DEF IndexStays, IndexStarts
    <3>. DEFINE n == Cardinality(Nexts(o)')
                m == Cardinality(Nexts(o))
                k == Cardinality(Threads)
                i == object[o].index
    <3>5. k \in Nat /\ Items \in Nat
      BY SomeThread, BoundsAssumption
    <3>6. n \in Nat /\ m \in Nat /\ n <= m /\ i \in Nat /\ i + m <= Items + k - 1
      BY <3>1, <3>2, <3>3
    <3>. HIDE DEF n, m, k, i
    <3>7. i + n <= Items + k - 1 /\ 0 + n <= Items + k - 1
      BY <3>5, <3>6
    <3>8. object'[o].index + Cardinality(Nexts(o)') <= Items + Cardinality(Threads) - 1
      BY <3>4, <3>7 DEF n, k, i
    <3>9. ~ IsSequence(o)' => object'[o].index = 0 /\ history'.given[o] = <<>>
      BY <3>1 DEF IndexStays, IndexStarts, IsSequence
    <3>. QED
      BY <3>8, <3>9
  <2>. QED
    BY <2>1 DEF Bounded
<1>2. ASSUME NEW o \in Slots, IsSequence(o)', o \notin history'.shared
      PROVE  /\ \A u, v \in Calling(o)' : u = v
             /\ \A u \in Calling(o)' : call'[u].op = "next" /\ call'[u].stage = "done" =>
                  call'[u].found = object'[o].index
             /\ history'.given[o] = [i \in 1 .. object'[o].index |-> i - 1]
  <2>0. o \in Objects
    BY Places
  <2>1. CASE IndexStays(o)
    <3>1. IsSequence(o) /\ o \notin history.shared
      BY <1>2, <2>1 DEF IndexStays, IsSequence
    <3>2. Calling(o)' \subseteq Calling(o)
      BY DEF Calling, Keeps, Stays, Busy, InMethod
    <3>3. /\ \A u, v \in Calling(o) : u = v
          /\ \A u \in Calling(o) :
               call[u].op = "next" /\ call[u].stage = "done" => call[u].found = object[o].index
      BY <3>1 DEF Iteration, Iterated
    <3>4. ASSUME NEW u \in Calling(o)', call'[u].op = "next", call'[u].stage = "done"
          PROVE  call'[u].found = object'[o].index
      <4>1. u \in Calling(o) /\ u \in Threads /\ call[u].on = o
        BY <3>2, CallingIs
      <4>2. call[u].op = "next"
        BY <3>4, <4>1 DEF Keeps, Stays, InMethod
      <4>3. \/ call[u].stage = "done" /\ call'[u].found = call[u].found
            \/ call'[u].found = object[call[u].on].index
        BY <3>4, <4>1 DEF Keeps, Stays, FoundFits
      <4>. QED
        BY <2>1, <3>3, <4>1, <4>2, <4>3 DEF IndexStays
    <3>5. history.given[o] = [i \in 1 .. object[o].index |-> i - 1]
      BY <3>1 DEF Iteration, ItemsInOrder
    <3>. QED
      BY <2>1, <3>2, <3>3, <3>4, <3>5 DEF IndexStays
  <2>2. CASE IndexStarts(o)
    <3>1. Calling(o)' = {}
      BY <2>2, CallingNext DEF IndexStarts
    <3>2. [i \in 1 .. 0 |-> i - 1] = <<>>
      OBVIOUS
    <3>. QED
      BY <2>2, <3>1, <3>2 DEF IndexStarts
  <2>. QED
    BY <2>0, <2>1, <2>2
<1>3. Iterated' /\ ItemsInOrder'
  BY <1>2 DEF Iterated, ItemsInOrder
<1>. QED
  BY <1>1, <1>3 DEF Iteration

\* No call but one that seeks or reads changes where the file is read.
LEMMA ReadingStays ==
  ASSUME Sound, Reading, NEW t \in Threads, Keeps(t), medium'.offset = medium.offset,
         call'[t].stage \notin {"seek", "read"} \/ Stays(t)
  PROVE  Reading'
<1>1. Seeking'
  <2>1. ASSUME NEW u \in Threads, InMethod(call'[u]), call'[u].alone
        PROVE  InCallBesides(u)' = {}
    <3>1. InMethod(call[u]) /\ call[u].alone
      BY <2>1 DEF Keeps, Stays, InMethod
    <3>. QED
      BY <3>1, FewerBesides DEF Reading, Seeking, InMethod
  <2>2. ASSUME NEW u \in Threads, call'[u].stage = "seek", call'[u].alone
        PROVE  medium'.offset = call'[u].offset
    BY <2>2 DEF Reading, Seeking, Keeps, Stays
  <2>. QED
    BY <2>1, <2>2 DEF Seeking, InMethod
<1>2. ReadsAtItsOffset'
  BY DEF Reading, ReadsAtItsOffset, Keeps, Stays
<1>. QED
  BY <1>1, <1>2 DEF Reading

\* A library object stays with its object, or comes and goes with it.
LibraryStays(o) ==
  \/ /\ object'[o].class = object[o].class /\ object'[o].library = object[o].library
     /\ \A u \in Threads : LibraryFreed(u, o)' <=> LibraryFreed(u, o)
  \/ object'[o].library <=> Exists(o)' /\ ~ IsSequence(o)' /\ \A u \in Threads : ~ LibraryFreed(u, o)'

\* The objects keep their library objects when no step but that of the library takes them.
LEMMA LibraryStaysKept ==
  ASSUME LibraryKept, \A o \in Objects : LibraryStays(o),
         \A s \in Slots : object'[s].library =>
           \/ file'.open
           \/ object[s].library /\ (file.open \/ history.closed => file'.open \/ history'.closed)
  PROVE  LibraryKept'
<1>1. ASSUME NEW o \in Objects
      PROVE  object'[o].library <=>
               Exists(o)' /\ ~ IsSequence(o)' /\ \A u \in Threads : ~ LibraryFreed(u, o)'
  <2>1. object[o].library <=> Exists(o) /\ ~ IsSequence(o) /\ \A u \in Threads : ~ LibraryFreed(u, o)
    BY DEF LibraryKept
  <2>2. CASE /\ object'[o].class = object[o].class /\ object'[o].library = object[o].library
             /\ \A u \in Threads : LibraryFreed(u, o)' <=> LibraryFreed(u, o)
    <3>1. (Exists(o)' <=> Exists(o)) /\ (IsSequence(o)' <=> IsSequence(o))
      BY <2>2 DEF Exists, IsSequence
    <3>. QED
      BY <2>1, <2>2, <3>1
  <2>. QED
    BY <2>2 DEF LibraryStays
<1>2. ASSUME NEW s \in Slots, object'[s].library
      PROVE  file'.open \/ history'.closed
  BY <1>2 DEF LibraryKept
<1>. QED
  BY <1>1, <1>2 DEF LibraryKept

-----------------------------------------------------------------------------
(***************************************************************************)
(* The effects keep the calls of the other threads.                        *)
(***************************************************************************)
LEMMA EndsAtKeeps ==
  ASSUME Sound, NEW t \in Threads, NEW o \in Objects, EndsAt(t, o)
  PROVE  /\ Keeps(t) /\ ~ InMethod(call'[t]) /\ call'[t].stage \in {"idle", "library"}
         /\ \A u \in Threads, x \in Objects : LibraryFreed(u, x)' <=> LibraryFreed(u, x) /\ u # t
<1>1. PICK r : r = object'[o].refs
  OBVIOUS
<1>2. Becomes(t, AfterRelease(r, o))
  BY <1>1 DEF EndsAt
<1>3. call'[t].op \in {"none", "free"} /\ call'[t].stage \in {"idle", "library"}
  BY <1>2, AfterReleaseIs DEF Becomes, NoCall
<1>4. \A u \in Threads \ {t} : call'[u] = call[u]
  BY <1>2 DEF Becomes
<1>. QED
  BY <1>3, <1>4 DEF Keeps, Stays, InMethod, LibraryFreed

\* A call that goes on is the same call.
LEMMA GoesKeeps ==
  ASSUME NEW t \in Threads, Goes(t)
  PROVE  Keeps(t) /\ call'[t].op = call[t].op /\ call'[t].on = call[t].on
BY DEF Goes, Going, Keeps, Stays, InMethod

\* What becomes of a call that ends leaves the handle in peace, unless it was opening or closing.
LEMMA EndsPeacefully ==
  ASSUME NEW t \in Threads, ~ InMethod(call'[t]), call'[t].stage \in {"idle", "library"},
         (~ OpensHandle(t) /\ ~ ClosesHandle(t)) \/ ~ file.handle
  PROVE  Peaceful(t)
BY DEF Peaceful, InMethod, OpensHandle

-----------------------------------------------------------------------------
(***************************************************************************)
(* Every step keeps the invariant.                                         *)
(***************************************************************************)
LEMMA InvIs == Inv <=> Sound /\ LibraryKept /\ HandleGroup /\ Iteration /\ Reading
BY DEF Inv, Sound, HandleGroup, Iteration, Reading

\* The invariant, by its groups.
LEMMA InvNext ==
  ASSUME Typed', Core', LibraryKept', HandleGroup', Iteration', Reading'
  PROVE  Inv'
BY DEF Inv, Core, HandleGroup, Iteration, Reading

\* The steps that leave the file and the file object alone.
LEMMA QuietStep ==
  ASSUME Inv, Typed', Core', NEW t \in Threads,
         file' = file, medium' = medium,
         history'.disturbed = history.disturbed, history'.closed = history.closed,
         Exists(File) => Exists(File)',
         Keeps(t), Peaceful(t), FoundFits(t), call'[t].stage \notin {"seek", "read"} \/ Stays(t),
         \A o \in Objects : (IndexStays(o) \/ IndexStarts(o)) /\ LibraryStays(o),
         \A s \in Slots : object'[s].library => object[s].library \/ file.open
  PROVE  Inv'
<1>1. Sound /\ LibraryKept /\ HandleGroup /\ Iteration /\ Reading
  BY InvIs
<1>2. LibraryKept'
  BY <1>1, LibraryStaysKept
<1>3. HandleGroup'
  BY <1>1, HandleStays
<1>4. Iteration'
  BY <1>1, IterationStays
<1>5. Reading'
  BY <1>1, ReadingStays
<1>. QED
  BY <1>2, <1>3, <1>4, <1>5, InvNext

\* The types are kept by a step that leaves the file, the medium and the history alone.
LEMMA TypedStays ==
  ASSUME Typed, ObjectsTyped, held' \in [Objects -> 0 .. MaxHeld], call' \in [Threads -> CallRecord],
         UNCHANGED <<file, medium, history>>
  PROVE  Typed'
BY DEF Typed, ObjectsTyped

\* The program takes another reference.
LEMMA TakesStep ==
  ASSUME Inv, NEW o \in Objects, Takes(o), UNCHANGED <<file, medium, history>>
  PROVE  Inv'
<1>1. PICK t \in Threads : TRUE
  BY SomeThread, ThreadsAssumption
<1>2. Sound
  BY InvIs
<1>3. call' = call /\ ObjectsTyped /\ held' \in [Objects -> 0 .. MaxHeld]
      /\ \A x \in Objects : SameButRefs(x) /\ object'[x].index = object[x].index
  BY DEF Takes
<1>4. Core'
  BY <1>2, TakesCore
<1>5. Typed'
  BY <1>2, <1>3, TypedStays DEF Sound, Typed
<1>6. Keeps(t) /\ Stays(t) /\ Peaceful(t) /\ FoundFits(t)
  BY <1>3 DEF Keeps, Stays, Peaceful, FoundFits, OpensHandle, ClosesHandle
<1>7. \A x \in Objects : IndexStays(x) /\ LibraryStays(x)
  BY <1>3 DEF IndexStays, LibraryStays, SameButRefs, LibraryFreed
<1>8. (Exists(File) => Exists(File)') /\ \A s \in Slots : object'[s].library => object[s].library
  BY <1>3, Places DEF SameButRefs, Exists
<1>. QED
  BY <1>4, <1>5, <1>6, <1>7, <1>8, QuietStep

\* It lets go of one.
LEMMA LetsGoStep ==
  ASSUME Inv, NEW t \in Threads, NEW o \in Objects, LetsGo(t, o), UNCHANGED <<file, medium, history>>
  PROVE  Inv'
<1>1. Sound
  BY InvIs
<1>2. /\ call[t].op = "none" /\ EndsAt(t, o) /\ ObjectsTyped /\ held' \in [Objects -> 0 .. MaxHeld]
      /\ \A x \in Objects : SameButRefs(x) /\ object'[x].index = object[x].index
  BY DEF LetsGo
<1>3. /\ Keeps(t) /\ ~ InMethod(call'[t]) /\ call'[t].stage \in {"idle", "library"}
      /\ \A u \in Threads, x \in Objects : LibraryFreed(u, x)' <=> LibraryFreed(u, x) /\ u # t
  BY <1>1, <1>2, EndsAtKeeps
<1>4. Core'
  BY <1>1, LetsGoCore
<1>5. Typed'
  BY <1>1, <1>2, TypedStays DEF Sound, EndsAt, Becomes
<1>6. Peaceful(t) /\ FoundFits(t)
  BY <1>2, <1>3, EndsPeacefully DEF OpensHandle, ClosesHandle, FoundFits, InMethod
<1>7. \A x \in Objects : IndexStays(x) /\ LibraryStays(x)
  BY <1>2, <1>3 DEF IndexStays, LibraryStays, SameButRefs, LibraryFreed
<1>8. (Exists(File) => Exists(File)') /\ \A s \in Slots : object'[s].library => object[s].library
  BY <1>2, Places DEF SameButRefs, Exists
<1>. QED
  BY <1>3, <1>4, <1>5, <1>6, <1>7, <1>8, QuietStep

\* A call returns without an object.
LEMMA EndsStep ==
  ASSUME Inv, NEW t \in Threads, Ends(t), UNCHANGED <<file, medium, history>>,
         (~ OpensHandle(t) /\ ~ ClosesHandle(t)) \/ ~ file.handle
  PROVE  Inv'
<1>1. Sound
  BY InvIs
<1>2. PICK o \in Objects : o = call[t].on
  BY <1>1, CallIs DEF Sound
<1>3. /\ InMethod(call[t]) /\ EndsAt(t, o) /\ ObjectsTyped /\ held' = held
      /\ \A x \in Objects : SameButRefs(x) /\ object'[x].index = object[x].index
  BY <1>2 DEF Ends, InMethod
<1>4. /\ Keeps(t) /\ ~ InMethod(call'[t]) /\ call'[t].stage \in {"idle", "library"}
      /\ \A u \in Threads, x \in Objects : LibraryFreed(u, x)' <=> LibraryFreed(u, x) /\ u # t
  BY <1>1, <1>3, EndsAtKeeps
<1>5. Core'
  BY <1>1, EndsCore
<1>6. Typed'
  BY <1>1, <1>3, TypedStays DEF Sound, EndsAt, Becomes, Typed
<1>7. Peaceful(t) /\ FoundFits(t)
  BY <1>4, EndsPeacefully DEF FoundFits, InMethod
<1>8. \A x \in Objects : IndexStays(x) /\ LibraryStays(x)
  BY <1>3, <1>4 DEF IndexStays, LibraryStays, SameButRefs, LibraryFreed, InMethod
<1>9. (Exists(File) => Exists(File)') /\ \A s \in Slots : object'[s].library => object[s].library
  BY <1>3, Places DEF SameButRefs, Exists
<1>. QED
  BY <1>4, <1>5, <1>6, <1>7, <1>8, <1>9, QuietStep

\* The library answers a call or fails, and a close goes on to the handle.
LEMMA LibraryReturnsStep ==
  ASSUME Inv, NEW t \in Threads, Busy(t),
         LibraryAnswers(t) \/ LibraryFails(t) \/ ReturnCloseWithHandle(t)
  PROVE  Inv'
<1>1. Sound /\ Shaped(call[t])
  BY InvIs DEF Sound, Calls
<1>2. Goes(t)
  BY <1>1, LibraryGoes
<1>3. object' = object /\ UNCHANGED <<file, medium, history>>
  BY DEF LibraryAnswers, LibraryFails, ReturnCloseWithHandle
<1>4. Going(t) /\ held' = held /\ ObjectsTyped /\ Keeps(t)
      /\ call'[t].op = call[t].op /\ call'[t].on = call[t].on
  BY <1>2, GoesKeeps DEF Goes
<1>5. Core'
  BY <1>1, <1>2, GoesCore
<1>6. Typed'
  BY <1>1, <1>3, <1>4, TypedStays DEF Sound, Typed, Going
<1>7. \/ call[t].op \in {"value", "sequence"} /\ call'[t].stage = "done"
      \/ (call[t].op = "close" => ~ file.open) /\ ReadyToLeave(t) /\ call'[t].stage = "failed"
      \/ call[t].op = "close" /\ call[t].stage = "done" /\ call'[t].stage = "handle"
  <2>1. {"done", "failed", "handle"} \subseteq Stages
    BY DEF Stages
  <2>. QED
    BY <1>1, <2>1, LeavesIs DEF LibraryAnswers, LibraryFails, ReturnCloseWithHandle, Sound
<1>8. Peaceful(t) /\ FoundFits(t) /\ call'[t].stage \notin {"seek", "read"}
      /\ \A x \in Objects : LibraryFreed(t, x)' <=> LibraryFreed(t, x)
  BY <1>1, <1>4, <1>7 DEF Peaceful, FoundFits, OpensHandle, ClosesHandle, LibraryFreed, ReadyToLeave, InLibrary,
     Shaped
<1>9. \A x \in Objects : IndexStays(x) /\ LibraryStays(x)
  BY <1>3, <1>4, <1>8 DEF IndexStays, LibraryStays, LibraryFreed, Keeps, Stays
<1>10. (Exists(File) => Exists(File)') /\ \A s \in Slots : object'[s].library => object[s].library
  BY <1>3, Places DEF Exists
<1>. QED
  BY <1>3, <1>4, <1>5, <1>6, <1>8, <1>9, <1>10, QuietStep

\* A library object is freed.
LEMMA FreeLibraryStep ==
  ASSUME Inv, NEW t \in Threads, FreeLibrary(t)
  PROVE  Inv'
<1>1. Sound
  BY InvIs
<1>2. PICK o \in Slots : o = call[t].on
  BY <1>1, FreeLibraryGoes
<1>3. /\ Goes(t) /\ call'[t].stage = "done" /\ call[t].op = "free" /\ ~ object'[o].library
      /\ \A x \in Objects \ {o} : object'[x] = object[x]
  BY <1>1, <1>2, FreeLibraryGoes
<1>4. UNCHANGED <<file, medium, history>> /\ call[t].stage = "library" /\ o \in Objects /\ o # File
  BY <1>2, Places DEF FreeLibrary
<1>5. Going(t) /\ held' = held /\ ObjectsTyped /\ Keeps(t)
      /\ call'[t].op = "free" /\ call'[t].on = o
      /\ \A x \in Objects : object'[x].class = object[x].class /\ object'[x].index = object[x].index
  BY <1>2, <1>3, GoesKeeps DEF Goes
<1>6. Core'
  BY <1>1, <1>3, GoesCore
<1>7. Typed'
  BY <1>1, <1>4, <1>5, TypedStays DEF Sound, Typed, Going
<1>8. Peaceful(t) /\ FoundFits(t)
  BY <1>3, <1>4, <1>5 DEF Peaceful, FoundFits, OpensHandle, ClosesHandle
<1>9. \A x \in Objects : IndexStays(x)
  BY <1>4, <1>5 DEF IndexStays
<1>10. \A x \in Objects : LibraryStays(x)
  <2>1. LibraryStays(o)
    BY <1>3, <1>4, <1>5 DEF LibraryStays, LibraryFreed
  <2>2. ASSUME NEW x \in Objects \ {o}
        PROVE  LibraryStays(x)
    BY <1>2, <1>3, <1>5 DEF LibraryStays, LibraryFreed, Keeps, Stays
  <2>. QED
    BY <2>1, <2>2
<1>11. (Exists(File) => Exists(File)') /\ \A s \in Slots : object'[s].library => object[s].library
  BY <1>3, <1>4, Places DEF Exists
<1>. QED
  BY <1>3, <1>4, <1>5, <1>6, <1>7, <1>8, <1>9, <1>10, <1>11, QuietStep

\* The library makes the object of a part.
LEMMA LibraryMakesStep ==
  ASSUME Inv, NEW t \in Threads, LibraryMakes(t)
  PROVE  Inv'
<1>1. Sound
  BY InvIs
<1>2. PICK s \in Slots : MakesPart(t, s)
  BY <1>1, LibraryMakesIs
<1>3. file.open /\ UNCHANGED <<file, medium, history>>
  BY DEF LibraryMakes
<1>4. /\ ~ Exists(s) /\ ObjectsTyped /\ held' = held /\ call[t].op \in Getting /\ call[t].slot = File
      /\ \A x \in Objects \ {s} : object'[x] = object[x]
      /\ object'[s] = [NoObject EXCEPT !.class = call[t].part, !.library = TRUE, !.parent = Target(call[t].on)]
  BY <1>2 DEF MakesPart
<1>5. PICK found \in Nat :
        /\ Becomes(t, [call[t] EXCEPT !.stage = "done", !.slot = s, !.offset = 0, !.found = found])
        /\ found = IF call[t].op = "next" THEN object[call[t].on].index ELSE 0
  BY <1>2 DEF MakesPart
<1>6. /\ call' \in [Threads -> CallRecord]
      /\ \A u \in Threads \ {t} : call'[u] = call[u]
      /\ call'[t].op = call[t].op /\ call'[t].on = call[t].on /\ call'[t].stage = "done"
      /\ call'[t].found = found /\ call'[t].alone = call[t].alone /\ call'[t].slot = s
  <2>1. call[t] \in CallRecord
    BY <1>1, CallIs DEF Sound
  <2>. QED
    BY <1>5, <2>1 DEF Becomes, CallRecord
<1>7. Core'
  BY <1>1, <1>2, MakesPartCore
<1>8. Typed'
  BY <1>1, <1>3, <1>4, <1>6, TypedStays DEF Sound, Typed
<1>9. Keeps(t)
  BY <1>6 DEF Keeps, Stays
<1>10. Peaceful(t) /\ FoundFits(t)
  BY <1>4, <1>5, <1>6 DEF Peaceful, FoundFits, OpensHandle, ClosesHandle, Getting
<1>11. object[s] = NoObject /\ s \in Objects /\ s # File
  BY <1>1, <1>4, Places DEF Sound, Gone
<1>12. /\ object'[s].class = call[t].part /\ object'[s].library /\ object'[s].index = 0
       /\ object[s].index = 0 /\ ~ IsSequence(s)
  BY <1>4, <1>11, ClassesAre DEF NoObject, IsSequence
<1>13. call[t].part \in Classes \ Sequences /\ call[t].part # "none"
  <2>1. GetsPart(t)
    BY <1>1, <1>4 DEF Sound, Wanted
  <2>. QED
    BY <2>1, ClassesAre DEF GetsPart
<1>14. \A u \in Threads : ~ LibraryFreed(u, s)'
  <2>1. \A u \in Threads : call[u].op = "free" => call[u].on # s
    BY <1>1, <1>4, <1>11 DEF Sound, Claimed, Claims
  <2>. QED
    BY <1>4, <1>6, <2>1 DEF LibraryFreed, Getting
<1>15. \A x \in Objects : IndexStays(x) \/ IndexStarts(x)
  <2>1. IndexStarts(s)
    <3>1. history.given[s] = <<>>
      BY <1>11, <1>12, InvIs DEF Iteration, Bounded
    <3>2. \A u \in Threads : InMethod(call[u]) => call[u].on # s
      BY <1>1, <1>4, CalledLives DEF Sound, InMethod, Alive
    <3>. QED
      BY <1>3, <1>6, <1>12, <3>1, <3>2 DEF IndexStarts, InMethod
  <2>2. \A x \in Objects \ {s} : IndexStays(x)
    BY <1>3, <1>4 DEF IndexStays
  <2>. QED
    BY <2>1, <2>2
<1>16. \A x \in Objects : LibraryStays(x)
  <2>1. LibraryStays(s)
    BY <1>12, <1>13, <1>14 DEF LibraryStays, Exists, IsSequence
  <2>2. ASSUME NEW x \in Objects \ {s}
        PROVE  LibraryStays(x)
    BY <1>4, <1>6 DEF LibraryStays, LibraryFreed, Getting
  <2>. QED
    BY <2>1, <2>2
<1>17. Exists(File) => Exists(File)'
  BY <1>4, <1>11, Places DEF Exists
<1>. QED
  BY <1>3, <1>6, <1>7, <1>8, <1>9, <1>10, <1>15, <1>16, <1>17, QuietStep

\* The free of an object ends with its reference to the parent.
LEMMA ReleaseParentStep ==
  ASSUME Inv, NEW t \in Threads, ReleaseParent(t)
  PROVE  Inv'
<1>1. Sound
  BY InvIs
<1>2. Releases(t)
  BY <1>1, ReleaseParentIs
<1>3. PICK o \in Slots, p \in Objects : o = call[t].on /\ p = object[o].parent /\ p # o
  BY <1>2 DEF Releases
<1>4. /\ call[t].op = "free" /\ ObjectsTyped /\ held' = held /\ object'[o] = NoObject /\ EndsAt(t, p)
      /\ \A x \in Objects \ {o} : SameButRefs(x) /\ object'[x].index = object[x].index
  BY <1>2, <1>3 DEF Releases
<1>5. /\ file' = file /\ medium' = medium /\ call[t].stage = "done"
      /\ history' = [history EXCEPT !.shared = @ \ {o}, !.given[o] = <<>>]
  BY <1>3 DEF ReleaseParent
<1>6. history \in [disturbed : BOOLEAN, closed : BOOLEAN, shared : SUBSET Objects,
                   given : [Objects -> Seq(Found)]]
  BY <1>1 DEF Sound, Typed
<1>7. o \in Objects /\ o # File
  BY Places
<1>8. /\ history'.disturbed = history.disturbed /\ history'.closed = history.closed
      /\ history'.shared = history.shared \ {o}
      /\ history'.given = [history.given EXCEPT ![o] = <<>>]
      /\ history' \in [disturbed : BOOLEAN, closed : BOOLEAN, shared : SUBSET Objects,
                       given : [Objects -> Seq(Found)]]
  <2>. DEFINE given == [history.given EXCEPT ![o] = <<>>]
              shared == history.shared \ {o}
  <2>1. history' = [history EXCEPT !.shared = shared, !.given = given]
    BY <1>5, <1>6
  <2>2. given \in [Objects -> Seq(Found)] /\ shared \in SUBSET Objects
    <3>1. history.given \in [Objects -> Seq(Found)] /\ history.shared \in SUBSET Objects
      BY <1>6
    <3>2. <<>> \in Seq(Found)
      OBVIOUS
    <3>. QED
      BY <3>1, <3>2
  <2>. HIDE DEF given, shared
  <2>3. /\ history'.disturbed = history.disturbed /\ history'.closed = history.closed
        /\ history'.shared = shared /\ history'.given = given
        /\ history' \in [disturbed : BOOLEAN, closed : BOOLEAN, shared : SUBSET Objects,
                         given : [Objects -> Seq(Found)]]
    BY <1>6, <2>1, <2>2
  <2>. QED
    BY <2>3 DEF given, shared
<1>9. /\ Keeps(t) /\ ~ InMethod(call'[t]) /\ call'[t].stage \in {"idle", "library"}
      /\ \A u \in Threads, x \in Objects : LibraryFreed(u, x)' <=> LibraryFreed(u, x) /\ u # t
  BY <1>1, <1>4, EndsAtKeeps
<1>10. Core'
  BY <1>1, <1>2, ReleasesCore
<1>11. Typed'
  BY <1>1, <1>4, <1>5, <1>8 DEF Sound, Typed, ObjectsTyped, EndsAt, Becomes
<1>12. Peaceful(t) /\ FoundFits(t)
  BY <1>4, <1>5, <1>9, EndsPeacefully DEF OpensHandle, ClosesHandle, FoundFits, InMethod
<1>13. \A x \in Objects : IndexStays(x) \/ IndexStarts(x)
  <2>1. IndexStarts(o)
    <3>1. ~ Alive(o)
      BY <1>3, <1>4 DEF Alive, Claims
    <3>2. \A u \in Threads : InMethod(call[u]) => call[u].on # o
      BY <1>1, <3>1, CalledLives DEF Sound, InMethod
    <3>3. \A u \in Threads : InMethod(call'[u]) => call'[u].on # o
      BY <1>9, <3>2 DEF Keeps, Stays, InMethod
    <3>. QED
      BY <1>4, <1>6, <1>7, <1>8, <3>3 DEF IndexStarts, NoObject
  <2>2. ASSUME NEW x \in Objects \ {o}
        PROVE  IndexStays(x)
    BY <1>4, <1>6, <1>8 DEF IndexStays, SameButRefs
  <2>. QED
    BY <2>1, <2>2
<1>14. \A x \in Objects : LibraryStays(x)
  <2>1. LibraryStays(o)
    BY <1>4 DEF LibraryStays, NoObject, Exists
  <2>2. ASSUME NEW x \in Objects \ {o}
        PROVE  LibraryStays(x)
    BY <1>3, <1>4, <1>9 DEF LibraryStays, SameButRefs, LibraryFreed
  <2>. QED
    BY <2>1, <2>2
<1>15. (Exists(File) => Exists(File)') /\ \A s \in Slots : object'[s].library => object[s].library
  BY <1>4, <1>7, Places DEF Exists, SameButRefs, NoObject
<1>. QED
  BY <1>5, <1>8, <1>9, <1>10, <1>11, <1>12, <1>13, <1>14, <1>15, QuietStep

\* A call without memory for its object.
LEMMA ReturnNoMemoryStep ==
  ASSUME Inv, NEW t \in Threads, ReturnNoMemory(t)
  PROVE  Inv'
<1>1. Sound
  BY InvIs
<1>2. Unmakes(t) /\ call[t].op \in Getting /\ call[t].stage = "done"
  BY <1>1, ReturnNoMemoryIs
<1>3. PICK o \in Objects, s \in Slots : o = call[t].on /\ s = call[t].slot
  BY <1>1, <1>2, CallIs DEF Unmakes, Sound
<1>4. /\ o # s /\ ObjectsTyped /\ held' = held /\ object'[s] = NoObject /\ EndsAt(t, o)
      /\ \A x \in Objects \ {s} : SameButRefs(x) /\ object'[x].index = object[x].index
  BY <1>2, <1>3 DEF Unmakes
<1>5. UNCHANGED <<file, medium, history>> /\ s \in Objects /\ s # File
  BY Places DEF ReturnNoMemory
<1>6. /\ Keeps(t) /\ ~ InMethod(call'[t]) /\ call'[t].stage \in {"idle", "library"}
      /\ \A u \in Threads, x \in Objects : LibraryFreed(u, x)' <=> LibraryFreed(u, x) /\ u # t
  BY <1>1, <1>4, EndsAtKeeps
<1>7. Core'
  BY <1>1, <1>2, UnmakesCore
<1>8. Typed'
  BY <1>1, <1>4, <1>5, TypedStays DEF Sound, Typed, EndsAt, Becomes
<1>9. Peaceful(t) /\ FoundFits(t)
  BY <1>2, <1>6, EndsPeacefully DEF OpensHandle, ClosesHandle, FoundFits, InMethod, Getting
<1>10. ~ Alive(s) /\ ~ IsSequence(s)
  <2>1. ~ Alive(s)
    BY <1>3, <1>5 DEF Alive, Claims
  <2>2. GetsPart(t) /\ Makes(t)
    BY <1>1, <1>2, <1>3, <1>5 DEF Sound, Wanted
  <2>. QED
    BY <1>3, <2>1, <2>2 DEF GetsPart, Makes, IsSequence, ClassOf
<1>11. \A x \in Objects : IndexStays(x) \/ IndexStarts(x)
  <2>1. IndexStarts(s)
    <3>1. history.given[s] = <<>>
      BY <1>5, <1>10, InvIs DEF Iteration, Bounded
    <3>2. \A u \in Threads : InMethod(call[u]) => call[u].on # s
      BY <1>1, <1>10, CalledLives DEF Sound, InMethod
    <3>3. \A u \in Threads : InMethod(call'[u]) => call'[u].on # s
      BY <1>6, <3>2 DEF Keeps, Stays, InMethod
    <3>. QED
      BY <1>4, <1>5, <3>1, <3>3 DEF IndexStarts, NoObject
  <2>2. ASSUME NEW x \in Objects \ {s}
        PROVE  IndexStays(x)
    BY <1>4, <1>5 DEF IndexStays, SameButRefs
  <2>. QED
    BY <2>1, <2>2
<1>12. \A x \in Objects : LibraryStays(x)
  <2>1. LibraryStays(s)
    BY <1>4 DEF LibraryStays, NoObject, Exists
  <2>2. ASSUME NEW x \in Objects \ {s}
        PROVE  LibraryStays(x)
    BY <1>2, <1>4, <1>6 DEF LibraryStays, SameButRefs, LibraryFreed, Getting
  <2>. QED
    BY <2>1, <2>2
<1>13. (Exists(File) => Exists(File)') /\ \A r \in Slots : object'[r].library => object[r].library
  BY <1>4, <1>5, Places DEF Exists, SameButRefs, NoObject
<1>. QED
  BY <1>5, <1>6, <1>7, <1>8, <1>9, <1>11, <1>12, <1>13, QuietStep

\* A call returns a sequence.
LEMMA ReturnSequenceStep ==
  ASSUME Inv, NEW t \in Threads, ReturnSequence(t)
  PROVE  Inv'
<1>1. Sound
  BY InvIs
<1>2. PICK s \in Slots : Collects(t, s)
  BY <1>1, ReturnSequenceIs
<1>3. PICK o \in Objects : o = call[t].on
  BY <1>1, CallIs DEF Sound
<1>4. /\ o # s /\ ~ Exists(s) /\ call[t].op = "sequence" /\ ObjectsTyped
      /\ held' \in [Objects -> 0 .. MaxHeld] /\ EndsAt(t, o)
      /\ \A x \in Objects \ {s} : object'[x].class = object[x].class /\ object'[x].index = object[x].index
           /\ object'[x].library = object[x].library
      /\ object'[s] = [NoObject EXCEPT !.class = call[t].part, !.refs = 1, !.parent = o]
  BY <1>2, <1>3 DEF Collects
<1>5. UNCHANGED <<file, medium, history>> /\ s \in Objects /\ s # File
  BY Places DEF ReturnSequence
<1>6. /\ Keeps(t) /\ ~ InMethod(call'[t]) /\ call'[t].stage \in {"idle", "library"}
      /\ \A u \in Threads, x \in Objects : LibraryFreed(u, x)' <=> LibraryFreed(u, x) /\ u # t
  BY <1>1, <1>4, EndsAtKeeps
<1>7. Core'
  BY <1>1, <1>2, CollectsCore
<1>8. Typed'
  BY <1>1, <1>4, <1>5, TypedStays DEF Sound, Typed, EndsAt, Becomes
<1>9. Peaceful(t) /\ FoundFits(t)
  BY <1>4, <1>6, EndsPeacefully DEF OpensHandle, ClosesHandle, FoundFits, InMethod
<1>10. ~ Alive(s) /\ ~ IsSequence(s) /\ object[s] = NoObject
  <2>1. object[s] = NoObject
    BY <1>1, <1>4, <1>5 DEF Sound, Gone
  <2>. QED
    BY <1>4, <2>1, ClassesAre DEF Alive, IsSequence, NoObject
<1>11. call[t].part \in Sequences
  BY <1>1, <1>4 DEF Sound, Wanted, GetsSequence
<1>12. object'[s].class \in Sequences /\ ~ object'[s].library /\ object'[s].index = 0
  BY <1>4, <1>11 DEF NoObject
<1>13. \A x \in Objects : IndexStays(x) \/ IndexStarts(x)
  <2>1. IndexStarts(s)
    <3>1. history.given[s] = <<>>
      BY <1>5, <1>10, InvIs DEF Iteration, Bounded
    <3>2. \A u \in Threads : InMethod(call[u]) => call[u].on # s
      BY <1>1, <1>10, CalledLives DEF Sound, InMethod
    <3>3. \A u \in Threads : InMethod(call'[u]) => call'[u].on # s
      BY <1>6, <3>2 DEF Keeps, Stays, InMethod
    <3>. QED
      BY <1>5, <1>12, <3>1, <3>3 DEF IndexStarts
  <2>2. ASSUME NEW x \in Objects \ {s}
        PROVE  IndexStays(x)
    BY <1>4, <1>5 DEF IndexStays
  <2>. QED
    BY <2>1, <2>2
<1>14. \A x \in Objects : LibraryStays(x)
  <2>1. LibraryStays(s)
    BY <1>12 DEF LibraryStays, IsSequence
  <2>2. ASSUME NEW x \in Objects \ {s}
        PROVE  LibraryStays(x)
    BY <1>4, <1>6 DEF LibraryStays, LibraryFreed
  <2>. QED
    BY <2>1, <2>2
<1>15. (Exists(File) => Exists(File)') /\ \A r \in Slots : object'[r].library => object[r].library
  BY <1>4, <1>5, <1>12, Places DEF Exists
<1>. QED
  BY <1>5, <1>6, <1>7, <1>8, <1>9, <1>13, <1>14, <1>15, QuietStep

\* A call returns a part; an iteration goes on by one item.
LEMMA GaveIs ==
  ASSUME Typed, NEW t \in Threads
  PROVE  /\ Gave(t) \in [disturbed : BOOLEAN, closed : BOOLEAN, shared : SUBSET Objects,
                         given : [Objects -> Seq(Found)]]
         /\ Gave(t).disturbed = history.disturbed /\ Gave(t).closed = history.closed
         /\ Gave(t).shared = history.shared
         /\ \A x \in Objects :
              Gave(t).given[x] = IF call[t].op = "next" /\ call[t].on = x /\ x \notin history.shared
                                 THEN Append(history.given[x], call[t].found) ELSE history.given[x]
<1>1. history \in [disturbed : BOOLEAN, closed : BOOLEAN, shared : SUBSET Objects,
                   given : [Objects -> Seq(Found)]]
  BY DEF Typed
<1>2. call[t].on \in Objects /\ call[t].found \in Found
  BY CallIs
<1>3. CASE call[t].op = "next" /\ call[t].on \notin history.shared
  <2>. DEFINE o == call[t].on
              given == [history.given EXCEPT ![o] = Append(history.given[o], call[t].found)]
  <2>1. Gave(t) = [history EXCEPT !.given = given]
    BY <1>1, <1>3 DEF Gave
  <2>2. history.given \in [Objects -> Seq(Found)]
    BY <1>1
  <2>3. Append(history.given[o], call[t].found) \in Seq(Found)
    <3>1. history.given[o] \in Seq(Found)
      BY <1>2, <2>2
    <3>. QED
      BY <1>2, <3>1
  <2>4. /\ given \in [Objects -> Seq(Found)]
        /\ \A x \in Objects : given[x] = IF o = x THEN Append(history.given[x], call[t].found)
                                         ELSE history.given[x]
    BY <1>2, <2>2, <2>3
  <2>. HIDE DEF given
  <2>5. /\ Gave(t) \in [disturbed : BOOLEAN, closed : BOOLEAN, shared : SUBSET Objects,
                        given : [Objects -> Seq(Found)]]
        /\ Gave(t).disturbed = history.disturbed /\ Gave(t).closed = history.closed
        /\ Gave(t).shared = history.shared /\ Gave(t).given = given
    BY <1>1, <2>1, <2>4
  <2>. QED
    BY <1>3, <2>4, <2>5
<1>4. CASE ~ (call[t].op = "next" /\ call[t].on \notin history.shared)
  BY <1>1, <1>4 DEF Gave
<1>. QED
  BY <1>3, <1>4

\* The items in order and the next one are in order.
LEMMA NextItem ==
  ASSUME NEW n \in Nat, NEW given, given = [i \in 1 .. n |-> i - 1]
  PROVE  Append(given, n) = [i \in 1 .. n + 1 |-> i - 1]
<1>1. given \in Seq(Int) /\ Len(given) = n
  OBVIOUS
<1>. DEFINE longer == Append(given, n)
            wanted == [i \in 1 .. n + 1 |-> i - 1]
<1>2. longer \in Seq(Int) /\ Len(longer) = n + 1
  BY <1>1
<1>3. \A i \in 1 .. n : longer[i] = i - 1
  BY <1>1
<1>4. longer[n + 1] = n
  BY <1>1
<1>5. wanted \in Seq(Int) /\ Len(wanted) = n + 1 /\ \A i \in 1 .. n + 1 : wanted[i] = i - 1
  OBVIOUS
<1>. HIDE DEF longer, wanted
<1>6. \A i \in 1 .. n + 1 : longer[i] = wanted[i]
  BY <1>3, <1>4, <1>5
<1>7. longer = wanted
  BY <1>2, <1>5, <1>6
<1>. QED
  BY <1>7 DEF longer, wanted

\* The items stay in order when a sequence hands one out and gets on.
LEMMA IterationGoesOn ==
  ASSUME Sound, Iteration, Typed', NEW t \in Threads, Keeps(t), NEW o \in Objects, o = call[t].on,
         call[t].op = "next", call[t].stage = "done", ~ InMethod(call'[t]), IsSequence(o),
         object'[o].index = object[o].index + 1, object'[o].class = object[o].class,
         history'.shared = history.shared,
         history'.given[o] = IF o \in history.shared THEN history.given[o]
                             ELSE Append(history.given[o], call[t].found),
         \A x \in Objects \ {o} : IndexStays(x)
  PROVE  Iteration'
<1>1. Bounded'
  <2>1. ASSUME NEW x \in Objects
        PROVE  /\ object'[x].index + Cardinality(Nexts(x)') <= Items + Cardinality(Threads) - 1
               /\ ~ IsSequence(x)' => object'[x].index = 0 /\ history'.given[x] = <<>>
    <3>1. /\ object[x].index + Cardinality(Nexts(x)) <= Items + Cardinality(Threads) - 1
          /\ ~ IsSequence(x) => object[x].index = 0 /\ history.given[x] = <<>>
      BY DEF Iteration, Bounded
    <3>2. object[x].index \in Nat /\ Cardinality(Nexts(x)) \in Nat /\ IsFiniteSet(Nexts(x))
      BY ObjectIs, NextsAre DEF Sound
    <3>3. Cardinality(Nexts(x)') \in Nat
          /\ object'[x].index + Cardinality(Nexts(x)') <= object[x].index + Cardinality(Nexts(x))
      <4>1. CASE x = o
        <5>1. t \in Nexts(o) /\ Nexts(o)' = Nexts(o) \ {t}
          BY DEF Nexts, Keeps, Stays, InMethod
        <5>. DEFINE m == Cardinality(Nexts(o))
                    n == Cardinality(Nexts(o)')
        <5>2. n = m - 1
          BY <3>2, <4>1, <5>1, OneLess
        <5>3. n \in Nat /\ m \in Nat
          BY <3>2, <4>1, FewerNexts
        <5>. HIDE DEF n, m
        <5>4. n \in Nat /\ object'[o].index + n <= object[o].index + m
          BY <3>2, <4>1, <5>2, <5>3
        <5>. QED
          BY <4>1, <5>4 DEF n, m
      <4>2. CASE x # o
        BY <3>2, <4>2, FewerNexts DEF IndexStays
      <4>. QED
        BY <4>1, <4>2
    <3>. DEFINE n == Cardinality(Nexts(x)')
                m == Cardinality(Nexts(x))
                k == Cardinality(Threads)
    <3>4. k \in Nat /\ Items \in Nat /\ n \in Nat /\ m \in Nat /\ object'[x].index \in Nat
      BY <3>2, <3>3, SomeThread, BoundsAssumption DEF Typed, ObjectRecord
    <3>5. object'[x].index + n <= object[x].index + m /\ object[x].index + m <= Items + k - 1
      BY <3>1, <3>3
    <3>. HIDE DEF n, m, k
    <3>6. object'[x].index + n <= Items + k - 1
      BY <3>2, <3>4, <3>5
    <3>7. object'[x].index + Cardinality(Nexts(x)') <= Items + Cardinality(Threads) - 1
      BY <3>6 DEF n, k
    <3>8. ~ IsSequence(x)' => object'[x].index = 0 /\ history'.given[x] = <<>>
      BY <3>1 DEF IndexStays, IsSequence
    <3>. QED
      BY <3>7, <3>8
  <2>. QED
    BY <2>1 DEF Bounded
<1>2. ASSUME NEW x \in Slots, IsSequence(x)', x \notin history'.shared
      PROVE  /\ \A u, v \in Calling(x)' : u = v
             /\ \A u \in Calling(x)' : call'[u].op = "next" /\ call'[u].stage = "done" =>
                  call'[u].found = object'[x].index
             /\ history'.given[x] = [i \in 1 .. object'[x].index |-> i - 1]
  <2>1. x \in Objects /\ IsSequence(x) /\ x \notin history.shared
    BY <1>2, Places DEF IndexStays, IsSequence
  <2>2. /\ \A u, v \in Calling(x) : u = v
        /\ \A u \in Calling(x) :
             call[u].op = "next" /\ call[u].stage = "done" => call[u].found = object[x].index
        /\ history.given[x] = [i \in 1 .. object[x].index |-> i - 1]
    BY <2>1 DEF Iteration, Iterated, ItemsInOrder
  <2>3. Calling(x)' \subseteq Calling(x) \ {t}
    BY DEF Calling, Keeps, Stays, Busy, InMethod
  <2>4. CASE x = o
    <3>1. t \in Calling(o)
      BY CallingIs DEF InMethod
    <3>2. Calling(x)' = {}
      BY <2>2, <2>3, <2>4, <3>1
    <3>3. call[t].found = object[o].index /\ object[o].index \in Nat
      BY <2>2, <2>4, <3>1, ObjectIs DEF Sound
    <3>4. history'.given[o] = Append(history.given[o], object[o].index)
      BY <2>1, <2>4, <3>3
    <3>5. history'.given[o] = [i \in 1 .. object[o].index + 1 |-> i - 1]
      BY <2>2, <2>4, <3>3, <3>4, NextItem
    <3>. QED
      BY <2>4, <3>2, <3>5
  <2>5. CASE x # o
    <3>1. object'[x].index = object[x].index /\ history'.given[x] = history.given[x]
      BY <2>1, <2>5 DEF IndexStays
    <3>2. ASSUME NEW u \in Calling(x)', call'[u].op = "next", call'[u].stage = "done"
          PROVE  call'[u].found = object'[x].index
      <4>1. u \in Calling(x) /\ u \in Threads \ {t}
        BY <2>3, CallingIs
      <4>. QED
        BY <2>2, <3>1, <3>2, <4>1 DEF Keeps, Stays
    <3>. QED
      BY <2>2, <2>3, <3>1, <3>2
  <2>. QED
    BY <2>4, <2>5
<1>3. Iterated' /\ ItemsInOrder'
  BY <1>2 DEF Iterated, ItemsInOrder
<1>. QED
  BY <1>1, <1>3 DEF Iteration

\* Handing out a new object keeps the invariant.
LEMMA ReturnPartStep ==
  ASSUME Inv, NEW t \in Threads, ReturnPart(t)
  PROVE  Inv'
<1>1. Sound /\ LibraryKept /\ HandleGroup /\ Iteration /\ Reading
  BY InvIs
<1>2. Wraps(t) /\ call[t].op \in Getting /\ call[t].stage = "done"
  BY <1>1, ReturnPartIs
<1>3. PICK o \in Objects, s \in Objects : o = call[t].on /\ s = call[t].slot
  BY <1>1, CallIs DEF Sound
<1>4. /\ s \in Slots /\ s # o /\ ObjectsTyped /\ held' \in [Objects -> 0 .. MaxHeld] /\ EndsAt(t, o)
      /\ \A x \in Objects :
           /\ SameButRefs(x)
           /\ object'[x].index = object[x].index + (IF call[t].op = "next" /\ x = o THEN 1 ELSE 0)
  BY <1>2, <1>3 DEF Wraps
<1>5. file' = file /\ medium' = medium /\ history' = Gave(t)
  BY DEF ReturnPart
<1>6. /\ history' \in [disturbed : BOOLEAN, closed : BOOLEAN, shared : SUBSET Objects,
                       given : [Objects -> Seq(Found)]]
      /\ history'.disturbed = history.disturbed /\ history'.closed = history.closed
      /\ history'.shared = history.shared
      /\ \A x \in Objects :
           history'.given[x] = IF call[t].op = "next" /\ o = x /\ x \notin history.shared
                               THEN Append(history.given[x], call[t].found) ELSE history.given[x]
  BY <1>1, <1>3, <1>5, GaveIs DEF Sound
<1>7. /\ Keeps(t) /\ ~ InMethod(call'[t]) /\ call'[t].stage \in {"idle", "library"}
      /\ \A u \in Threads, x \in Objects : LibraryFreed(u, x)' <=> LibraryFreed(u, x) /\ u # t
  BY <1>1, <1>4, EndsAtKeeps
<1>8. Core'
  BY <1>1, <1>2, WrapsCore
<1>9. Typed'
  BY <1>1, <1>4, <1>5, <1>6 DEF Sound, Typed, ObjectsTyped, EndsAt, Becomes
<1>10. Peaceful(t) /\ FoundFits(t)
  BY <1>2, <1>7, EndsPeacefully DEF OpensHandle, ClosesHandle, FoundFits, InMethod, Getting
<1>11. \A x \in Objects : LibraryStays(x)
  BY <1>2, <1>4, <1>7 DEF LibraryStays, SameButRefs, LibraryFreed, Getting
<1>12. (Exists(File) => Exists(File)') /\ \A r \in Slots : object'[r].library => object[r].library
  BY <1>4, Places DEF Exists, SameButRefs
<1>13. LibraryKept'
  BY <1>1, <1>5, <1>6, <1>11, <1>12, LibraryStaysKept
<1>14. HandleGroup'
  BY <1>1, <1>5, <1>6, <1>7, <1>10, <1>12, HandleStays
<1>15. Reading'
  BY <1>1, <1>5, <1>7, ReadingStays
<1>16. Iteration'
  <2>1. CASE call[t].op = "next"
    <3>1. IsSequence(o)
      <4>1. GetsPart(t)
        BY <1>1, <2>1 DEF Sound, Wanted, Getting
      <4>. QED
        BY <1>3, <2>1, <4>1 DEF GetsPart
    <3>2. object[o].index \in Nat
      BY <1>1, ObjectIs DEF Sound
    <3>3. \A x \in Objects : object[x].index \in Nat
      BY <1>1, ObjectIs DEF Sound
    <3>4. \A x \in Objects \ {o} : IndexStays(x)
      BY <1>4, <1>6, <3>3 DEF IndexStays, SameButRefs
    <3>5. object'[o].index = object[o].index + 1 /\ object'[o].class = object[o].class
      BY <1>4, <2>1 DEF SameButRefs
    <3>6. history'.given[o] = IF o \in history.shared THEN history.given[o]
                              ELSE Append(history.given[o], call[t].found)
      BY <1>6, <2>1
    <3>. QED
      BY <1>1, <1>2, <1>3, <1>6, <1>7, <1>9, <2>1, <3>1, <3>4, <3>5, <3>6, IterationGoesOn
  <2>2. CASE call[t].op # "next"
    <3>1. \A x \in Objects : object[x].index \in Nat
      BY <1>1, ObjectIs DEF Sound
    <3>2. \A x \in Objects : IndexStays(x)
      BY <1>4, <1>6, <2>2, <3>1 DEF IndexStays, SameButRefs
    <3>. QED
      BY <1>1, <1>7, <1>9, <1>10, <3>2, IterationStays
  <2>. QED
    BY <2>1, <2>2
<1>. QED
  BY <1>8, <1>9, <1>13, <1>14, <1>15, <1>16, InvNext

\* A call begins.
LEMMA NotedIs ==
  ASSUME Typed, NEW t \in Threads, NEW o \in Objects, NEW op
  PROVE  /\ Noted(t, o, op) \in [disturbed : BOOLEAN, closed : BOOLEAN, shared : SUBSET Objects,
                                 given : [Objects -> Seq(Found)]]
         /\ Noted(t, o, op).disturbed <=>
              history.disturbed \/ (Others(t) # {} /\ (Settles(op) \/ \E u \in Others(t) : Settles(call[u].op)))
         /\ Noted(t, o, op).closed = history.closed
         /\ history.shared \subseteq Noted(t, o, op).shared
         /\ o \notin Noted(t, o, op).shared /\ IsSequence(o) => \A u \in Others(t) : call[u].on # o
         /\ \A x \in Objects \ {o} : Noted(t, o, op).given[x] = history.given[x]
         /\ Noted(t, o, op).given[o] \in {history.given[o], <<>>}
         /\ o \notin Noted(t, o, op).shared => Noted(t, o, op).given[o] = history.given[o]
<1>. DEFINE both == IsSequence(o) /\ \E u \in Others(t) : call[u].on = o
            disturbed == history.disturbed
                         \/ (Others(t) # {} /\ (Settles(op) \/ \E u \in Others(t) : Settles(call[u].op)))
            shared == IF both THEN history.shared \cup {o} ELSE history.shared
            new == IF both THEN <<>> ELSE history.given[o]
            given == [history.given EXCEPT ![o] = new]
            H == [disturbed : BOOLEAN, closed : BOOLEAN, shared : SUBSET Objects,
                  given : [Objects -> Seq(Found)]]
<1>1. history \in H
  BY DEF Typed
<1>2. history.shared \in SUBSET Objects /\ history.given \in [Objects -> Seq(Found)]
      /\ history.given[o] \in Seq(Found)
  <2>1. history.shared \in SUBSET Objects /\ history.given \in [Objects -> Seq(Found)]
    BY <1>1
  <2>. QED
    BY <2>1
<1>3. Noted(t, o, op) = [history EXCEPT !.disturbed = disturbed, !.shared = shared, !.given = given]
  BY <1>1, Zenon DEF Noted
<1>4. shared \in SUBSET Objects /\ history.shared \subseteq shared /\ (both => o \in shared)
  BY <1>2
<1>5. new \in Seq(Found) /\ new \in {history.given[o], <<>>} /\ (~ both => new = history.given[o])
  <2>1. <<>> \in Seq(Found)
    OBVIOUS
  <2>. QED
    BY <1>2, <2>1
<1>6. /\ given \in [Objects -> Seq(Found)] /\ given[o] = new
      /\ \A x \in Objects \ {o} : given[x] = history.given[x]
  <2>. HIDE DEF new
  <2>. QED
    BY <1>2, <1>5
<1>7. disturbed \in BOOLEAN
  BY <1>1
<1>8. ~ both /\ IsSequence(o) => \A u \in Others(t) : call[u].on # o
  OBVIOUS
<1>. HIDE DEF both, shared, new, given, disturbed
<1>9. /\ Noted(t, o, op) \in H /\ Noted(t, o, op).closed = history.closed
      /\ Noted(t, o, op).shared = shared /\ Noted(t, o, op).given = given
  BY <1>1, <1>3, <1>4, <1>6, <1>7
<1>10. Noted(t, o, op).disturbed = disturbed
  <2>1. history = [disturbed |-> history.disturbed, closed |-> history.closed, shared |-> history.shared,
                   given |-> history.given]
    BY <1>1
  <2>. QED
    BY <1>1, <1>3, <2>1, Zenon
<1>11. Noted(t, o, op).disturbed <=> disturbed
  BY <1>10, Zenon
<1>. QED
  BY <1>4, <1>5, <1>6, <1>8, <1>9, <1>11 DEF disturbed

\* What begins with a call: the calls of the other threads are no longer alone.
LEMMA BeginsKeeps ==
  ASSUME Sound, NEW t \in Threads, NEW o, NEW op, NEW part, Begins(t, o, op, part)
  PROVE  /\ o \in Objects /\ op \notin {"none", "free"} /\ (Settles(op) => o = File)
         /\ call[t].op = "none" /\ Exists(o) /\ MayUse(o, op) /\ history' = Noted(t, o, op)
         /\ ObjectsTyped /\ held' = held /\ call' \in [Threads -> CallRecord]
         /\ \A x \in Objects : SameButRefs(x) /\ object'[x].index = object[x].index
         /\ \A u \in Threads \ {t} : Stays(u) /\ (call[u].op # "none" => ~ call'[u].alone)
         /\ call'[t].op = op /\ call'[t].on = o /\ call'[t].stage = "library" /\ call'[t].slot = File
         /\ (call'[t].alone <=> Others(t) = {})
         /\ (op = "next" => object[o].index < Items)
<1>1. /\ o \in Objects /\ op \in Ops /\ part \in Classes /\ op \notin {"none", "free"}
      /\ Begin(t, o, op, part) /\ held' = held /\ (Settles(op) => o = File)
      /\ (op = "next" => object[o].index < Items)
  BY DEF Begins
<1>2. /\ call[t].op = "none" /\ Exists(o) /\ MayUse(o, op) /\ history' = Noted(t, o, op)
      /\ ObjectsTyped /\ call' \in [Threads -> CallRecord]
      /\ \A x \in Objects \ {o} : object'[x] = object[x]
      /\ object'[o] = [object[o] EXCEPT !.refs = @ + 1]
      /\ \A u \in Threads \ {t} : call'[u] = [call[u] EXCEPT !.alone = call'[u].alone]
      /\ \A u \in Threads \ {t} : call[u].op # "none" => ~ call'[u].alone
      /\ \A u \in Threads \ {t} : call[u].op = "none" => call'[u] = call[u]
      /\ call'[t].op = op /\ call'[t].on = o /\ call'[t].stage = "library" /\ call'[t].slot = File
      /\ (call'[t].alone <=> Others(t) = {})
  BY <1>1, BeginIs DEF Sound, ObjectsTyped
<1>3. \A x \in Objects : SameButRefs(x) /\ object'[x].index = object[x].index
  <2>1. object[o] \in ObjectRecord
    BY <1>1, ObjectIs DEF Sound
  <2>. QED
    BY <1>2, <2>1 DEF SameButRefs, ObjectRecord
<1>4. ASSUME NEW u \in Threads \ {t}
      PROVE  Stays(u) /\ (call[u].op # "none" => ~ call'[u].alone)
  <2>1. call[u] \in CallRecord
    BY CallIs DEF Sound
  <2>2. /\ call'[u].op = call[u].op /\ call'[u].on = call[u].on /\ call'[u].stage = call[u].stage
        /\ call'[u].slot = call[u].slot /\ call'[u].offset = call[u].offset /\ call'[u].found = call[u].found
    BY <1>2, <2>1 DEF CallRecord
  <2>3. call[u].op # "none" => ~ call'[u].alone
    BY <1>2
  <2>4. call'[u].alone => call[u].alone
    BY <1>2
  <2>. QED
    BY <2>2, <2>3, <2>4 DEF Stays
<1>. QED
  BY <1>1, <1>2, <1>3, <1>4

\* The other threads that are in a call.
LEMMA OthersAre == \A t, u : u \in Others(t) <=> u \in Threads \ {t} /\ call[u].op # "none"
BY DEF Others, Busy

\* The file of a call that begins: with a file object there is a handle.
FileBegins(op) ==
  IF op = "open file object"
  THEN /\ ~ file.handle /\ file' = [file EXCEPT !.handle = TRUE]
       /\ medium' = [medium EXCEPT !.refs = @ + 1]
  ELSE file' = file /\ medium' = medium

\* What opening a file object does to the file before its call enters the library.
LEMMA FileBeginsIs ==
  ASSUME Typed, NEW op, FileBegins(op)
  PROVE  /\ file' \in [open : BOOLEAN, using : {"none", "own", "handle"}, handle : BOOLEAN]
         /\ medium' \in [refs : Int, offset : {0} \cup Offsets]
         /\ file'.open = file.open /\ file'.using = file.using /\ medium'.offset = medium.offset
         /\ op = "open file object" =>
              ~ file.handle /\ file'.handle /\ medium'.refs = medium.refs + 1
         /\ op # "open file object" => file' = file /\ medium' = medium
<1>1. file \in [open : BOOLEAN, using : {"none", "own", "handle"}, handle : BOOLEAN]
      /\ medium \in [refs : Int, offset : {0} \cup Offsets]
  BY DEF Typed
<1>2. CASE op = "open file object"
  <2>1. /\ ~ file.handle /\ file' = [file EXCEPT !.handle = TRUE]
        /\ medium' = [medium EXCEPT !.refs = medium.refs + 1]
    BY <1>1, <1>2 DEF FileBegins
  <2>2. /\ file' \in [open : BOOLEAN, using : {"none", "own", "handle"}, handle : BOOLEAN]
        /\ file'.open = file.open /\ file'.using = file.using /\ file'.handle
    BY <1>1, <2>1
  <2>3. medium.refs + 1 \in Int
    BY <1>1
  <2>4. /\ medium' \in [refs : Int, offset : {0} \cup Offsets]
        /\ medium'.offset = medium.offset /\ medium'.refs = medium.refs + 1
    BY <1>1, <2>1, <2>3
  <2>. QED
    BY <1>2, <2>1, <2>2, <2>4
<1>3. CASE op # "open file object"
  BY <1>1, <1>3 DEF FileBegins
<1>. QED
  BY <1>2, <1>3

\* A call that begins keeps the handle.
LEMMA BeginsHandle ==
  ASSUME Sound, HandleGroup, NEW t \in Threads, NEW o, NEW op, NEW part, Begins(t, o, op, part), FileBegins(op)
  PROVE  HandleGroup'
<1>1. /\ o \in Objects /\ op \notin {"none", "free"} /\ (Settles(op) => o = File)
      /\ call[t].op = "none" /\ Exists(o) /\ history' = Noted(t, o, op)
      /\ \A x \in Objects : SameButRefs(x)
      /\ \A u \in Threads \ {t} : Stays(u)
      /\ call'[t].op = op /\ call'[t].on = o /\ call'[t].stage = "library"
  BY BeginsKeeps
<1>2. /\ file'.open = file.open /\ file'.using = file.using
      /\ op = "open file object" => ~ file.handle /\ file'.handle /\ medium'.refs = medium.refs + 1
      /\ op # "open file object" => file' = file /\ medium' = medium
  BY FileBeginsIs DEF Sound
<1>3. medium.refs \in Int
  BY DEF Sound, Typed
<1>4. history'.disturbed <=>
        history.disturbed \/ (Others(t) # {} /\ (Settles(op) \/ \E u \in Others(t) : Settles(call[u].op)))
  BY <1>1, NotedIs DEF Sound
<1>5. Exists(File)' <=> Exists(File)
  BY <1>1, Places DEF SameButRefs, Exists
<1>6. HandleOwned'
  <2>1. ASSUME file'.handle, ~ file'.open
        PROVE  \E u \in Threads : OpensHandle(u)' \/ ClosesHandle(u)'
    <3>1. CASE op = "open file object"
      BY <1>1, <3>1 DEF OpensHandle
    <3>2. CASE op # "open file object"
      <4>1. PICK u \in Threads : OpensHandle(u) \/ ClosesHandle(u)
        BY <1>2, <2>1, <3>2 DEF HandleGroup, HandleOwned
      <4>2. u # t
        BY <1>1, <4>1 DEF OpensHandle, ClosesHandle
      <4>. QED
        BY <1>1, <4>1, <4>2 DEF Stays, OpensHandle, ClosesHandle
    <3>. QED
      BY <3>1, <3>2
  <2>. QED
    BY <2>1 DEF HandleOwned
<1>7. FileFreed'
  <2>1. ~ Exists(File)' => ~ file'.open /\ ~ file'.handle
    <3>1. op = "open file object" => Exists(File)
      BY <1>1 DEF Settles
    <3>. QED
      BY <1>2, <1>5, <3>1 DEF HandleGroup, FileFreed
  <2>2. ASSUME NEW u \in Threads, call'[u].op = "free", call'[u].stage = "handle"
        PROVE  ~ file'.open
    <3>1. u # t
      BY <1>1, <2>2
    <3>2. call[u].op = "free" /\ call[u].stage = "handle"
      BY <1>1, <2>2, <3>1 DEF Stays
    <3>. QED
      BY <1>2, <3>2 DEF HandleGroup, FileFreed
  <2>. QED
    BY <2>1, <2>2 DEF FileFreed
<1>8. Undisturbed'
  <2>1. ASSUME ~ history'.disturbed, NEW u \in Threads
        PROVE  /\ Settles(call'[u].op) => InCallBesides(u)' = {}
               /\ OpensHandle(u)' => ~ (file'.open /\ file'.using = "handle") /\ file'.handle
               /\ call'[u].op = "close" /\ call'[u].stage \in {"done", "handle", "freed"} => ~ file'.open
    <3>1. ~ history.disturbed
      BY <1>4, <2>1
    <3>2. Others(t) = {} \/ (~ Settles(op) /\ \A w \in Others(t) : ~ Settles(call[w].op))
      BY <1>4, <2>1
    <3>3. CASE u = t
      <4>1. Settles(op) => InCallBesides(u)' = {}
        <5>1. Settles(op) => \A w \in Threads \ {t} : call[w].op = "none"
          BY <3>2, OthersAre
        <5>. QED
          BY <1>1, <3>3, <5>1 DEF InCallBesides, Stays
      <4>2. OpensHandle(u)' => ~ (file'.open /\ file'.using = "handle") /\ file'.handle
        BY <1>1, <1>2, <3>1, <3>3 DEF OpensHandle, HandleGroup, HandleOutlivesItsUse
      <4>. QED
        BY <1>1, <3>3, <4>1, <4>2
    <3>4. CASE u # t
      <4>1. call'[u].op = call[u].op /\ call'[u].stage = call[u].stage
        BY <1>1, <3>4 DEF Stays
      <4>2. ~ Settles(call[u].op)
        <5>1. Settles(call[u].op) => call[u].op # "none"
          BY DEF Settles
        <5>2. Settles(call[u].op) => u \in Others(t)
          BY <3>4, <5>1, OthersAre
        <5>. QED
          BY <3>2, <5>2
      <4>. QED
        BY <4>1, <4>2 DEF OpensHandle, Settles
    <3>. QED
      BY <3>3, <3>4
  <2>. QED
    BY <2>1 DEF Undisturbed
<1>9. HandleOutlivesItsUse'
  BY <1>2, <1>4 DEF HandleGroup, HandleOutlivesItsUse
<1>10. FileObjectIsKept'
  <2>1. medium.refs = 1 + (IF file.handle THEN 1 ELSE 0)
    BY DEF HandleGroup, FileObjectIsKept
  <2>2. CASE op = "open file object"
    <3>1. ~ file.handle /\ file'.handle /\ medium'.refs = medium.refs + 1
      BY <1>2, <2>2
    <3>. QED
      BY <2>1, <3>1 DEF FileObjectIsKept
  <2>3. CASE op # "open file object"
    BY <1>2, <2>1, <2>3 DEF FileObjectIsKept
  <2>. QED
    BY <2>2, <2>3
<1>. QED
  BY <1>6, <1>7, <1>8, <1>9, <1>10 DEF HandleGroup

\* A call that begins keeps the items in order: two threads in next make the sequence shared.
LEMMA BeginsIteration ==
  ASSUME Sound, Iteration, Typed', NEW t \in Threads, NEW o, NEW op, NEW part, Begins(t, o, op, part)
  PROVE  Iteration'
<1>1. /\ o \in Objects /\ call[t].op = "none" /\ history' = Noted(t, o, op)
      /\ \A x \in Objects : SameButRefs(x) /\ object'[x].index = object[x].index
      /\ \A u \in Threads \ {t} : Stays(u)
      /\ call'[t].op = op /\ call'[t].on = o /\ call'[t].stage = "library"
      /\ op = "next" => object[o].index < Items
  BY BeginsKeeps
<1>2. /\ history.shared \subseteq history'.shared
      /\ o \notin history'.shared /\ IsSequence(o) => \A u \in Others(t) : call[u].on # o
      /\ \A x \in Objects \ {o} : history'.given[x] = history.given[x]
      /\ history'.given[o] \in {history.given[o], <<>>}
      /\ o \notin history'.shared => history'.given[o] = history.given[o]
  BY <1>1, NotedIs DEF Sound
<1>3. Bounded'
  <2>1. ASSUME NEW x \in Objects
        PROVE  /\ object'[x].index + Cardinality(Nexts(x)') <= Items + Cardinality(Threads) - 1
               /\ ~ IsSequence(x)' => object'[x].index = 0 /\ history'.given[x] = <<>>
    <3>1. /\ object[x].index + Cardinality(Nexts(x)) <= Items + Cardinality(Threads) - 1
          /\ ~ IsSequence(x) => object[x].index = 0 /\ history.given[x] = <<>>
      BY DEF Iteration, Bounded
    <3>2. object'[x].index = object[x].index /\ (IsSequence(x)' <=> IsSequence(x)) /\ object[x].index \in Nat
      BY <1>1, ObjectIs DEF SameButRefs, IsSequence, Sound
    <3>3. object'[x].index + Cardinality(Nexts(x)') <= Items + Cardinality(Threads) - 1
      <4>1. CASE op = "next" /\ x = o
        <5>1. Nexts(x)' \subseteq Threads
          BY DEF Nexts
        <5>. DEFINE n == Cardinality(Nexts(x)')
                    k == Cardinality(Threads)
        <5>2. n \in Nat /\ n <= k /\ k \in Nat
          BY <5>1, SomeThreads, SomeThread
        <5>3. object'[x].index + 1 <= Items /\ Items \in Nat /\ object'[x].index \in Nat
          BY <1>1, <3>2, <4>1, BoundsAssumption
        <5>. HIDE DEF n, k
        <5>4. object'[x].index + n <= Items + k - 1
          BY <5>2, <5>3
        <5>. QED
          BY <5>4 DEF n, k
      <4>2. CASE ~ (op = "next" /\ x = o)
        <5>1. \A u \in Threads :
                 call'[u].op = "next" /\ call'[u].on = x <=> call[u].op = "next" /\ call[u].on = x
          BY <1>1, <4>2 DEF Stays
        <5>2. Nexts(x)' = Nexts(x)
          BY <5>1 DEF Nexts
        <5>. QED
          BY <3>1, <3>2, <5>2
      <4>. QED
        BY <4>1, <4>2
    <3>4. ~ IsSequence(x)' => object'[x].index = 0 /\ history'.given[x] = <<>>
      BY <1>2, <3>1, <3>2
    <3>. QED
      BY <3>3, <3>4
  <2>. QED
    BY <2>1 DEF Bounded
<1>4. ASSUME NEW x \in Slots, IsSequence(x)', x \notin history'.shared
      PROVE  /\ \A u, v \in Calling(x)' : u = v
             /\ \A u \in Calling(x)' : call'[u].op = "next" /\ call'[u].stage = "done" =>
                  call'[u].found = object'[x].index
             /\ history'.given[x] = [i \in 1 .. object'[x].index |-> i - 1]
  <2>1. x \in Objects /\ IsSequence(x) /\ x \notin history.shared /\ object'[x].index = object[x].index
    BY <1>1, <1>2, <1>4, Places DEF SameButRefs, IsSequence
  <2>2. /\ \A u, v \in Calling(x) : u = v
        /\ \A u \in Calling(x) :
             call[u].op = "next" /\ call[u].stage = "done" => call[u].found = object[x].index
        /\ history.given[x] = [i \in 1 .. object[x].index |-> i - 1]
    BY <2>1 DEF Iteration, Iterated, ItemsInOrder
  <2>3. history'.given[x] = history.given[x]
    BY <1>2, <1>4, <2>1
  <2>4. CASE x = o
    <3>1. \A u \in Calling(x)' : u = t
      <4>1. \A u \in Threads \ {t} : call[u].op # "none" => call[u].on # o
        BY <1>2, <1>4, <2>1, <2>4, OthersAre
      <4>2. \A u \in Threads \ {t} : InMethod(call'[u]) => call'[u].on # o
        BY <1>1, <4>1 DEF Stays, InMethod
      <4>. QED
        BY <2>4, <4>2, CallingNext
    <3>. QED
      BY <1>1, <2>1, <2>2, <2>3, <3>1
  <2>5. CASE x # o
    <3>1. Calling(x)' \subseteq Calling(x) /\ t \notin Calling(x)'
      BY <1>1, <2>5 DEF Calling, Stays, Busy
    <3>2. ASSUME NEW u \in Calling(x)', call'[u].op = "next", call'[u].stage = "done"
          PROVE  call'[u].found = object'[x].index
      <4>1. u \in Calling(x) /\ u \in Threads \ {t}
        BY <3>1, CallingIs
      <4>. QED
        BY <1>1, <2>1, <2>2, <3>2, <4>1 DEF Stays
    <3>. QED
      BY <2>1, <2>2, <2>3, <3>1, <3>2
  <2>. QED
    BY <2>4, <2>5
<1>5. Iterated' /\ ItemsInOrder'
  BY <1>4 DEF Iterated, ItemsInOrder
<1>. QED
  BY <1>3, <1>5 DEF Iteration

\* A call that begins keeps what a read relies on.
LEMMA BeginsReading ==
  ASSUME Sound, Reading, NEW t \in Threads, NEW o, NEW op, NEW part, Begins(t, o, op, part),
         medium'.offset = medium.offset
  PROVE  Reading'
<1>1. /\ \A u \in Threads \ {t} : Stays(u) /\ (call[u].op # "none" => ~ call'[u].alone)
      /\ call'[t].op = op /\ call'[t].on = o /\ call'[t].stage = "library"
      /\ (call'[t].alone <=> Others(t) = {})
  BY BeginsKeeps
<1>2. ASSUME NEW u \in Threads, InMethod(call'[u]), call'[u].alone
      PROVE  InCallBesides(u)' = {}
  <2>1. u = t
    BY <1>1, <1>2 DEF Stays, InMethod
  <2>2. \A w \in Threads \ {t} : call[w].op = "none"
    BY <1>1, <1>2, <2>1, OthersAre
  <2>. QED
    BY <1>1, <2>1, <2>2 DEF InCallBesides, Stays
<1>3. \A u \in Threads : call'[u].stage = "seek" /\ call'[u].alone => medium'.offset = call'[u].offset
  BY <1>1 DEF Reading, Seeking, Stays
<1>4. Seeking'
  BY <1>2, <1>3 DEF Seeking, InMethod
<1>5. ReadsAtItsOffset'
  BY <1>1 DEF Reading, ReadsAtItsOffset, Stays
<1>. QED
  BY <1>4, <1>5 DEF Reading

\* Beginning a call keeps the invariant.
LEMMA BeginsStep ==
  ASSUME Inv, NEW t \in Threads, NEW o, NEW op, NEW part, Begins(t, o, op, part), FileBegins(op)
  PROVE  Inv'
<1>1. Sound /\ LibraryKept /\ HandleGroup /\ Iteration /\ Reading
  BY InvIs
<1>2. /\ o \in Objects /\ op \notin {"none", "free"} /\ call[t].op = "none" /\ history' = Noted(t, o, op)
      /\ ObjectsTyped /\ held' = held /\ call' \in [Threads -> CallRecord]
      /\ \A x \in Objects : SameButRefs(x)
      /\ \A u \in Threads \ {t} : Stays(u)
      /\ call'[t].op = op
  BY <1>1, BeginsKeeps
<1>3. /\ history' \in [disturbed : BOOLEAN, closed : BOOLEAN, shared : SUBSET Objects,
                       given : [Objects -> Seq(Found)]]
      /\ history'.closed = history.closed
  BY <1>1, <1>2, NotedIs DEF Sound
<1>4. /\ file' \in [open : BOOLEAN, using : {"none", "own", "handle"}, handle : BOOLEAN]
      /\ medium' \in [refs : Int, offset : {0} \cup Offsets]
      /\ file'.open = file.open /\ medium'.offset = medium.offset
  BY <1>1, FileBeginsIs DEF Sound
<1>5. Typed'
  BY <1>1, <1>2, <1>3, <1>4 DEF Sound, Typed, ObjectsTyped
<1>6. Core'
  BY <1>1, BeginsCore
<1>7. LibraryKept'
  <2>1. \A x \in Objects : LibraryStays(x)
    BY <1>2 DEF LibraryStays, SameButRefs, LibraryFreed, Stays
  <2>2. \A s \in Slots : object'[s].library => object[s].library
    BY <1>2, Places DEF SameButRefs
  <2>. QED
    BY <1>1, <1>3, <1>4, <2>1, <2>2, LibraryStaysKept
<1>8. HandleGroup'
  BY <1>1, BeginsHandle
<1>9. Iteration'
  BY <1>1, <1>5, BeginsIteration
<1>10. Reading'
  BY <1>1, <1>4, BeginsReading
<1>. QED
  BY <1>5, <1>6, <1>7, <1>8, <1>9, <1>10, InvNext

\* The references are exact after a step that changes none of them.
LEMMA CoreStays ==
  ASSUME Sound, object' = object, held' = held, call' = call
  PROVE  Core'
<1>1. Calls' /\ Claimed' /\ Gone'
  BY DEF Sound, Calls, Claimed, Claims, Exists, Gone
<1>2. Counted'
  BY DEF Sound, Counted, Children, Calling, Exists, Unwrapped, Busy
<1>3. Living'
  BY DEF Sound, Living, Alive, Claims, Exists
<1>4. Family'
  BY DEF Sound, Family, ClassOf, Exists
<1>5. Wanted'
  BY DEF Sound, Wanted, GetsPart, GetsSequence, Makes, Target, IsSequence, ClassOf
<1>. QED
  BY <1>1, <1>2, <1>3, <1>4, <1>5 DEF Core

\* A file without a handle that it had.
HandleGone ==
  /\ file.handle /\ file' = [file EXCEPT !.handle = FALSE]
  /\ medium' = [medium EXCEPT !.refs = @ - 1]

\* Freeing the handle drops its reference to the medium.
LEMMA HandleGoneIs ==
  ASSUME Typed, FileObjectIsKept, HandleGone
  PROVE  /\ file' \in [open : BOOLEAN, using : {"none", "own", "handle"}, handle : BOOLEAN]
         /\ medium' \in [refs : Int, offset : {0} \cup Offsets]
         /\ file'.open = file.open /\ file'.using = file.using /\ ~ file'.handle
         /\ medium'.offset = medium.offset /\ FileObjectIsKept'
<1>1. file \in [open : BOOLEAN, using : {"none", "own", "handle"}, handle : BOOLEAN]
      /\ medium \in [refs : Int, offset : {0} \cup Offsets]
  BY DEF Typed
<1>2. file' = [file EXCEPT !.handle = FALSE] /\ medium' = [medium EXCEPT !.refs = medium.refs - 1]
  BY <1>1 DEF HandleGone
<1>3. /\ file' \in [open : BOOLEAN, using : {"none", "own", "handle"}, handle : BOOLEAN]
      /\ file'.open = file.open /\ file'.using = file.using /\ ~ file'.handle
  BY <1>1, <1>2
<1>4. medium.refs - 1 \in Int
  BY <1>1
<1>5. /\ medium' \in [refs : Int, offset : {0} \cup Offsets]
      /\ medium'.offset = medium.offset /\ medium'.refs = medium.refs - 1
  BY <1>1, <1>2, <1>4
<1>6. FileObjectIsKept'
  BY <1>1, <1>3, <1>5 DEF FileObjectIsKept, HandleGone
<1>. QED
  BY <1>3, <1>5, <1>6

\* A file object is opened again.
LEMMA OpenFileObjectAgainStep ==
  ASSUME Inv, NEW t \in Threads, OpenFileObjectAgain(t)
  PROVE  Inv'
<1>1. Sound /\ LibraryKept /\ HandleGroup /\ Iteration /\ Reading
  BY InvIs
<1>2. /\ object' = object /\ held' = held /\ call' = call /\ HandleGone /\ Exists(File)
      /\ history' = [Noted(t, File, "open file object") EXCEPT !.disturbed = TRUE]
  BY DEF OpenFileObjectAgain, HandleGone, MayCall
<1>3. /\ file' \in [open : BOOLEAN, using : {"none", "own", "handle"}, handle : BOOLEAN]
      /\ medium' \in [refs : Int, offset : {0} \cup Offsets]
      /\ file'.open = file.open /\ ~ file'.handle
      /\ medium'.offset = medium.offset /\ FileObjectIsKept'
  BY <1>1, <1>2, HandleGoneIs DEF Sound, HandleGroup
<1>. DEFINE noted == Noted(t, File, "open file object")
<1>4. /\ noted \in [disturbed : BOOLEAN, closed : BOOLEAN, shared : SUBSET Objects,
                    given : [Objects -> Seq(Found)]]
      /\ noted.closed = history.closed /\ history.shared \subseteq noted.shared
      /\ \A x \in Objects \ {File} : noted.given[x] = history.given[x]
      /\ noted.given[File] \in {history.given[File], <<>>}
  <2>1. Typed /\ File \in Objects
    BY <1>1, Places DEF Sound
  <2>2. PICK o \in Objects : o = File
    BY <2>1
  <2>3. PICK op : op = "open file object"
    OBVIOUS
  <2>4. PICK n : n = Noted(t, o, op)
    OBVIOUS
  <2>5. /\ n \in [disturbed : BOOLEAN, closed : BOOLEAN, shared : SUBSET Objects,
                  given : [Objects -> Seq(Found)]]
        /\ n.closed = history.closed /\ history.shared \subseteq n.shared
        /\ \A x \in Objects \ {o} : n.given[x] = history.given[x]
        /\ n.given[o] \in {history.given[o], <<>>}
    <3>1. n \in [disturbed : BOOLEAN, closed : BOOLEAN, shared : SUBSET Objects,
                  given : [Objects -> Seq(Found)]]
      BY <2>1, <2>4, NotedIs, SMTT(30)
    <3>2. n.closed = history.closed /\ history.shared \subseteq n.shared
      BY <2>1, <2>4, NotedIs, SMTT(30)
    <3>3. \A x \in Objects \ {o} : n.given[x] = history.given[x]
      BY <2>1, <2>4, NotedIs, SMTT(30)
    <3>4. n.given[o] \in {history.given[o], <<>>}
      BY <2>1, <2>4, NotedIs, SMTT(30)
    <3>. QED
      BY <3>1, <3>2, <3>3, <3>4
  <2>6. n = noted
    BY <2>2, <2>3, <2>4
  <2>. HIDE DEF noted
  <2>. QED
    BY <2>2, <2>5, <2>6
<1>. HIDE DEF noted
<1>5. /\ history' \in [disturbed : BOOLEAN, closed : BOOLEAN, shared : SUBSET Objects,
                       given : [Objects -> Seq(Found)]]
      /\ history'.disturbed /\ history'.closed = history.closed /\ history.shared \subseteq history'.shared
      /\ history'.given = noted.given
  BY <1>2, <1>4 DEF noted
<1>6. Typed'
  BY <1>1, <1>2, <1>3, <1>5 DEF Sound, Typed
<1>7. Core'
  BY <1>1, <1>2, CoreStays
<1>8. Keeps(t) /\ Stays(t) /\ FoundFits(t)
  BY <1>2 DEF Keeps, Stays, FoundFits
<1>9. \A x \in Objects : IndexStays(x)
  <2>1. ~ IsSequence(File)
    BY <1>1, SequencesAreSlots, Places DEF Sound
  <2>2. history.given[File] = <<>>
    BY <1>1, <2>1, Places DEF Iteration, Bounded
  <2>3. \A x \in Objects : history'.given[x] = history.given[x]
    BY <1>4, <1>5, <2>2
  <2>. QED
    BY <1>2, <1>5, <2>3 DEF IndexStays
<1>10. LibraryKept'
  <2>1. \A x \in Objects : LibraryStays(x)
    BY <1>2 DEF LibraryStays, LibraryFreed
  <2>. QED
    BY <1>1, <1>2, <1>3, <1>5, <2>1, LibraryStaysKept
<1>11. HandleGroup'
  <2>1. FileFreed'
    BY <1>1, <1>2, <1>3 DEF HandleGroup, FileFreed, Exists
  <2>. QED
    BY <1>3, <1>5, <2>1 DEF HandleGroup, HandleOwned, Undisturbed, HandleOutlivesItsUse
<1>12. Iteration'
  BY <1>1, <1>6, <1>8, <1>9, IterationStays
<1>13. Reading'
  BY <1>1, <1>3, <1>8, ReadingStays
<1>. QED
  BY <1>6, <1>7, <1>10, <1>11, <1>12, <1>13, InvNext

\* The objects and the calls of a step in the library.
LEMMA GoesOn ==
  ASSUME Inv, NEW t \in Threads, Goes(t), object' = object, FoundFits(t),
         history'.shared = history.shared, history'.given = history.given,
         ~ LibraryFreed(t, call[t].on), ~ LibraryFreed(t, call[t].on)',
         file' \in [open : BOOLEAN, using : {"none", "own", "handle"}, handle : BOOLEAN],
         medium' \in [refs : Int, offset : {0} \cup Offsets],
         history' \in [disturbed : BOOLEAN, closed : BOOLEAN, shared : SUBSET Objects,
                       given : [Objects -> Seq(Found)]]
  PROVE  /\ Typed' /\ Core' /\ Keeps(t) /\ Iteration'
         /\ \A x \in Objects : LibraryStays(x)
         /\ call'[t].op = call[t].op /\ call'[t].on = call[t].on
<1>1. Sound /\ Iteration
  BY InvIs
<1>2. Keeps(t) /\ call'[t].op = call[t].op /\ call'[t].on = call[t].on
  BY GoesKeeps
<1>3. Typed'
  BY <1>1 DEF Sound, Typed, Goes, Going
<1>4. Core'
  BY <1>1, GoesCore
<1>5. Iteration'
  <2>1. \A x \in Objects : IndexStays(x)
    BY DEF IndexStays
  <2>. QED
    BY <1>1, <1>2, <1>3, <2>1, IterationStays
<1>6. \A x \in Objects : LibraryStays(x)
  BY <1>2 DEF LibraryStays, LibraryFreed, Keeps, Stays
<1>. QED
  BY <1>2, <1>3, <1>4, <1>5, <1>6

\* libbfio seeks in the file object.
LEMMA SeekStep ==
  ASSUME Inv, NEW t \in Threads, Busy(t), Seek(t)
  PROVE  Inv'
<1>1. Sound /\ LibraryKept /\ HandleGroup /\ Iteration /\ Reading
  BY InvIs
<1>2. Goes(t)
  BY <1>1, LibraryGoes
<1>3. PICK offset \in Offsets :
        /\ medium' = [medium EXCEPT !.offset = offset]
        /\ call' = [call EXCEPT ![t].stage = "seek", ![t].offset = offset]
  BY DEF Seek
<1>4. object' = object /\ file' = file /\ history' = history /\ call[t].stage = "library"
      /\ InMethod(call[t])
  BY DEF Seek, InLibrary, InMethod, Busy
<1>5. call'[t].stage = "seek" /\ call'[t].offset = offset
  BY <1>1, <1>3 DEF Sound, Typed, CallRecord
<1>6. medium \in [refs : Int, offset : {0} \cup Offsets]
  BY <1>1 DEF Sound, Typed
<1>7. /\ medium' \in [refs : Int, offset : {0} \cup Offsets]
      /\ medium'.refs = medium.refs /\ medium'.offset = offset
  BY <1>3, <1>6
<1>8. FoundFits(t) /\ ~ LibraryFreed(t, call[t].on) /\ ~ LibraryFreed(t, call[t].on)'
  BY <1>4, <1>5 DEF FoundFits, LibraryFreed
<1>9. /\ Typed' /\ Core' /\ Keeps(t) /\ Iteration'
      /\ \A x \in Objects : LibraryStays(x)
      /\ call'[t].op = call[t].op /\ call'[t].on = call[t].on
  <2>1. file' \in [open : BOOLEAN, using : {"none", "own", "handle"}, handle : BOOLEAN]
        /\ history' \in [disturbed : BOOLEAN, closed : BOOLEAN, shared : SUBSET Objects,
                         given : [Objects -> Seq(Found)]]
    BY <1>1, <1>4 DEF Sound, Typed
  <2>. QED
    BY <1>2, <1>4, <1>7, <1>8, <2>1, GoesOn
<1>10. LibraryKept'
  BY <1>1, <1>4, <1>9, LibraryStaysKept
<1>11. HandleGroup'
  <2>1. Peaceful(t)
    BY <1>4, <1>5, <1>9 DEF Peaceful, OpensHandle, ClosesHandle, InMethod
  <2>2. Exists(File) => Exists(File)'
    BY <1>4 DEF Exists
  <2>. QED
    BY <1>1, <1>4, <1>7, <1>9, <2>1, <2>2, HandleStays
<1>12. Reading'
  <2>1. ASSUME NEW u \in Threads, InMethod(call'[u]), call'[u].alone
        PROVE  InCallBesides(u) = {} /\ InCallBesides(u)' = {}
    <3>1. InMethod(call[u]) /\ call[u].alone
      BY <1>9, <2>1 DEF Keeps, Stays, InMethod
    <3>2. InCallBesides(u) = {}
      BY <1>1, <3>1 DEF Reading, Seeking, InMethod
    <3>. QED
      BY <1>9, <3>2, FewerBesides
  <2>2. ASSUME NEW u \in Threads \ {t}, call'[u].stage \in {"seek", "read"}
        PROVE  ~ call'[u].alone
    <3>1. InMethod(call'[u])
      <4>1. Shaped(call[u]) /\ call'[u].op = call[u].op /\ call'[u].stage = call[u].stage
        BY <1>1, <1>9 DEF Sound, Calls, Keeps, Stays
      <4>. QED
        BY <2>2, <4>1 DEF Shaped, InMethod, NoCall
    <3>. QED
      BY <1>4, <2>1, <3>1 DEF InCallBesides, InMethod
  <2>3. Seeking'
    BY <1>5, <1>7, <2>1, <2>2 DEF Seeking, InMethod
  <2>4. ReadsAtItsOffset'
    BY <1>5, <2>2 DEF ReadsAtItsOffset
  <2>. QED
    BY <2>3, <2>4 DEF Reading
<1>. QED
  BY <1>9, <1>10, <1>11, <1>12, InvNext

\* It reads from there.
LEMMA ReadStep ==
  ASSUME Inv, NEW t \in Threads, Busy(t), Read(t)
  PROVE  Inv'
<1>1. Sound /\ LibraryKept /\ HandleGroup /\ Iteration /\ Reading
  BY InvIs
<1>2. Goes(t)
  BY <1>1, LibraryGoes
<1>3. /\ call' = [call EXCEPT ![t].stage = "read", ![t].found = medium.offset]
      /\ medium' = [medium EXCEPT !.offset = 0]
      /\ object' = object /\ file' = file /\ history' = history /\ call[t].stage = "seek"
  BY DEF Read
<1>4. InMethod(call[t])
  <2>1. Shaped(call[t])
    BY <1>1 DEF Sound, Calls
  <2>. QED
    BY <1>3, <2>1 DEF Shaped, InMethod, Busy
<1>5. call'[t].stage = "read" /\ call'[t].found = medium.offset /\ call'[t].offset = call[t].offset
  BY <1>1, <1>3 DEF Sound, Typed, CallRecord
<1>6. medium \in [refs : Int, offset : {0} \cup Offsets]
  BY <1>1 DEF Sound, Typed
<1>7. medium' \in [refs : Int, offset : {0} \cup Offsets] /\ medium'.refs = medium.refs
  BY <1>3, <1>6
<1>8. FoundFits(t) /\ ~ LibraryFreed(t, call[t].on) /\ ~ LibraryFreed(t, call[t].on)'
  BY <1>3, <1>5 DEF FoundFits, LibraryFreed
<1>9. /\ Typed' /\ Core' /\ Keeps(t) /\ Iteration'
      /\ \A x \in Objects : LibraryStays(x)
      /\ call'[t].op = call[t].op /\ call'[t].on = call[t].on
  <2>1. file' \in [open : BOOLEAN, using : {"none", "own", "handle"}, handle : BOOLEAN]
        /\ history' \in [disturbed : BOOLEAN, closed : BOOLEAN, shared : SUBSET Objects,
                         given : [Objects -> Seq(Found)]]
    BY <1>1, <1>3 DEF Sound, Typed
  <2>. QED
    BY <1>2, <1>3, <1>7, <1>8, <2>1, GoesOn
<1>10. LibraryKept'
  BY <1>1, <1>3, <1>9, LibraryStaysKept
<1>11. HandleGroup'
  <2>1. Peaceful(t)
    BY <1>3, <1>4, <1>5, <1>9 DEF Peaceful, OpensHandle, ClosesHandle, InMethod
  <2>2. Exists(File) => Exists(File)'
    BY <1>3 DEF Exists
  <2>. QED
    BY <1>1, <1>3, <1>7, <1>9, <2>1, <2>2, HandleStays
<1>12. Reading'
  <2>1. ASSUME NEW u \in Threads, InMethod(call'[u]), call'[u].alone
        PROVE  InCallBesides(u) = {} /\ InCallBesides(u)' = {}
    <3>1. InMethod(call[u]) /\ call[u].alone
      BY <1>9, <2>1 DEF Keeps, Stays, InMethod
    <3>2. InCallBesides(u) = {}
      BY <1>1, <3>1 DEF Reading, Seeking, InMethod
    <3>. QED
      BY <1>9, <3>2, FewerBesides
  <2>2. ASSUME NEW u \in Threads \ {t}, call'[u].stage \in {"seek", "read"}
        PROVE  ~ call'[u].alone
    <3>1. InMethod(call'[u])
      <4>1. Shaped(call[u]) /\ call'[u].op = call[u].op /\ call'[u].stage = call[u].stage
        BY <1>1, <1>9 DEF Sound, Calls, Keeps, Stays
      <4>. QED
        BY <2>2, <4>1 DEF Shaped, InMethod, NoCall
    <3>. QED
      BY <1>4, <2>1, <3>1 DEF InCallBesides, InMethod
  <2>3. Seeking'
    BY <1>5, <2>1, <2>2 DEF Seeking, InMethod
  <2>4. call'[t].alone => call[t].alone
    BY <1>4, <1>9 DEF Keeps, InMethod
  <2>5. call[t].alone => medium.offset = call[t].offset
    BY <1>1, <1>3 DEF Reading, Seeking
  <2>6. ReadsAtItsOffset'
    BY <1>5, <2>2, <2>4, <2>5 DEF ReadsAtItsOffset
  <2>. QED
    BY <2>3, <2>6 DEF Reading
<1>. QED
  BY <1>9, <1>10, <1>11, <1>12, InvNext

\* While nothing disturbed it, a call that opens or closes the file is alone.
LEMMA SettlesAlone ==
  ASSUME HandleGroup, ~ history.disturbed, NEW t \in Threads, Settles(call[t].op)
  PROVE  \A u \in Threads \ {t} : ~ InMethod(call[u])
<1>1. InCallBesides(t) = {}
  BY DEF HandleGroup, Undisturbed
<1>. QED
  BY <1>1 DEF InCallBesides, InMethod

\* The file is not freed during a call on it.
LEMMA FileInCall ==
  ASSUME Sound, NEW t \in Threads, InMethod(call[t]), call[t].on = File
  PROVE  Exists(File) /\ \A u \in Threads : ~ (call[u].op = "free" /\ call[u].on = File)
<1>1. Alive(File)
  BY CalledLives DEF Sound, InMethod
<1>. QED
  BY <1>1, Places DEF Alive, Claims

\* The handle of a file is freed when the file itself is.
LEMMA HandleStage ==
  ASSUME Sound, NEW t \in Threads, call[t].stage = "handle", Busy(t)
  PROVE  call[t].op = "close" \/ (call[t].op = "free" /\ call[t].on = File)
<1>1. Shaped(call[t])
  BY DEF Sound, Calls
<1>. QED
  BY <1>1 DEF Shaped, InCall, Busy

\* The fields of the file, the medium and the history.
LEMMA FieldsTyped ==
  ASSUME Typed
  PROVE  /\ file \in [open : BOOLEAN, using : {"none", "own", "handle"}, handle : BOOLEAN]
         /\ medium \in [refs : Int, offset : {0} \cup Offsets]
         /\ history \in [disturbed : BOOLEAN, closed : BOOLEAN, shared : SUBSET Objects,
                         given : [Objects -> Seq(Found)]]
BY DEF Typed

\* The library opens the file.
LEMMA LibraryOpensStep ==
  ASSUME Inv, NEW t \in Threads, Busy(t), LibraryOpens(t)
  PROVE  Inv'
<1>1. Sound /\ LibraryKept /\ HandleGroup /\ Iteration /\ Reading
  BY InvIs
<1>2. Goes(t)
  BY <1>1, LibraryGoes
<1>3. call[t].op \in {"open", "open file object"} /\ call[t].stage # "done" /\ InMethod(call[t])
      /\ object' = object /\ medium' = medium
  BY DEF LibraryOpens, Opens, ReadyToLeave, InLibrary, InMethod
<1>4. /\ file' \in [open : BOOLEAN, using : {"none", "own", "handle"}, handle : BOOLEAN]
      /\ file'.open /\ file'.handle = file.handle
      /\ file'.using = "handle" => call[t].op = "open file object"
  <2>1. file \in [open : BOOLEAN, using : {"none", "own", "handle"}, handle : BOOLEAN]
    BY <1>1, FieldsTyped DEF Sound
  <2>2. file' = [file EXCEPT !.open = TRUE, !.using = IF call[t].op = "open" THEN "own" ELSE "handle"]
    BY DEF LibraryOpens, LibraryOpen
  <2>3. CASE call[t].op = "open"
    <3>1. file' = [file EXCEPT !.open = TRUE, !.using = "own"]
      BY <2>2, <2>3
    <3>. QED
      BY <2>1, <3>1
  <2>4. CASE call[t].op = "open file object"
    <3>1. file' = [file EXCEPT !.open = TRUE, !.using = "handle"]
      BY <2>2, <2>4
    <3>. QED
      BY <2>1, <2>4, <3>1
  <2>. QED
    BY <1>3, <2>3, <2>4
<1>5. /\ history' \in [disturbed : BOOLEAN, closed : BOOLEAN, shared : SUBSET Objects,
                       given : [Objects -> Seq(Found)]]
      /\ history'.disturbed = history.disturbed /\ history'.shared = history.shared
      /\ history'.given = history.given
  <2>1. history' = [history EXCEPT !.closed = FALSE]
    BY DEF LibraryOpens
  <2>. QED
    BY <1>1, <2>1, FieldsTyped DEF Sound
<1>6. call'[t].stage = "done"
  <2>1. "done" \in Stages /\ LeaveLibrary(t, "done")
    BY DEF Stages, LibraryOpens
  <2>. QED
    BY <1>1, <2>1, LeavesIs DEF Sound
<1>7. FoundFits(t) /\ ~ LibraryFreed(t, call[t].on) /\ ~ LibraryFreed(t, call[t].on)'
  BY <1>2, <1>3, GoesKeeps DEF FoundFits, LibraryFreed
<1>8. /\ Typed' /\ Core' /\ Keeps(t) /\ Iteration'
      /\ \A x \in Objects : LibraryStays(x)
      /\ call'[t].op = call[t].op /\ call'[t].on = call[t].on
  <2>1. medium' \in [refs : Int, offset : {0} \cup Offsets]
    BY <1>1, <1>3, FieldsTyped DEF Sound
  <2>. QED
    BY <1>2, <1>3, <1>4, <1>5, <1>7, <2>1, GoesOn
<1>9. LibraryKept'
  BY <1>1, <1>4, <1>8, LibraryStaysKept
<1>10. HandleGroup'
  <2>1. call[t].on = File
    BY <1>1, <1>3 DEF Sound, Calls, Shaped, Settles
  <2>2. Exists(File) /\ \A u \in Threads : ~ (call[u].op = "free" /\ call[u].on = File)
    BY <1>1, <1>3, <2>1, FileInCall
  <2>3. FileFreed'
    <3>1. \A u \in Threads : ~ (call'[u].op = "free" /\ call'[u].stage = "handle")
      <4>1. \A u \in Threads : ~ (call[u].op = "free" /\ call[u].stage = "handle")
        BY <1>1, <2>2, HandleStage DEF Busy
      <4>. QED
        BY <1>6, <1>8, <4>1 DEF Keeps, Stays
    <3>2. Exists(File)'
      BY <1>3, <2>2 DEF Exists
    <3>. QED
      BY <3>1, <3>2 DEF FileFreed
  <2>4. Undisturbed'
    <3>1. ASSUME ~ history'.disturbed, NEW u \in Threads
          PROVE  /\ Settles(call'[u].op) => InCallBesides(u)' = {}
                 /\ ~ OpensHandle(u)' /\ ~ (call'[u].op = "close")
      <4>1. \A w \in Threads \ {t} : ~ InMethod(call[w])
        BY <1>1, <1>3, <1>5, <3>1, SettlesAlone DEF Settles
      <4>2. \A w \in Threads \ {t} : ~ InMethod(call'[w])
        BY <1>8, <4>1 DEF Keeps, Stays, InMethod
      <4>3. u # t => ~ Settles(call'[u].op) /\ ~ OpensHandle(u)' /\ ~ (call'[u].op = "close")
        <5>1. u # t => call'[u].op \in {"none", "free"}
          BY <4>2 DEF InMethod
        <5>2. \A op \in {"none", "free"} : ~ Settles(op) /\ op # "close" /\ op # "open file object"
          BY DEF Settles
        <5>. QED
          BY <5>1, <5>2 DEF OpensHandle
      <4>4. InCallBesides(t)' = {}
        BY <4>2 DEF InCallBesides, InMethod
      <4>. QED
        BY <1>3, <1>6, <1>8, <4>3, <4>4 DEF OpensHandle
    <3>. QED
      BY <3>1 DEF Undisturbed
  <2>5. HandleOutlivesItsUse'
    BY <1>1, <1>3, <1>4, <1>5 DEF HandleOutlivesItsUse, HandleGroup, Undisturbed, OpensHandle
  <2>. QED
    BY <1>1, <1>3, <1>4, <2>3, <2>4, <2>5 DEF HandleGroup, HandleOwned, FileObjectIsKept
<1>11. Reading'
  BY <1>1, <1>3, <1>6, <1>8, ReadingStays
<1>. QED
  BY <1>8, <1>9, <1>10, <1>11, InvNext

\* The library closes the file.
LEMMA LibraryClosedIs ==
  ASSUME Typed
  PROVE  /\ LibraryClosed \in [open : BOOLEAN, using : {"none", "own", "handle"}, handle : BOOLEAN]
         /\ ~ LibraryClosed.open /\ LibraryClosed.handle = file.handle
BY FieldsTyped DEF LibraryClosed

\* Closing the file in the library keeps the invariant.
LEMMA LibraryClosesStep ==
  ASSUME Inv, NEW t \in Threads, Busy(t), LibraryCloses(t)
  PROVE  Inv'
<1>1. Sound /\ LibraryKept /\ HandleGroup /\ Iteration /\ Reading
  BY InvIs
<1>2. Goes(t)
  BY <1>1, LibraryGoes
<1>3. /\ call[t].op = "close" /\ InMethod(call[t]) /\ object' = object /\ medium' = medium
      /\ file' = LibraryClosed
  BY DEF LibraryCloses, InMethod
<1>4. /\ file' \in [open : BOOLEAN, using : {"none", "own", "handle"}, handle : BOOLEAN]
      /\ ~ file'.open /\ file'.handle = file.handle
  BY <1>1, <1>3, LibraryClosedIs DEF Sound
<1>5. /\ history' \in [disturbed : BOOLEAN, closed : BOOLEAN, shared : SUBSET Objects,
                       given : [Objects -> Seq(Found)]]
      /\ (history'.disturbed <=> Others(t) # {}) /\ history'.shared = history.shared
      /\ history'.closed /\ history'.given = history.given
  <2>. DEFINE disturbed == Others(t) # {}
  <2>1. history' = [history EXCEPT !.closed = TRUE, !.disturbed = disturbed]
    BY DEF LibraryCloses
  <2>2. disturbed \in BOOLEAN
    OBVIOUS
  <2>3. history \in [disturbed : BOOLEAN, closed : BOOLEAN, shared : SUBSET Objects,
                     given : [Objects -> Seq(Found)]]
    BY <1>1, FieldsTyped DEF Sound
  <2>. HIDE DEF disturbed
  <2>4. /\ history' \in [disturbed : BOOLEAN, closed : BOOLEAN, shared : SUBSET Objects,
                         given : [Objects -> Seq(Found)]]
        /\ history'.shared = history.shared
        /\ history'.closed /\ history'.given = history.given
    BY <2>1, <2>2, <2>3
  <2>5. history'.disturbed <=> disturbed
    <3>1. history = [disturbed |-> history.disturbed, closed |-> history.closed, shared |-> history.shared,
                     given |-> history.given]
      BY <2>3
    <3>. QED
      BY <2>1, <3>1, Zenon
  <2>. QED
    BY <2>4, <2>5 DEF disturbed
<1>6. call'[t].stage = "done"
  <2>1. "done" \in Stages /\ LeaveLibrary(t, "done")
    BY DEF Stages, LibraryCloses
  <2>. QED
    BY <1>1, <2>1, LeavesIs DEF Sound
<1>7. FoundFits(t) /\ ~ LibraryFreed(t, call[t].on) /\ ~ LibraryFreed(t, call[t].on)'
  BY <1>2, <1>3, GoesKeeps DEF FoundFits, LibraryFreed
<1>8. /\ Typed' /\ Core' /\ Keeps(t) /\ Iteration'
      /\ \A x \in Objects : LibraryStays(x)
      /\ call'[t].op = call[t].op /\ call'[t].on = call[t].on
  <2>1. medium' \in [refs : Int, offset : {0} \cup Offsets]
    BY <1>1, <1>3, FieldsTyped DEF Sound
  <2>. QED
    BY <1>2, <1>3, <1>4, <1>5, <1>7, <2>1, GoesOn
<1>9. LibraryKept'
  BY <1>1, <1>3, <1>5, <1>8, LibraryStaysKept
<1>10. HandleGroup'
  <2>1. Exists(File)'
    <3>1. call[t].on = File
      BY <1>1, <1>3 DEF Sound, Calls, Shaped, Settles
    <3>. QED
      BY <1>1, <1>3, <3>1, FileInCall DEF Exists
  <2>2. HandleOwned'
    BY <1>3, <1>6, <1>8 DEF HandleOwned, ClosesHandle
  <2>3. FileFreed'
    BY <1>4, <2>1 DEF FileFreed
  <2>4. Undisturbed'
    <3>1. ASSUME ~ history'.disturbed, NEW u \in Threads
          PROVE  /\ Settles(call'[u].op) => InCallBesides(u)' = {}
                 /\ ~ OpensHandle(u)' /\ ~ file'.open
      <4>1. \A w \in Threads \ {t} : call[w].op = "none"
        BY <1>5, <3>1, OthersAre
      <4>2. \A w \in Threads \ {t} : call'[w].op = "none"
        BY <1>8, <4>1 DEF Keeps, Stays
      <4>3. u # t => ~ Settles(call'[u].op) /\ ~ OpensHandle(u)'
        <5>1. u # t => call'[u].op = "none"
          BY <4>2
        <5>2. ~ Settles("none")
          BY DEF Settles
        <5>. QED
          BY <5>1, <5>2 DEF OpensHandle
      <4>4. InCallBesides(t)' = {}
        BY <4>2 DEF InCallBesides
      <4>. QED
        BY <1>3, <1>4, <1>8, <4>3, <4>4 DEF OpensHandle
    <3>. QED
      BY <3>1 DEF Undisturbed
  <2>. QED
    BY <1>1, <1>3, <1>4, <2>2, <2>3, <2>4 DEF HandleGroup, HandleOutlivesItsUse, FileObjectIsKept
<1>11. Reading'
  BY <1>1, <1>3, <1>6, <1>8, ReadingStays
<1>. QED
  BY <1>8, <1>9, <1>10, <1>11, InvNext

\* The handle of a file that was closed is freed.
LEMMA FreeHandleStep ==
  ASSUME Inv, NEW t \in Threads, Busy(t), FreeHandle(t)
  PROVE  Inv'
<1>1. Sound /\ LibraryKept /\ HandleGroup /\ Iteration /\ Reading
  BY InvIs
<1>2. Goes(t)
  BY <1>1, LibraryGoes
<1>3. /\ call[t].stage = "handle" /\ object' = object /\ history' = history
      /\ call[t].op = "close" \/ (call[t].op = "free" /\ call[t].on = File)
  BY <1>1, HandleStage DEF FreeHandle
<1>4. /\ file' \in [open : BOOLEAN, using : {"none", "own", "handle"}, handle : BOOLEAN]
      /\ medium' \in [refs : Int, offset : {0} \cup Offsets]
      /\ file'.open = file.open /\ file'.using = file.using /\ ~ file'.handle
      /\ medium'.offset = medium.offset /\ FileObjectIsKept'
  <2>1. Typed /\ FileObjectIsKept
    BY <1>1 DEF Sound, HandleGroup
  <2>2. CASE file.handle
    <3>1. HandleGone
      BY <2>2 DEF FreeHandle, HandleGone
    <3>. QED
      BY <2>1, <3>1, HandleGoneIs
  <2>3. CASE ~ file.handle
    <3>1. file' = [file EXCEPT !.handle = FALSE] /\ medium' = medium
      BY <2>3 DEF FreeHandle
    <3>2. /\ file' \in [open : BOOLEAN, using : {"none", "own", "handle"}, handle : BOOLEAN]
          /\ file'.open = file.open /\ file'.using = file.using /\ ~ file'.handle
      BY <2>1, <3>1, FieldsTyped
    <3>. QED
      BY <2>1, <2>3, <3>1, <3>2, FieldsTyped DEF FileObjectIsKept
  <2>. QED
    BY <2>2, <2>3
<1>5. call'[t].stage \in {"library", "freed"}
  <2>1. {"library", "freed"} \subseteq Stages
    BY DEF Stages
  <2>2. LeaveLibrary(t, IF FreesFile(t) THEN "library" ELSE "freed")
    BY DEF FreeHandle
  <2>. QED
    BY <1>1, <2>1, <2>2, LeavesIs DEF Sound
<1>6. FoundFits(t) /\ ~ LibraryFreed(t, call[t].on) /\ ~ LibraryFreed(t, call[t].on)'
  BY <1>3, <1>5 DEF FoundFits, LibraryFreed
<1>7. /\ Typed' /\ Core' /\ Keeps(t) /\ Iteration'
      /\ \A x \in Objects : LibraryStays(x)
      /\ call'[t].op = call[t].op /\ call'[t].on = call[t].on
  <2>1. history' \in [disturbed : BOOLEAN, closed : BOOLEAN, shared : SUBSET Objects,
                      given : [Objects -> Seq(Found)]]
    BY <1>1, <1>3, FieldsTyped DEF Sound
  <2>. QED
    BY <1>2, <1>3, <1>4, <1>6, <2>1, GoesOn
<1>8. LibraryKept'
  BY <1>1, <1>3, <1>4, <1>7, LibraryStaysKept
<1>9. HandleGroup'
  <2>1. HandleOwned'
    BY <1>4 DEF HandleOwned
  <2>2. FileFreed'
    <3>1. ~ Exists(File)' => ~ file'.open
      BY <1>1, <1>3, <1>4 DEF HandleGroup, FileFreed, Exists
    <3>2. \A u \in Threads : call'[u].op = "free" /\ call'[u].stage = "handle" => ~ file'.open
      BY <1>1, <1>4, <1>5, <1>7 DEF HandleGroup, FileFreed, Keeps, Stays
    <3>. QED
      BY <1>4, <3>1, <3>2 DEF FileFreed
  <2>3. ~ history.disturbed => ~ file.open
    BY <1>1, <1>3 DEF HandleGroup, FileFreed, Undisturbed
  <2>4. Undisturbed'
    <3>1. ASSUME ~ history'.disturbed, NEW u \in Threads
          PROVE  /\ Settles(call'[u].op) => InCallBesides(u)' = {}
                 /\ ~ OpensHandle(u)' /\ ~ file'.open
      <4>1. call'[u].op = call[u].op
        BY <1>7 DEF Keeps, Stays
      <4>2. Settles(call'[u].op) => InCallBesides(u)' = {}
        BY <1>1, <1>3, <1>7, <3>1, <4>1, FewerBesides DEF HandleGroup, Undisturbed
      <4>3. call[u].op # "open file object"
        <5>1. SUFFICES ASSUME call[u].op = "open file object"
                       PROVE  FALSE
          OBVIOUS
        <5>2. Settles(call[u].op) /\ InMethod(call[u]) /\ u # t
          BY <1>3, <5>1 DEF Settles, InMethod
        <5>3. ~ InMethod(call[t])
          BY <1>1, <1>3, <3>1, <5>2, SettlesAlone
        <5>4. call[t].op = "free" /\ call[t].on = File
          BY <1>3, <5>3 DEF InMethod
        <5>5. call[u].on = File
          BY <1>1, <5>2 DEF Sound, Calls, Shaped
        <5>. QED
          BY <1>1, <5>2, <5>4, <5>5, FileInCall
      <4>. QED
        BY <1>3, <1>4, <2>3, <3>1, <4>1, <4>2, <4>3 DEF OpensHandle
    <3>. QED
      BY <3>1 DEF Undisturbed
  <2>. QED
    BY <1>3, <1>4, <2>1, <2>2, <2>3, <2>4 DEF HandleGroup, HandleOutlivesItsUse
<1>10. Reading'
  BY <1>1, <1>4, <1>5, <1>7, ReadingStays
<1>. QED
  BY <1>7, <1>8, <1>9, <1>10, InvNext

\* The file is freed; with a handle that comes first.
LEMMA FreeFileStep ==
  ASSUME Inv, NEW t \in Threads, FreeFile(t)
  PROVE  Inv'
<1>1. Sound /\ LibraryKept /\ HandleGroup /\ Iteration /\ Reading
  BY InvIs
<1>2. /\ call[t].op = "free" /\ call[t].on = File /\ call[t].stage = "library" /\ object[File].refs = 0
      /\ (~ file.handle /\ FileGoes(t))
         \/ (file.handle /\ Goes(t) /\ call'[t].stage = "handle" /\ object' = object)
  BY <1>1, FreeFileIs DEF HandleGroup
<1>3. file' = LibraryClosed /\ medium' = medium /\ history' = history
  BY DEF FreeFile
<1>4. /\ file' \in [open : BOOLEAN, using : {"none", "own", "handle"}, handle : BOOLEAN]
      /\ ~ file'.open /\ file'.handle = file.handle
  BY <1>1, <1>3, LibraryClosedIs DEF Sound
<1>5. /\ \A s \in Slots : ~ Exists(s)
      /\ \A u \in Threads : call[u].op # "none" => call[u].op = "free" /\ call[u].on = File
  BY <1>1, <1>2, FileLives DEF Sound
<1>6. \A s \in Slots : ~ object[s].library
  BY <1>1, <1>5, Places DEF LibraryKept
<1>7. FileObjectIsKept' /\ HandleOutlivesItsUse'
  BY <1>1, <1>3, <1>4 DEF HandleGroup, FileObjectIsKept, HandleOutlivesItsUse
<1>8. CASE FileGoes(t)
  <2>1. /\ ~ file.handle /\ ObjectsTyped /\ held' = held /\ object'[File] = NoObject
        /\ (\A s \in Slots : object'[s] = object[s]) /\ Becomes(t, NoCall)
    BY <1>2, <1>8 DEF FileGoes, Goes, Going, Becomes, NoCall
  <2>2. Core' /\ (\A u \in Threads : call'[u] = NoCall) /\ (\A x \in Objects : ~ Exists(x)')
    BY <1>1, <1>2, <1>8, FileGoesCore
  <2>3. Typed'
    BY <1>1, <1>3, <1>4, <2>1 DEF Sound, Typed, ObjectsTyped, Becomes
  <2>4. NoCall.op = "none" /\ NoCall.stage = "idle" /\ NoCall.slot = File
    BY DEF NoCall
  <2>5. Keeps(t) /\ FoundFits(t) /\ call'[t].stage = "idle"
    BY <2>1, <2>2, <2>4 DEF Keeps, Stays, FoundFits, InMethod, Becomes
  <2>6. LibraryKept'
    <3>1. \A x \in Objects : LibraryStays(x)
      <4>1. \A x \in Objects : ~ object'[x].library
        BY <1>6, <2>1, Places DEF NoObject
      <4>. QED
        BY <2>2, <4>1 DEF LibraryStays
    <3>. QED
      BY <1>1, <1>6, <2>1, <3>1, LibraryStaysKept
  <2>7. HandleGroup'
    <3>1. HandleOwned' /\ FileFreed'
      BY <1>4, <2>1, <2>2, <2>4 DEF HandleOwned, FileFreed
    <3>2. Undisturbed'
      BY <2>2, <2>4 DEF Undisturbed, Settles, OpensHandle
    <3>. QED
      BY <1>7, <3>1, <3>2 DEF HandleGroup
  <2>8. Iteration'
    <3>1. ~ IsSequence(File)
      BY <1>1, SequencesAreSlots, Places DEF Sound
    <3>2. history.given[File] = <<>>
      BY <1>1, <3>1, Places DEF Iteration, Bounded
    <3>3. IndexStarts(File)
      BY <1>3, <2>1, <2>2, <2>4, <3>2 DEF IndexStarts, NoObject, InMethod
    <3>4. \A s \in Slots : IndexStays(s)
      BY <1>3, <2>1 DEF IndexStays
    <3>. QED
      BY <1>1, <2>3, <2>5, <3>3, <3>4, Places, IterationStays
  <2>9. Reading'
    BY <1>1, <1>3, <2>5, ReadingStays
  <2>. QED
    BY <2>2, <2>3, <2>6, <2>7, <2>8, <2>9, InvNext
<1>9. CASE file.handle /\ Goes(t) /\ call'[t].stage = "handle" /\ object' = object
  <2>1. FoundFits(t) /\ ~ LibraryFreed(t, call[t].on) /\ ~ LibraryFreed(t, call[t].on)'
    BY <1>2, <1>9 DEF FoundFits, LibraryFreed
  <2>2. /\ Typed' /\ Core' /\ Keeps(t) /\ Iteration'
        /\ \A x \in Objects : LibraryStays(x)
        /\ call'[t].op = "free" /\ call'[t].on = File
    <3>1. /\ medium' \in [refs : Int, offset : {0} \cup Offsets]
          /\ history' \in [disturbed : BOOLEAN, closed : BOOLEAN, shared : SUBSET Objects,
                           given : [Objects -> Seq(Found)]]
      BY <1>1, <1>3, FieldsTyped DEF Sound
    <3>. QED
      BY <1>2, <1>3, <1>4, <1>9, <2>1, <3>1, GoesOn
  <2>3. LibraryKept'
    BY <1>1, <1>6, <1>9, <2>2, LibraryStaysKept
  <2>4. HandleGroup'
    <3>1. HandleOwned'
      BY <1>9, <2>2 DEF HandleOwned, ClosesHandle
    <3>2. Exists(File)'
      <4>1. Exists(File)
        BY <1>1, <1>2, Places DEF Sound, Claimed, Claims
      <4>. QED
        BY <1>9, <4>1 DEF Exists
    <3>3. FileFreed'
      BY <1>4, <3>2 DEF FileFreed
    <3>4. \A u \in Threads : call'[u].op \in {"none", "free"}
      BY <1>5, <2>2 DEF Keeps, Stays
    <3>5. \A op \in {"none", "free"} : ~ Settles(op) /\ op # "close" /\ op # "open file object"
      BY DEF Settles
    <3>6. Undisturbed'
      BY <3>4, <3>5 DEF Undisturbed, OpensHandle
    <3>. QED
      BY <1>7, <3>1, <3>3, <3>6 DEF HandleGroup
  <2>5. Reading'
    BY <1>1, <1>3, <1>9, <2>2, ReadingStays
  <2>. QED
    BY <2>2, <2>3, <2>4, <2>5, InvNext
<1>. QED
  BY <1>2, <1>8, <1>9

\* A file object could not be opened: its handle is freed.
LEMMA ReturnOpenFailsStep ==
  ASSUME Inv, NEW t \in Threads, Busy(t), ReturnOpenFails(t)
  PROVE  Inv'
<1>1. Sound /\ LibraryKept /\ HandleGroup /\ Iteration /\ Reading
  BY InvIs
<1>2. call[t].op = "open file object" /\ call[t].stage = "failed" /\ held' = held /\ history' = history
  BY DEF ReturnOpenFails
<1>3. call[t].slot = File /\ InMethod(call[t])
  BY <1>1, <1>2 DEF Sound, Calls, Shaped, Getting, InMethod
<1>4. Ends(t)
  BY <1>1, <1>2, <1>3, EndsIs DEF ReturnOpenFails, InMethod
<1>5. CASE ~ file.handle
  <2>1. UNCHANGED <<file, medium, history>>
    BY <1>5 DEF ReturnOpenFails
  <2>. QED
    BY <1>4, <1>5, <2>1, EndsStep
<1>6. CASE file.handle
  <2>1. PICK o \in Objects : o = call[t].on
    BY <1>1, CallIs DEF Sound
  <2>2. /\ EndsAt(t, o) /\ ObjectsTyped
        /\ \A x \in Objects : SameButRefs(x) /\ object'[x].index = object[x].index
    BY <1>4, <2>1 DEF Ends
  <2>3. /\ Keeps(t) /\ ~ InMethod(call'[t]) /\ call'[t].stage \in {"idle", "library"}
        /\ \A u \in Threads, x \in Objects : LibraryFreed(u, x)' <=> LibraryFreed(u, x) /\ u # t
    BY <1>1, <2>2, EndsAtKeeps
  <2>4. /\ file' \in [open : BOOLEAN, using : {"none", "own", "handle"}, handle : BOOLEAN]
        /\ medium' \in [refs : Int, offset : {0} \cup Offsets]
        /\ file'.open = file.open /\ file'.using = file.using /\ ~ file'.handle
        /\ medium'.offset = medium.offset /\ FileObjectIsKept'
    <3>1. HandleGone
      BY <1>6 DEF ReturnOpenFails, HandleGone
    <3>. QED
      BY <1>1, <3>1, HandleGoneIs DEF Sound, HandleGroup
  <2>5. Core'
    BY <1>1, <1>4, EndsCore
  <2>6. Typed'
    BY <1>1, <1>2, <2>2, <2>4 DEF Sound, Typed, ObjectsTyped, EndsAt, Becomes
  <2>7. FoundFits(t)
    BY <2>3 DEF FoundFits, InMethod
  <2>8. LibraryKept'
    <3>1. \A x \in Objects : LibraryStays(x)
      BY <1>2, <2>2, <2>3 DEF LibraryStays, SameButRefs, LibraryFreed
    <3>2. \A s \in Slots : object'[s].library => object[s].library
      BY <2>2, Places DEF SameButRefs
    <3>. QED
      BY <1>1, <1>2, <2>4, <3>1, <3>2, LibraryStaysKept
  <2>9. HandleGroup'
    <3>1. Settles(call[t].op)
      BY <1>2 DEF Settles
    <3>2. HandleOwned'
      BY <2>4 DEF HandleOwned
    <3>3. FileFreed'
      <4>1. ~ Exists(File)' => ~ file'.open
        BY <1>1, <2>2, <2>4, Places DEF HandleGroup, FileFreed, SameButRefs, Exists
      <4>2. \A u \in Threads : call'[u].op = "free" /\ call'[u].stage = "handle" => ~ file'.open
        BY <1>1, <2>3, <2>4 DEF HandleGroup, FileFreed, Keeps, Stays
      <4>. QED
        BY <2>4, <4>1, <4>2 DEF FileFreed
    <3>4. Undisturbed'
      <4>1. ASSUME ~ history'.disturbed, NEW u \in Threads
            PROVE  ~ Settles(call'[u].op) /\ ~ OpensHandle(u)' /\ call'[u].op # "close"
        <5>1. \A w \in Threads \ {t} : ~ InMethod(call[w])
          BY <1>1, <1>2, <3>1, <4>1, SettlesAlone
        <5>2. call'[u].op \in {"none", "free"}
          BY <2>3, <5>1 DEF Keeps, Stays, InMethod
        <5>3. \A op \in {"none", "free"} : ~ Settles(op) /\ op # "close" /\ op # "open file object"
          BY DEF Settles
        <5>. QED
          BY <5>2, <5>3 DEF OpensHandle
      <4>. QED
        BY <4>1 DEF Undisturbed
    <3>5. HandleOutlivesItsUse'
      BY <1>1, <1>2, <2>4 DEF HandleGroup, Undisturbed, OpensHandle, HandleOutlivesItsUse
    <3>. QED
      BY <2>4, <3>2, <3>3, <3>4, <3>5 DEF HandleGroup
  <2>10. Iteration'
    <3>1. \A x \in Objects : IndexStays(x)
      BY <1>2, <2>2 DEF IndexStays, SameButRefs
    <3>. QED
      BY <1>1, <2>3, <2>6, <2>7, <3>1, IterationStays
  <2>11. Reading'
    BY <1>1, <2>3, <2>4, ReadingStays
  <2>. QED
    BY <2>5, <2>6, <2>8, <2>9, <2>10, <2>11, InvNext
<1>. QED
  BY <1>5, <1>6

\* Returning from an open or a close keeps it.
LEMMA ReturnNoneStep ==
  ASSUME Inv, NEW t \in Threads, Busy(t), ReturnNone(t)
  PROVE  Inv'
<1>1. Sound
  BY InvIs
<1>2. Ends(t) /\ UNCHANGED <<file, medium, history>>
  BY <1>1, EndsIs DEF ReturnNone, Busy
<1>3. (~ OpensHandle(t) /\ ~ ClosesHandle(t)) \/ ~ file.handle
  BY <1>1 DEF Sound, Calls, Shaped, InCall, ReturnNone, Answered, OpensHandle, ClosesHandle
<1>. QED
  BY <1>2, <1>3, EndsStep

\* The calls of the program.
LEMMA CallStep ==
  ASSUME Inv, NEW t \in Threads, Call(t)
  PROVE  Inv'
<1>1. Sound
  BY InvIs
<1>2. CASE Open(t) \/ Close(t) \/ OpenFileObject(t)
  <2>1. ASSUME NEW op \in {"open", "open file object", "close"}, Begin(t, File, op, "none"), held' = held,
               FileBegins(op)
        PROVE  Inv'
    BY <2>1, SettlingBegins, BeginsStep
  <2>2. CASE Open(t)
    BY <2>1, <2>2 DEF Open, Unchanged, FileBegins
  <2>3. CASE Close(t)
    BY <2>1, <2>3 DEF Close, Unchanged, FileBegins
  <2>4. CASE OpenFileObject(t)
    BY <2>1, <2>4 DEF OpenFileObject, FileBegins
  <2>. QED
    BY <1>2, <2>2, <2>3, <2>4
<1>3. CASE OpenFileObjectAgain(t)
  BY <1>3, OpenFileObjectAgainStep
<1>4. ASSUME NEW o \in Objects, NEW part \in {"table", "column", "record", "longvalue"},
             GetPart(t, o, part) \/ GetItem(t, o) \/ IterNext(t, o)
      PROVE  Inv'
  <2>1. part \in Classes /\ file' = file /\ medium' = medium
    BY <1>4, ClassesAre DEF GetPart, GetItem, IterNext, Unchanged
  <2>2. PICK op, p : op \in Getting /\ Begins(t, o, op, p)
    BY <1>1, <1>4, <2>1, GettingBegins
  <2>3. op # "open file object"
    BY <2>2 DEF Getting
  <2>. QED
    BY <2>1, <2>2, <2>3, BeginsStep DEF FileBegins
<1>5. ASSUME NEW o \in Objects, NEW part \in Sequences, GetSequence(t, o, part)
      PROVE  Inv'
  <2>1. FileBegins("sequence")
    BY <1>5 DEF FileBegins, GetSequence, Unchanged
  <2>. QED
    BY <1>5, <2>1, SequenceBegins, BeginsStep
<1>6. ASSUME NEW o \in Objects, GetValue(t, o)
      PROVE  Inv'
  <2>1. FileBegins("value")
    BY <1>6 DEF FileBegins, GetValue, Unchanged
  <2>. QED
    BY <1>6, <2>1, ValueBegins, BeginsStep
<1>7. ASSUME NEW o \in Objects, Iter(t, o)
      PROVE  Inv'
  BY <1>1, <1>7, IterIs, TakesStep DEF Iter
<1>8. ASSUME NEW o \in Objects, Drop(t, o)
      PROVE  Inv'
  BY <1>1, <1>8, DropIs, LetsGoStep DEF Drop
<1>. QED
  BY <1>2, <1>3, <1>4, <1>5, <1>6, <1>7, <1>8 DEF Call

\* The steps of a call.
LEMMA GoStep ==
  ASSUME Inv, NEW t \in Threads, Go(t)
  PROVE  Inv'
<1>1. Busy(t) /\ (InTheLibrary(t) \/ Frees(t) \/ Returns(t))
  BY DEF Go
<1>2. CASE InTheLibrary(t)
  BY <1>1, <1>2, SeekStep, ReadStep, LibraryOpensStep, LibraryClosesStep, LibraryMakesStep, LibraryReturnsStep
     DEF InTheLibrary
<1>3. CASE Frees(t)
  BY <1>1, <1>3, FreeLibraryStep, ReleaseParentStep, FreeFileStep, FreeHandleStep DEF Frees
<1>4. CASE Returns(t)
  BY <1>1, <1>4, ReturnPartStep, ReturnNoMemoryStep, ReturnSequenceStep, ReturnOpenFailsStep, ReturnNoneStep,
     LibraryReturnsStep DEF Returns
<1>. QED
  BY <1>1, <1>2, <1>3, <1>4

\* The file is there at first, and nothing else.
LEMMA InvInit == Init => Inv
<1>. SUFFICES ASSUME Init
              PROVE  Inv
  OBVIOUS
<1>. DEFINE first == [NoObject EXCEPT !.class = "file", !.refs = 1, !.library = TRUE]
<1>1. /\ object = [o \in Objects |-> IF o = File THEN first ELSE NoObject]
      /\ held = [o \in Objects |-> IF o = File THEN 1 ELSE 0]
      /\ call = [t \in Threads |-> NoCall]
      /\ file = [open |-> FALSE, using |-> "none", handle |-> FALSE]
      /\ medium = [refs |-> 1, offset |-> 0]
      /\ history = [disturbed |-> FALSE, closed |-> FALSE, shared |-> {}, given |-> [o \in Objects |-> <<>>]]
  BY DEF Init
<1>2. /\ first \in ObjectRecord /\ first.class = "file" /\ first.refs = 1 /\ first.library /\ first.index = 0
      /\ NoObject \in ObjectRecord /\ NoObject.class = "none" /\ NoObject.refs = 0 /\ ~ NoObject.library
      /\ NoObject.index = 0
  <2>1. NoObject \in ObjectRecord /\ NoObject.class = "none" /\ NoObject.refs = 0 /\ NoObject.index = 0
    BY NothingTyped DEF NoObject
  <2>2. ~ NoObject.library
    BY DEF NoObject
  <2>3. "file" \in Classes
    BY ClassesAre
  <2>4. first \in ObjectRecord
    <3>1. \A class \in Classes, refs \in Int, yes \in BOOLEAN :
            [NoObject EXCEPT !.class = class, !.refs = refs, !.library = yes] \in ObjectRecord
      BY NothingTyped, Places DEF NoObject, ObjectRecord
    <3>2. 1 \in Int /\ TRUE \in BOOLEAN
      OBVIOUS
    <3>. QED
      BY <2>3, <3>1, <3>2, Zenon
  <2>5. first.class = "file" /\ first.refs = 1 /\ first.index = 0
    BY DEF NoObject
  <2>6. first.library
    BY DEF NoObject
  <2>. QED
    BY <2>1, <2>2, <2>4, <2>5, <2>6
<1>. HIDE DEF first
<1>3. /\ \A s \in Slots : object[s] = NoObject /\ held[s] = 0
      /\ object[File] = first /\ held[File] = 1
      /\ \A t \in Threads : call[t] = NoCall
  BY <1>1, Places
<1>4. /\ NoCall.op = "none" /\ NoCall.stage = "idle" /\ NoCall.slot = File /\ NoCall \in CallRecord
      /\ Shaped(NoCall)
  BY NothingTyped DEF NoCall, Shaped, Settles, Getting
<1>5. Typed
  <2>1. object \in [Objects -> ObjectRecord] /\ held \in [Objects -> 0 .. MaxHeld]
        /\ call \in [Threads -> CallRecord]
    BY <1>1, <1>2, <1>4, BoundsAssumption
  <2>2. /\ file \in [open : BOOLEAN, using : {"none", "own", "handle"}, handle : BOOLEAN]
        /\ medium \in [refs : Int, offset : {0} \cup Offsets]
    BY <1>1
  <2>3. [o \in Objects |-> <<>>] \in [Objects -> Seq(Found)]
    OBVIOUS
  <2>4. history \in [disturbed : BOOLEAN, closed : BOOLEAN, shared : SUBSET Objects,
                     given : [Objects -> Seq(Found)]]
    BY <1>1, <2>3
  <2>. QED
    BY <2>1, <2>2, <2>4 DEF Typed
<1>6. Calls
  BY <1>3, <1>4 DEF Calls
<1>7. \A t \in Threads, o \in Objects : ~ Claims(t, o)
  BY <1>3, <1>4 DEF Claims
<1>8. Exists(File) /\ \A s \in Slots : ~ Exists(s)
  BY <1>2, <1>3 DEF Exists
<1>9. Claimed
  BY <1>7 DEF Claimed
<1>10. Counted /\ Living
  <2>1. ASSUME NEW o \in Objects
        PROVE  /\ object[o].refs = held[o] + Cardinality(Children(o)) + Cardinality(Calling(o))
               /\ object[o].refs > 0 <=> Alive(o)
    <3>1. Children(o) = {} /\ Calling(o) = {}
      BY <1>3, <1>4, <1>8 DEF Children, Calling, Busy
    <3>2. Cardinality({}) = 0
      BY FS_EmptySet
    <3>3. Alive(o) <=> o = File
      BY <1>7, <1>8, Places DEF Alive
    <3>4. object[o].refs = held[o] /\ (held[o] > 0 <=> o = File) /\ held[o] \in Nat
      BY <1>2, <1>3, Places
    <3>. QED
      BY <3>1, <3>2, <3>3, <3>4
  <2>. QED
    BY <2>1 DEF Counted, Living
<1>11. Gone /\ Family /\ Wanted
  BY <1>2, <1>3, <1>4, <1>8, Places DEF Gone, Family, Wanted, ClassOf, Getting
<1>12. LibraryKept
  <2>1. ~ IsSequence(File)
    BY <1>2, <1>3, ClassesAre DEF IsSequence
  <2>. QED
    BY <1>2, <1>3, <1>4, <1>8, <2>1, Places DEF LibraryKept, LibraryFreed
<1>13. HandleGroup
  <2>1. ~ file.open /\ ~ file.handle /\ medium.refs = 1
    BY <1>1
  <2>2. \A t \in Threads : call[t].op = "none"
    BY <1>3, <1>4
  <2>3. HandleOwned /\ HandleOutlivesItsUse /\ FileObjectIsKept
    BY <2>1 DEF HandleOwned, HandleOutlivesItsUse, FileObjectIsKept
  <2>4. FileFreed /\ Undisturbed
    BY <1>8, <2>2 DEF FileFreed, Undisturbed, Settles, OpensHandle
  <2>. QED
    BY <2>3, <2>4 DEF HandleGroup
<1>14. Iteration
  <2>1. \A o \in Objects : Nexts(o) = {} /\ Calling(o) = {}
    BY <1>3, <1>4 DEF Nexts, Calling, Busy
  <2>2. Cardinality({}) = 0 /\ Cardinality(Threads) \in Nat \ {0} /\ Items \in Nat
    BY FS_EmptySet, SomeThread, BoundsAssumption
  <2>3. \A o \in Objects : object[o].index = 0 /\ history.given[o] = <<>>
    BY <1>1, <1>2, <1>3, Places
  <2>4. Bounded
    <3>. DEFINE k == Cardinality(Threads)
    <3>0. \A o \in Objects : Cardinality(Nexts(o)) = 0
      BY <2>1, <2>2
    <3>1. \A o \in Objects : object[o].index + Cardinality(Nexts(o)) = 0
      BY <2>3, <3>0
    <3>2. k \in Nat \ {0}
      BY <2>2
    <3>. HIDE DEF k
    <3>3. 0 <= Items + k - 1
      BY <2>2, <3>2
    <3>4. 0 <= Items + Cardinality(Threads) - 1
      BY <3>3 DEF k
    <3>. QED
      BY <2>3, <3>1, <3>4 DEF Bounded
  <2>5. Iterated /\ ItemsInOrder
    <3>1. [i \in 1 .. 0 |-> i - 1] = <<>>
      OBVIOUS
    <3>. QED
      BY <2>1, <2>3, <3>1, Places DEF Iterated, ItemsInOrder
  <2>. QED
    BY <2>4, <2>5 DEF Iteration
<1>15. Reading
  BY <1>3, <1>4 DEF Reading, Seeking, ReadsAtItsOffset
<1>. QED
  BY <1>5, <1>6, <1>9, <1>10, <1>11, <1>12, <1>13, <1>14, <1>15, InvIs DEF Sound

\* The invariant is kept when nothing changes.
LEMMA StuttersStep ==
  ASSUME Inv, UNCHANGED vars
  PROVE  Inv'
<1>1. PICK t \in Threads : TRUE
  BY ThreadsAssumption
<1>2. object' = object /\ held' = held /\ call' = call /\ file' = file /\ medium' = medium /\ history' = history
  BY DEF vars
<1>3. Sound
  BY InvIs
<1>4. Typed'
  BY <1>2, <1>3 DEF Sound, Typed
<1>5. Core'
  BY <1>2, <1>3, CoreStays
<1>6. Keeps(t) /\ Stays(t) /\ Peaceful(t) /\ FoundFits(t)
  BY <1>2 DEF Keeps, Stays, Peaceful, FoundFits, OpensHandle, ClosesHandle
<1>7. \A x \in Objects : IndexStays(x) /\ LibraryStays(x)
  BY <1>2 DEF IndexStays, LibraryStays, LibraryFreed
<1>8. (Exists(File) => Exists(File)') /\ \A s \in Slots : object'[s].library => object[s].library
  BY <1>2 DEF Exists
<1>. QED
  BY <1>2, <1>4, <1>5, <1>6, <1>7, <1>8, QuietStep

\* The invariant holds in every state, whatever the threads call and however their calls interleave.
THEOREM ObjectsInvariant == Spec => []Inv
<1>1. Inv /\ [Next]_vars => Inv'
  <2>. SUFFICES ASSUME Inv, [Next]_vars
                PROVE  Inv'
    OBVIOUS
  <2>1. CASE Next
    <3>1. PICK t \in Threads : Call(t) \/ Go(t)
      BY <2>1 DEF Next
    <3>. QED
      BY <3>1, CallStep, GoStep
  <2>2. CASE UNCHANGED vars
    BY <2>2, StuttersStep
  <2>. QED
    BY <2>1, <2>2
<1>. QED
  BY <1>1, InvInit, PTL DEF Spec

-----------------------------------------------------------------------------
(***************************************************************************)
(* What the invariant says.                                                *)
(***************************************************************************)
LEMMA TypesFollow ==
  ASSUME Inv
  PROVE  TypeOK
<1>1. Typed /\ Counted /\ Bounded /\ FileObjectIsKept
  BY DEF Inv
<1>2. ASSUME NEW o \in Objects
      PROVE  /\ object[o].class \in Classes /\ object[o].parent \in Objects
             /\ object[o].refs \in Nat /\ object[o].library \in BOOLEAN
             /\ object[o].index \in 0 .. Items + Cardinality(Threads) - 1
             /\ held[o] \in 0 .. MaxHeld
  <2>1. /\ object[o].class \in Classes /\ object[o].parent \in Objects /\ object[o].library \in BOOLEAN
        /\ object[o].index \in Nat /\ held[o] \in Nat /\ held[o] \in 0 .. MaxHeld
    BY <1>1, ObjectIs DEF Typed
  <2>2. object[o].refs \in Nat
    BY <1>1, <2>1, Counts DEF Counted
  <2>. DEFINE k == Cardinality(Threads)
              n == Cardinality(Nexts(o))
  <2>3. object[o].index + n <= Items + k - 1 /\ n \in Nat /\ k \in Nat /\ Items \in Nat
    BY <1>1, NextsAre, SomeThread, BoundsAssumption DEF Bounded
  <2>. HIDE DEF k, n
  <2>4. object[o].index \in 0 .. Items + k - 1
    BY <2>1, <2>3
  <2>. QED
    BY <2>1, <2>2, <2>4 DEF k
<1>3. /\ file.open \in BOOLEAN /\ file.handle \in BOOLEAN /\ file.using \in {"none", "own", "handle"}
      /\ medium.offset \in {0} \cup Offsets
  BY <1>1, FieldsTyped
<1>4. medium.refs \in 1 .. 2
  BY <1>1 DEF FileObjectIsKept
<1>. QED
  BY <1>2, <1>3, <1>4 DEF TypeOK

\* References are exact and what the program holds is there.
LEMMA ReferencesFollow ==
  ASSUME Inv
  PROVE  RefsAreExact /\ HeldObjectsExist
<1>1. Sound
  BY InvIs
<1>2. ASSUME NEW o \in Objects, held[o] > 0
      PROVE  Exists(o) /\ ~ InFree(o)
  <2>1. Alive(o)
    BY <1>1, <1>2, ReferredLives DEF Sound
  <2>. QED
    BY <2>1 DEF Alive, Claims, InFree
<1>. QED
  BY <1>1, <1>2 DEF Sound, Counted, RefsAreExact, HeldObjectsExist

\* An object that nothing claims and that is no sequence has its library object.
LEMMA AliveHasLibrary ==
  ASSUME LibraryKept, NEW o \in Objects, Alive(o), ~ IsSequence(o)
  PROVE  object[o].library
BY DEF LibraryKept, Alive, Claims, LibraryFreed

\* A library object is freed before that of its parent.
LEMMA LibraryFollows ==
  ASSUME Inv
  PROVE  LibraryObjectsHaveTheirParent
<1>1. Sound /\ LibraryKept
  BY InvIs
<1>2. ASSUME NEW c \in Slots, object[c].library
      PROVE  object[object[c].parent].library /\ (file.open \/ history.closed)
  <2>1. Exists(c)
    BY <1>1, <1>2, Places DEF LibraryKept
  <2>2. object[c].parent \in Objects /\ Alive(object[c].parent)
    BY <1>1, <2>1, ParentLives DEF Sound
  <2>3. ~ IsSequence(object[c].parent)
    BY <1>1, <2>1, NoSequenceAbove DEF Sound
  <2>. QED
    BY <1>1, <1>2, <2>2, <2>3, AliveHasLibrary DEF LibraryKept
<1>3. ASSUME NEW t \in Threads, InLibrary(t)
      PROVE  object[Target(call[t].on)].library
  <2>1. call[t].op \notin {"none", "free"}
    <3>1. Shaped(call[t])
      BY <1>1 DEF Sound, Calls
    <3>. QED
      BY <1>3, <3>1 DEF InLibrary, Shaped, NoCall
  <2>2. /\ Target(call[t].on) \in Objects /\ Alive(Target(call[t].on))
        /\ ~ IsSequence(Target(call[t].on))
    BY <1>1, <2>1, TargetLives DEF Sound
  <2>. QED
    BY <1>1, <2>2, AliveHasLibrary
<1>. QED
  BY <1>2, <1>3 DEF LibraryObjectsHaveTheirParent

\* Of the classes, the file, a table and a record are the parents; without calls and references each
\* object needs a child, and a long value has none.
LEMMA NothingFollows ==
  ASSUME Inv
  PROVE  NothingIsLeft
<1>. SUFFICES ASSUME \A t \in Threads : ~ Busy(t), \A o \in Objects : held[o] = 0
              PROVE  (\A o \in Objects : ~ Exists(o)) /\ ~ file.open /\ medium.refs = 1
  BY DEF NothingIsLeft
<1>1. Sound /\ HandleGroup
  BY InvIs
<1>2. \A t \in Threads : call[t].op = "none" /\ call[t].slot = File
  <2>1. \A t \in Threads : call[t].op = "none" => call[t].slot = File
    BY <1>1 DEF Sound, Calls, Shaped, NoCall
  <2>. QED
    BY <2>1 DEF Busy
<1>3. ASSUME NEW o \in Objects, Exists(o)
      PROVE  \E c \in Slots : Exists(c) /\ object[c].parent = o
  <2>1. \A t \in Threads : ~ Claims(t, o)
    BY <1>2, Places DEF Claims
  <2>2. object[o].refs > 0
    BY <1>1, <1>3, <2>1 DEF Sound, Living, Alive
  <2>3. Calling(o) = {} /\ held[o] = 0
    BY <1>2 DEF Calling, Busy
  <2>4. object[o].refs = held[o] + Cardinality(Children(o)) + Cardinality(Calling(o))
    BY <1>1 DEF Sound, Counted
  <2>5. /\ Cardinality(Children(o)) \in Nat /\ Cardinality(Children(o)) = 0 <=> Children(o) = {}
        /\ Cardinality(Calling(o)) = 0
    BY <1>1, <2>3, Counts DEF Sound
  <2>6. Children(o) # {}
    BY <2>2, <2>3, <2>4, <2>5
  <2>. QED
    BY <2>6 DEF Children
<1>4. ASSUME NEW o \in Objects, Exists(o)
      PROVE  \E c \in Objects :
                Exists(c) /\ ClassOf(c) \in DOMAIN ParentClass /\ ParentClass[ClassOf(c)] = ClassOf(o)
  BY <1>1, <1>3, <1>4, Places DEF Sound, Family
<1>5. /\ \A class \in DOMAIN ParentClass : ParentClass[class] \in {"file", "table", "record"}
      /\ \A class \in DOMAIN ParentClass : ParentClass[class] = "record" => class = "longvalue"
      /\ \A class \in DOMAIN ParentClass : ParentClass[class] = "table" =>
           class \in {"columns", "column", "records", "record"}
      /\ \A class \in DOMAIN ParentClass : ParentClass[class] = "file" => class \in {"tables", "table"}
  BY ClassesAre DEF ParentClass
<1>6. \A o \in Objects : Exists(o) => ClassOf(o) \in {"file", "table", "record"}
  BY <1>4, <1>5
<1>7. \A o \in Objects : Exists(o) => ClassOf(o) # "record"
  BY <1>4, <1>5, <1>6
<1>8. \A o \in Objects : Exists(o) => ClassOf(o) # "table"
  BY <1>4, <1>5, <1>6, <1>7
<1>9. \A o \in Objects : ~ Exists(o)
  BY <1>4, <1>5, <1>6, <1>7, <1>8
<1>10. ~ file.open /\ ~ file.handle
  BY <1>1, <1>9, Places DEF HandleGroup, FileFreed
<1>11. medium.refs = 1
  BY <1>1, <1>10 DEF HandleGroup, FileObjectIsKept
<1>. QED
  BY <1>9, <1>10, <1>11

\* Objects live as long as something refers to them and no longer: reference counts are exact, what the
\* program holds exists, library objects go before their parents, and in the end nothing is left.
THEOREM ReferencesStaySound == Spec => []ReferencesAreSound
<1>1. Inv => ReferencesAreSound
  BY TypesFollow, ReferencesFollow, LibraryFollows, NothingFollows DEF ReferencesAreSound
<1>. QED
  BY <1>1, ObjectsInvariant, PTL

\* An iterator that one thread uses at a time gives every item once and in order.
THEOREM ItemsStayInOrder == Spec => []ItemsInOrder
<1>1. Inv => ItemsInOrder
  BY DEF Inv
<1>. QED
  BY <1>1, ObjectsInvariant, PTL

\* The IO handle and its file object stay while they are read through, and a call that is alone reads at its
\* offset.
THEOREM HandleStaysKept == Spec => []HandleIsKept
<1>1. Inv => HandleIsKept
  BY DEF Inv, HandleIsKept
<1>. QED
  BY <1>1, ObjectsInvariant, PTL
=============================================================================
