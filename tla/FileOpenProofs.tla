--------------------------- MODULE FileOpenProofs ---------------------------
(***************************************************************************)
(* Proofs about FileOpen for any handles, any files and any number of      *)
(* faults: the types, that no open or close closes the handle of another,  *)
(* and that a file is open with all of its objects or not at all.          *)
(***************************************************************************)
EXTENDS FileOpen, TLAPS

\* The flag tells whose handle the file has.
CreatedIsLibrarys == created <=> fileHandle \in LibraryHandles

LEMMA NoCallOf ==
  ASSUME NEW op
  PROVE  [NoCall EXCEPT !.op = op]
           \in [op : {op}, handle : {NoHandle}, wasOpen : {FALSE}, content : Content]
BY ContentsAssumption DEF NoCall

LEMMA FaultsBounded ==
  ASSUME faults \in 0 .. MaxFaults, Fault
  PROVE  faults' \in 0 .. MaxFaults
BY BoundsAssumption DEF Fault

LEMMA NextProbeNat ==
  ASSUME probe \in Nat
  PROVE  NextProbe \in Nat
BY SizesAssumption DEF NextProbe

LEMMA Unchanged ==
  ASSUME UNCHANGED vars
  PROVE  /\ UNCHANGED <<handle, callerOpened, reopened>>
         /\ UNCHANGED <<fileHandle, created, opened, objects, format, abort>>
         /\ UNCHANGED <<pc, call, probe, answer, faults>>
BY DEF vars, handleVars, fileVars, callVars

(***************************************************************************)
(* Type correctness of the file and of the calls that open and close it.   *)
(***************************************************************************)
LEMMA InitTypeOK == Init => TypeOK
<1>1. NoCall \in [op : {"none"}, handle : {NoHandle}, wasOpen : BOOLEAN, content : Content]
  BY ContentsAssumption DEF NoCall
<1>2. 0 \in 0 .. MaxFaults /\ 0 \in Nat
  BY BoundsAssumption
<1>3. NoFormat \in Header
  BY <1>2 DEF NoFormat, Header
<1>4. ASSUME Init
      PROVE  TypeOK
  BY <1>1, <1>2, <1>3, <1>4 DEF Init, TypeOK
<1>. QED
  BY <1>4

LEMMA NextTypeOK ==
  ASSUME TypeOK, CreatedIsLibrarys, [Next]_vars
  PROVE  TypeOK'
<1>. USE DEF TypeOK
<1>1. CASE UNCHANGED vars
  BY <1>1, Unchanged, ZenonT(40)
<1>2. ASSUME NEW h \in CallerHandles, CallerOpens(h) \/ CallerCloses(h)
      PROVE  TypeOK'
  BY <1>2, ZenonT(40) DEF CallerOpens, CallerCloses, fileVars, callVars, Handles
<1>3. ASSUME NEW h \in Handles, NEW content \in Contents, NEW op \in {"open", "open file io handle"},
             Begin(op, h, content), handle' \in [Handles -> {"none", "closed", "open"}]
      PROVE  TypeOK'
  BY <1>3, ContentsAssumption DEF Begin, fileVars, Busy
<1>4. ASSUME NEW h \in LibraryHandles, NEW content \in Contents, Open(h, content)
      PROVE  TypeOK'
  BY <1>3, <1>4 DEF Open, Handles
<1>5. ASSUME NEW h \in CallerHandles, NEW content \in Contents, OpenFileIOHandle(h, content)
      PROVE  TypeOK'
  BY <1>3, <1>5 DEF OpenFileIOHandle, Handles
<1>7. CASE OpenRefused
  BY <1>7, NoCallOf DEF OpenRefused, handleVars, fileVars
<1>8. CASE SignalAbort
  <2>1. /\ UNCHANGED <<handle, callerOpened, reopened>>
        /\ UNCHANGED <<fileHandle, created, opened, objects, format>>
        /\ UNCHANGED <<pc, call, probe, answer, faults>>
        /\ abort' = TRUE
    BY <1>8 DEF SignalAbort, handleVars, callVars
  <2>2. /\ reopened' \in BOOLEAN
        /\ created' \in BOOLEAN /\ opened' \in BOOLEAN /\ abort' \in BOOLEAN
    BY <2>1
  <2>. QED
    BY <2>1, <2>2
<1>9. CASE Initialize
  BY <1>9, ZenonT(40) DEF Initialize, handleVars, fileVars
<1>10. ASSUME NEW isOpened \in BOOLEAN, NEW remaining \in SUBSET PartNames, Undo(isOpened, remaining),
              format' \in Header, abort' \in BOOLEAN, faults' \in 0 .. MaxFaults
       PROVE  TypeOK'
  BY <1>10 DEF Undo
<1>11. ASSUME Fault
       PROVE  faults' \in 0 .. MaxFaults
  BY <1>11, FaultsBounded
<1>12. ASSUME ReadFails, faults' \in 0 .. MaxFaults
       PROVE  TypeOK'
  BY <1>10, <1>12 DEF ReadFails
<1>13. CASE IsOpen
  BY <1>13 DEF IsOpen, handleVars, fileVars
<1>14. CASE OpenHandle
  BY <1>14, ZenonT(40) DEF OpenHandle
<1>15. CASE OpenHandleFails
  BY <1>10, <1>11, <1>15 DEF OpenHandleFails
<1>16. CASE AlreadyOpen
  BY <1>10, <1>16 DEF AlreadyOpen
<1>17. CASE ReadPrimary
  BY <1>17, ZenonT(40) DEF ReadPrimary, Primary, Content, handleVars
<1>18. CASE ReadPrimaryFails
  BY <1>11, <1>12, <1>18 DEF ReadPrimaryFails, NoFault
<1>19. CASE ReadBackup
  <2>1. format' \in Header
    BY <1>19 DEF ReadBackup, Backup, Content, Header
  <2>. QED
    BY <1>19, <2>1, ZenonT(40) DEF ReadBackup, handleVars
<1>20. CASE ReadBackupAgain
  <2>1. /\ UNCHANGED <<handle, callerOpened, reopened>>
        /\ UNCHANGED <<fileHandle, created, opened, objects, format, abort>>
        /\ UNCHANGED <<pc, call, answer>>
        /\ probe' = NextProbe
    BY <1>20 DEF ReadBackupAgain, handleVars, fileVars
  <2>2. faults' \in 0 .. MaxFaults
    BY <1>11, <1>20 DEF ReadBackupAgain, NoFault
  <2>3. /\ reopened' \in BOOLEAN
        /\ created' \in BOOLEAN /\ opened' \in BOOLEAN /\ abort' \in BOOLEAN
    BY <2>1
  <2>. QED
    BY <2>1, <2>2, <2>3, NextProbeNat
<1>21. CASE ReadBackupFails
  BY <1>11, <1>12, <1>21 DEF ReadBackupFails, NoFault
<1>22. CASE Check
  BY <1>22, ZenonT(40) DEF Check, handleVars, fileVars
<1>23. CASE CheckFails
  BY <1>12, <1>23 DEF CheckFails
<1>24. CASE MakePart
  <2>1. /\ UNCHANGED <<handle, callerOpened, reopened>>
        /\ UNCHANGED <<fileHandle, created, opened, format, abort>>
        /\ UNCHANGED <<pc, call, probe, answer, faults>>
    BY <1>24 DEF MakePart, handleVars, callVars
  <2>2. objects' \subseteq PartNames
    BY <1>24 DEF MakePart, Content
  <2>3. /\ reopened' \in BOOLEAN
        /\ created' \in BOOLEAN /\ opened' \in BOOLEAN /\ abort' \in BOOLEAN
    BY <2>1
  <2>. QED
    BY <2>1, <2>2, <2>3
<1>25. CASE MakePartFails
  BY <1>11, <1>12, <1>25 DEF MakePartFails, NoFault
<1>26. CASE OpenEnds
  BY <1>26 DEF OpenEnds, handleVars
<1>27. ASSUME NEW next \in {"idle", "freed"}, Forget(next),
              handle' \in [Handles -> {"none", "closed", "open"}],
              callerOpened' \subseteq CallerHandles, answer' \in {-1, 0}, faults' \in 0 .. MaxFaults
       PROVE  TypeOK'
  BY <1>27, NoCallOf DEF Forget, NoFormat, Header
<1>28. ASSUME NEW next \in {"idle", "freed"}, Close(next)
       PROVE  TypeOK'
  BY <1>27, <1>28 DEF Close, Release
<1>29. ASSUME NEW next \in {"idle", "freed"}, CloseHandleFails(next)
       PROVE  TypeOK'
  BY <1>11, <1>27, <1>29 DEF CloseHandleFails, Release, CreatedIsLibrarys, Handles
<1>30. CASE CloseUnopened
  BY <1>30, NoCallOf DEF CloseUnopened, handleVars, fileVars
<1>31. CASE FreeUnopened
  BY <1>31, ZenonT(40) DEF FreeUnopened, handleVars, fileVars
<1>. QED
  BY <1>1, <1>2, <1>4, <1>5, <1>7, <1>8, <1>9, <1>13, <1>14, <1>15, <1>16, <1>17, <1>18, <1>19,
     <1>20, <1>21, <1>22, <1>23, <1>24, <1>25, <1>26, <1>28, <1>29, <1>30, <1>31 DEF Next, Step, CloseCall
-----------------------------------------------------------------------------
(***************************************************************************)
(* The invariant.  AllOrNothing and NoHandleLeaks speak of the states      *)
(* between calls; ObjectsMade and LibraryHandlesInUse say what holds while *)
(* an open is in progress too.                                             *)
(***************************************************************************)
ObjectsMade ==
  /\ ~ Making => IF fileHandle = NoHandle THEN objects = {} ELSE Complete
  /\ Making => objects \subseteq {Parts[i] : i \in PartsOf(call.content)}
  /\ pc \in {"backup", "check"} => objects = {}

LibraryHandlesInUse ==
  {h \in LibraryHandles : handle[h] # "none"} =
    (IF created THEN {fileHandle} ELSE {})
    \union (IF ~ BetweenCalls /\ call.op = "open" THEN {call.handle} ELSE {})

HandlesInv == CreatedIsLibrarys /\ MayCloseHandle /\ HandlesStayOpen /\ LibraryHandlesInUse

FileInv == TypeOK /\ HandlesInv /\ ObjectsMade

(***************************************************************************)
(* The kinds of steps, by what they do to handles and objects.             *)
(***************************************************************************)
Kept == UNCHANGED <<handle, callerOpened, reopened, fileHandle, created, opened>>

Quiet ==
  /\ Kept /\ objects' = objects
  /\ \/ pc' = pc /\ call' = call
     \/ BetweenCalls /\ BetweenCalls'

Undoing ==
  /\ ~ BetweenCalls /\ (pc = "handle" => handle[call.handle] = "closed")
  /\ \/ ~ Making /\ Undo(opened, objects)
     \/ (Making \/ objects = {}) /\ Undo(opened, {})

Progress ==
  /\ Kept /\ call' = call
  /\ (pc = "read" /\ objects = {}) \/ Making
  /\ (pc' \in {"backup", "check"} /\ pc # "objects") \/ (pc' = "objects" /\ Making)
  /\ objects' = objects

LEMMA StepKinds ==
  ASSUME [Next]_vars
  PROVE  \/ Quiet \/ Undoing \/ Progress \/ MakePart
         \/ \E h \in CallerHandles : CallerOpens(h) \/ CallerCloses(h)
         \/ \E h \in LibraryHandles, content \in Contents : Open(h, content)
         \/ \E h \in CallerHandles, content \in Contents : OpenFileIOHandle(h, content)
         \/ IsOpen \/ OpenHandle \/ OpenEnds
         \/ \E next \in {"idle", "freed"} : Close(next) \/ CloseHandleFails(next)
<1>1. CASE UNCHANGED vars
  BY <1>1, Unchanged DEF Quiet, Kept
<1>2. CASE OpenRefused \/ Initialize \/ CloseUnopened \/ FreeUnopened
  BY <1>2 DEF OpenRefused, Initialize, CloseUnopened, FreeUnopened, Idle, Quiet, Kept,
              BetweenCalls, handleVars, fileVars
<1>3. CASE SignalAbort
  BY <1>3 DEF SignalAbort, Quiet, Kept, handleVars, callVars
<1>4. CASE OpenHandleFails \/ AlreadyOpen
  BY <1>4 DEF OpenHandleFails, AlreadyOpen, Undoing, BetweenCalls, Making
<1>5. CASE ReadPrimaryFails \/ ReadBackupFails \/ CheckFails \/ MakePartFails
  BY <1>5 DEF ReadPrimaryFails, ReadBackupFails, CheckFails, MakePartFails, ReadFails, Undoing,
              BetweenCalls, Making
<1>6. CASE ReadPrimary
  <2>1. Kept /\ call' = call /\ objects' = objects
    BY <1>6 DEF ReadPrimary, Kept, handleVars
  <2>2. pc = "read" /\ objects = {} /\ pc' \in {"backup", "check"}
    BY <1>6 DEF ReadPrimary
  <2>. QED
    BY <2>1, <2>2 DEF Progress
<1>7. CASE ReadBackup \/ ReadBackupAgain
  BY <1>7 DEF ReadBackup, ReadBackupAgain, Progress, Kept, Making, handleVars, fileVars
<1>8. CASE Check
  BY <1>8 DEF Check, Progress, Kept, Making, handleVars, fileVars
<1>. QED
  BY <1>1, <1>2, <1>3, <1>4, <1>5, <1>6, <1>7, <1>8 DEF Next, Step, CloseCall

-----------------------------------------------------------------------------
(***************************************************************************)
(* The objects.                                                            *)
(***************************************************************************)
LEMMA PartsAre ==
  /\ Len(Parts) = 5 /\ DOMAIN Parts = 1 .. 5
  /\ Parts[1] = "pages vector" /\ Parts[2] = "pages cache" /\ Parts[3] = "database"
BY DEF Parts

LEMMA PartsOfContent ==
  ASSUME NEW content
  PROVE  PartsOf(content) = 1 .. 5 \/ PartsOf(content) = 1 .. 2
BY PartsAre DEF PartsOf

LEMMA MissingNoneIsComplete ==
  ASSUME objects \subseteq {Parts[i] : i \in PartsOf(call.content)}, Missing = {}
  PROVE  Complete
<1>1. \A i \in PartsOf(call.content) : Parts[i] \in objects
  BY DEF Missing
<1>2. CASE PartsOf(call.content) = 1 .. 5
  <2>1. objects = PartNames
    BY <1>1, <1>2, PartsAre DEF PartNames
  <2>2. Parts[1] \in objects /\ Parts[2] \in objects
    BY <1>1, <1>2
  <2>. QED
    BY <2>1, <2>2 DEF Complete
<1>3. CASE PartsOf(call.content) = 1 .. 2
  <2>1. objects = {Parts[1], Parts[2]}
    BY <1>1, <1>3
  <2>. QED
    BY <2>1, PartsAre DEF Complete
<1>. QED
  BY <1>2, <1>3, PartsOfContent

LEMMA NextPartIsOfCall ==
  ASSUME Missing # {}
  PROVE  NextPart \in {Parts[i] : i \in PartsOf(call.content)}
<1>1. PartsOf(call.content) \subseteq Nat
  BY PartsOfContent
<1>2. Missing \subseteq PartsOf(call.content)
  BY DEF Missing
<1>3. PICK first \in Missing : \A j \in Missing : first <= j
  <2>1. Missing \subseteq {1, 2, 3, 4, 5}
    BY <1>2, PartsOfContent
  <2>2. CASE 1 \in Missing
    BY <2>1, <2>2
  <2>3. CASE 1 \notin Missing /\ 2 \in Missing
    BY <2>1, <2>3
  <2>4. CASE Missing \subseteq {3, 4, 5} /\ 3 \in Missing
    BY <2>4
  <2>5. CASE Missing \subseteq {4, 5} /\ 4 \in Missing
    BY <2>5
  <2>6. CASE Missing = {5}
    BY <2>6
  <2>. QED
    BY <2>1, <2>2, <2>3, <2>4, <2>5, <2>6
<1>. QED
  BY <1>2, <1>3 DEF NextPart

LEMMA ObjectsMadeStep ==
  ASSUME FileInv, [Next]_vars
  PROVE  ObjectsMade'
<1>. USE DEF FileInv, TypeOK
<1>1. CASE Quiet
  BY <1>1 DEF Quiet, Kept, ObjectsMade, Making, BetweenCalls, Complete, PartsOf
<1>2. CASE Undoing
  <2>1. /\ fileHandle' = fileHandle
        /\ pc' = "idle"
        /\ \/ ~ Making /\ objects' = objects
           \/ (Making \/ objects = {}) /\ objects' = {}
    BY <1>2 DEF Undoing, Undo
  <2>2. Making => fileHandle = NoHandle
    BY DEF HandlesInv, MayCloseHandle, HandleOfCall, Making, BetweenCalls
  <2>. QED
    BY <2>1, <2>2 DEF ObjectsMade, Making, Complete
<1>3. CASE Progress
  BY <1>3 DEF Progress, Kept, ObjectsMade, Making
<1>4. CASE MakePart
  <2>1. NextPart \in {Parts[i] : i \in PartsOf(call.content)}
    BY <1>4, NextPartIsOfCall DEF MakePart
  <2>2. pc = "objects" /\ UNCHANGED <<pc, call>> /\ objects' = objects \union {NextPart}
    BY <1>4 DEF MakePart, callVars
  <2>. QED
    BY <2>1, <2>2 DEF ObjectsMade, Making, PartsOf
<1>5. ASSUME NEW h \in CallerHandles, CallerOpens(h) \/ CallerCloses(h)
      PROVE  ObjectsMade'
  BY <1>5 DEF CallerOpens, CallerCloses, fileVars, callVars, ObjectsMade, Making, Complete, PartsOf
<1>6. ASSUME NEW h, NEW content, Open(h, content) \/ OpenFileIOHandle(h, content)
      PROVE  ObjectsMade'
  BY <1>6 DEF Open, OpenFileIOHandle, Idle, Begin, fileVars, ObjectsMade, Making, Complete
<1>7. CASE IsOpen
  BY <1>7 DEF IsOpen, fileVars, ObjectsMade, Making, Complete
<1>8. CASE OpenHandle
  BY <1>8 DEF OpenHandle, ObjectsMade, Making, Complete
<1>9. CASE OpenEnds
  <2>1. Complete
    BY <1>9, MissingNoneIsComplete DEF OpenEnds, ObjectsMade, Making
  <2>2. call.handle # NoHandle
    BY <1>9, HandlesAssumption DEF OpenEnds, HandlesInv, MayCloseHandle, HandleOfCall, BetweenCalls, Handles
  <2>. QED
    BY <1>9, <2>1, <2>2 DEF OpenEnds, ObjectsMade, Making, Complete
<1>10. ASSUME NEW next \in {"idle", "freed"}, Close(next) \/ CloseHandleFails(next)
       PROVE  ObjectsMade'
  BY <1>10 DEF Close, CloseHandleFails, Forget, ObjectsMade, Making
<1>. QED
  BY <1>1, <1>2, <1>3, <1>4, <1>5, <1>6, <1>7, <1>8, <1>9, <1>10, StepKinds

-----------------------------------------------------------------------------
(***************************************************************************)
(* The handles.                                                            *)
(***************************************************************************)
LEMMA HandlesStep ==
  ASSUME FileInv, [Next]_vars
  PROVE  HandlesInv'
<1>. USE HandlesAssumption DEF FileInv, HandlesInv, MayCloseHandle, HandleOfCall, OpenedFlag,
         HandlesStayOpen, CreatedIsLibrarys, LibraryHandlesInUse
<1>1. CASE Quiet
  BY <1>1 DEF Quiet, Kept, BetweenCalls, Making
<1>2. CASE Undoing
  <2>. DEFINE closes == ~ call.wasOpen /\ opened
  <2>1. /\ pc' = "idle"
        /\ UNCHANGED <<callerOpened, fileHandle, created, call>>
        /\ handle' = [handle EXCEPT ![call.handle] =
                        IF call.op = "open" THEN "none" ELSE IF closes THEN "closed" ELSE @]
        /\ opened' = IF closes THEN FALSE ELSE opened
    BY <1>2 DEF Undoing, Undo
  <2>2. handle \in [Handles -> {"none", "closed", "open"}] /\ callerOpened \subseteq CallerHandles
    BY DEF TypeOK
  <2>3. \/ call.op = "open" /\ call.handle \in LibraryHandles
        \/ call.op = "open file io handle" /\ call.handle \in CallerHandles
    BY <1>2 DEF Undoing
  <2>4. ~ call.wasOpen => call.handle \notin callerOpened \union {fileHandle}
    BY <1>2, <2>3 DEF Undoing, Handles
  <2>5. call.op = "open" => ~ call.wasOpen
    BY <1>2 DEF Undoing
  <2>6. CreatedIsLibrarys' /\ MayCloseHandle'
    BY <1>2, <2>1, <2>5 DEF Undoing, BetweenCalls
  <2>7. HandlesStayOpen'
    <3>1. \A g \in Handles : g # call.handle \/ (call.wasOpen /\ call.op # "open") => handle'[g] = handle[g]
      BY <2>1, <2>2
    <3>2. callerOpened \subseteq Handles /\ fileHandle \in Handles \union {NoHandle}
      BY DEF TypeOK, Handles
    <3>. QED
      BY <2>1, <2>4, <2>5, <3>1, <3>2
  <2>8. \A h \in LibraryHandles :
          handle'[h] # "none" <=> handle[h] # "none" /\ (call.op = "open" => h # call.handle)
    BY <2>1, <2>2, <2>3 DEF Handles
  <2>9. LibraryHandlesInUse'
    BY <1>2, <2>1, <2>4, <2>5, <2>8, ZenonT(40) DEF Undoing, BetweenCalls
  <2>. QED
    BY <2>6, <2>7, <2>9
<1>3. CASE Progress
  BY <1>3 DEF Progress, Kept, ObjectsMade, Complete, BetweenCalls, Making
<1>4. CASE MakePart
  BY <1>4 DEF MakePart, handleVars, callVars, BetweenCalls, Making
<1>5. ASSUME NEW h \in CallerHandles, CallerOpens(h) \/ CallerCloses(h)
      PROVE  HandlesInv'
  <2>1. /\ h # fileHandle
        /\ UNCHANGED <<fileHandle, created, opened, pc, call>> /\ BetweenCalls
        /\ \/ handle' = [handle EXCEPT ![h] = "open"] /\ callerOpened' = callerOpened \union {h}
           \/ handle' = [handle EXCEPT ![h] = "closed"] /\ callerOpened' = callerOpened \ {h}
    BY <1>5 DEF CallerOpens, CallerCloses, Idle, BetweenCalls, fileVars, callVars, Handles
  <2>2. handle \in [Handles -> {"none", "closed", "open"}] /\ callerOpened \subseteq CallerHandles
    BY DEF TypeOK
  <2>3. CreatedIsLibrarys' /\ MayCloseHandle'
    BY <2>1 DEF BetweenCalls, Making
  <2>4. HandlesStayOpen'
    BY <2>1, <2>2, ZenonT(40) DEF Handles, TypeOK
  <2>5. \A l \in LibraryHandles : handle'[l] = handle[l]
    BY <2>1, <2>2 DEF Handles
  <2>6. LibraryHandlesInUse'
    BY <2>1, <2>5 DEF BetweenCalls
  <2>. QED
    BY <2>3, <2>4, <2>6
<1>6. ASSUME NEW h \in LibraryHandles, NEW content \in Contents, Open(h, content)
      PROVE  HandlesInv'
  <2>1. /\ UNCHANGED <<callerOpened, fileHandle, created, opened>> /\ BetweenCalls
        /\ handle' = [handle EXCEPT ![h] = "closed"] /\ handle[h] = "none"
        /\ pc' = "handle"
        /\ call' = [op |-> "open", handle |-> h, wasOpen |-> FALSE, content |-> content]
    BY <1>6 DEF Open, Begin, Idle, BetweenCalls, fileVars
  <2>2. handle \in [Handles -> {"none", "closed", "open"}] /\ callerOpened \subseteq CallerHandles
    BY DEF TypeOK
  <2>3. handle'[h] = "closed" /\ \A g \in Handles : g # h => handle'[g] = handle[g]
    BY <2>1, <2>2 DEF Handles
  <2>4. CreatedIsLibrarys' /\ MayCloseHandle'
    BY <2>1, <2>3 DEF BetweenCalls, Making
  <2>5. HandlesStayOpen'
    BY <2>1, <2>2, <2>3 DEF Handles, TypeOK
  <2>6. LibraryHandlesInUse'
    BY <2>1, <2>3 DEF BetweenCalls, Handles
  <2>. QED
    BY <2>4, <2>5, <2>6
<1>7. ASSUME NEW h \in CallerHandles, NEW content \in Contents, OpenFileIOHandle(h, content)
      PROVE  HandlesInv'
  BY <1>7 DEF OpenFileIOHandle, Begin, Idle, fileVars, BetweenCalls, Making, Handles, TypeOK
<1>8. CASE IsOpen
  BY <1>8 DEF IsOpen, handleVars, fileVars, BetweenCalls, Making, TypeOK
<1>9. CASE OpenHandle
  <2>1. /\ UNCHANGED <<callerOpened, fileHandle, created, call>> /\ pc = "handle"
        /\ handle' = [handle EXCEPT ![call.handle] = "open"] /\ handle[call.handle] = "closed"
        /\ opened' = TRUE /\ pc' = "read"
    BY <1>9 DEF OpenHandle
  <2>2. /\ handle \in [Handles -> {"none", "closed", "open"}]
        /\ callerOpened \subseteq CallerHandles
        /\ fileHandle \in Handles \union {NoHandle}
    BY DEF TypeOK
  <2>3. call.handle \in Handles /\ ~ call.wasOpen
    BY <2>1 DEF BetweenCalls, Handles
  <2>4. handle'[call.handle] = "open" /\ \A g \in Handles : g # call.handle => handle'[g] = handle[g]
    BY <2>1, <2>2, <2>3
  <2>5. call.handle \notin callerOpened \union {fileHandle}
    BY <2>1, <2>3
  <2>6. CreatedIsLibrarys' /\ MayCloseHandle'
    BY <2>1, <2>3, <2>4, <2>5 DEF BetweenCalls, Making
  <2>7. HandlesStayOpen'
    BY <2>1, <2>2, <2>4, <2>5 DEF Handles
  <2>8. \A l \in LibraryHandles : handle'[l] # "none" <=> handle[l] # "none"
    BY <2>1, <2>4 DEF Handles
  <2>9. LibraryHandlesInUse'
    BY <2>1, <2>8 DEF BetweenCalls
  <2>. QED
    BY <2>6, <2>7, <2>9
<1>10. CASE OpenEnds
  BY <1>10 DEF OpenEnds, handleVars, BetweenCalls, Making, TypeOK, Handles
<1>11. ASSUME NEW next \in {"idle", "freed"}, Close(next)
       PROVE  HandlesInv'
  <2>1. /\ BetweenCalls /\ BetweenCalls' /\ fileHandle # NoHandle
        /\ fileHandle' = NoHandle /\ created' = FALSE /\ opened' = FALSE
        /\ handle' = [handle EXCEPT ![fileHandle] = Release(@, TRUE)]
        /\ callerOpened' = callerOpened
    BY <1>11 DEF Close, Forget, Idle, BetweenCalls
  <2>2. /\ handle \in [Handles -> {"none", "closed", "open"}]
        /\ callerOpened \subseteq CallerHandles
        /\ fileHandle \in Handles
    BY <2>1 DEF TypeOK
  <2>3. \A g \in Handles : g # fileHandle => handle'[g] = handle[g]
    BY <2>1, <2>2
  <2>4. handle'[fileHandle] = IF created THEN "none" ELSE IF opened THEN "closed" ELSE "open"
    BY <2>1, <2>2 DEF Release
  <2>5. CreatedIsLibrarys' /\ MayCloseHandle'
    BY <2>1 DEF BetweenCalls, Handles
  <2>6. HandlesStayOpen'
    BY <2>1, <2>2, <2>3, <2>4 DEF Handles
  <2>7. LibraryHandlesInUse'
    BY <2>1, <2>2, <2>3, <2>4 DEF BetweenCalls, Handles
  <2>. QED
    BY <2>5, <2>6, <2>7
<1>12. ASSUME NEW next \in {"idle", "freed"}, CloseHandleFails(next)
       PROVE  HandlesInv'
  <2>1. /\ BetweenCalls /\ BetweenCalls' /\ fileHandle # NoHandle
        /\ fileHandle' = NoHandle /\ created' = FALSE /\ opened' = FALSE
        /\ handle' = [handle EXCEPT ![fileHandle] = Release(@, FALSE)]
        /\ callerOpened' = IF created THEN callerOpened ELSE callerOpened \union {fileHandle}
    BY <1>12 DEF CloseHandleFails, Forget, Idle, BetweenCalls
  <2>2. /\ handle \in [Handles -> {"none", "closed", "open"}]
        /\ callerOpened \subseteq CallerHandles
        /\ fileHandle \in Handles
    BY <2>1 DEF TypeOK
  <2>3. \A g \in Handles : g # fileHandle => handle'[g] = handle[g]
    BY <2>1, <2>2
  <2>4. handle'[fileHandle] = IF created THEN "none" ELSE "open"
    BY <2>1, <2>2 DEF Release
  <2>5. CreatedIsLibrarys' /\ MayCloseHandle'
    BY <2>1 DEF BetweenCalls, Handles
  <2>6. HandlesStayOpen'
    BY <2>1, <2>2, <2>3, <2>4 DEF Handles
  <2>7. LibraryHandlesInUse'
    BY <2>1, <2>2, <2>3, <2>4 DEF BetweenCalls, Handles
  <2>. QED
    BY <2>5, <2>6, <2>7
<1>. QED
  BY <1>1, <1>2, <1>3, <1>4, <1>5, <1>6, <1>7, <1>8, <1>9, <1>10, <1>11, <1>12, StepKinds

-----------------------------------------------------------------------------
LEMMA InitFileInv == Init => FileInv
<1>1. Init => HandlesInv
  BY HandlesAssumption
     DEF Init, HandlesInv, CreatedIsLibrarys, MayCloseHandle, HandleOfCall, OpenedFlag,
         HandlesStayOpen, LibraryHandlesInUse, BetweenCalls, Handles
<1>2. Init => ObjectsMade
  BY DEF Init, ObjectsMade, Making
<1>. QED
  BY <1>1, <1>2, InitTypeOK DEF FileInv

LEMMA NextFileInv ==
  ASSUME FileInv, [Next]_vars
  PROVE  FileInv'
BY NextTypeOK, HandlesStep, ObjectsMadeStep DEF FileInv, HandlesInv

THEOREM Invariance == Spec => []FileInv
BY InitFileInv, NextFileInv, PTL DEF Spec

(***************************************************************************)
(* The variables keep their types (libesedb_file.c).                       *)
(***************************************************************************)
THEOREM TypeCorrect == Spec => []TypeOK
<1>1. FileInv => TypeOK
  BY DEF FileInv
<1>. QED
  BY <1>1, Invariance, PTL

(***************************************************************************)
(* Whatever fails and whenever, between calls a file has a handle and all  *)
(* of its objects or neither (on_error of libesedb_file_open_read).        *)
(***************************************************************************)
THEOREM OpenIsAllOrNothing == Spec => []AllOrNothing
<1>1. FileInv => AllOrNothing
  BY DEF FileInv, ObjectsMade, AllOrNothing, BetweenCalls, Making
<1>. QED
  BY <1>1, Invariance, PTL

(***************************************************************************)
(* on_error closes no handle but the one that the open in progress opened  *)
(* itself (libesedb_file_open_file_io_handle).                             *)
(***************************************************************************)
THEOREM OnlyOwnHandlesAreClosed == Spec => []MayCloseHandle
<1>1. FileInv => MayCloseHandle
  BY DEF FileInv, HandlesInv
<1>. QED
  BY <1>1, Invariance, PTL

(***************************************************************************)
(* No handle that the library creates is leaked or lost track of, for any  *)
(* sequence of opens, closes and faults (libesedb_file_open, close, free). *)
(***************************************************************************)
THEOREM NoHandleIsLeaked == Spec => []NoHandleLeaks
<1>1. FileInv => NoHandleLeaks
  BY DEF FileInv, HandlesInv, LibraryHandlesInUse, NoHandleLeaks
<1>. QED
  BY <1>1, Invariance, PTL

(***************************************************************************)
(* The handle of an open file stays open, and so does every handle that    *)
(* the caller has opened (libesedb_file_open_file_io_handle).              *)
(***************************************************************************)
THEOREM HandlesAlwaysStayOpen == Spec => []HandlesStayOpen
<1>1. FileInv => HandlesStayOpen
  BY DEF FileInv, HandlesInv
<1>. QED
  BY <1>1, Invariance, PTL

-----------------------------------------------------------------------------
(***************************************************************************)
(* As long as no file is opened while it is open, every handle that is     *)
(* open has somebody who will close it: the caller, the file or the open   *)
(* in progress.                                                            *)
(***************************************************************************)
OpenHandlesKnown ==
  /\ \A h \in Handles : handle[h] = "open" =>
       h \in callerOpened \union {fileHandle} \/ (~ BetweenCalls /\ pc # "handle" /\ h = call.handle)
  /\ ~ BetweenCalls => fileHandle = NoHandle
  /\ ~ BetweenCalls /\ call.wasOpen => call.handle \in callerOpened
  /\ BetweenCalls /\ fileHandle # NoHandle => created \/ opened \/ fileHandle \in callerOpened

KnownUnlessReopened == ~ reopened => OpenHandlesKnown

LEMMA ReopenedStays ==
  ASSUME [Next]_vars, ~ reopened'
  PROVE  ~ reopened
<1>1. CASE Quiet \/ Progress
  BY <1>1 DEF Quiet, Progress, Kept
<1>2. CASE Undoing
  BY <1>2 DEF Undoing, Undo
<1>3. CASE MakePart \/ IsOpen \/ OpenHandle \/ OpenEnds
  BY <1>3 DEF MakePart, IsOpen, OpenHandle, OpenEnds, handleVars
<1>4. ASSUME NEW h, CallerOpens(h) \/ CallerCloses(h)
      PROVE  ~ reopened
  BY <1>4 DEF CallerOpens, CallerCloses
<1>5. ASSUME NEW h, NEW content, Open(h, content) \/ OpenFileIOHandle(h, content)
      PROVE  ~ reopened
  BY <1>5 DEF Open, OpenFileIOHandle, Begin
<1>6. ASSUME NEW next, Close(next) \/ CloseHandleFails(next)
      PROVE  ~ reopened
  BY <1>6 DEF Close, CloseHandleFails, Forget
<1>. QED
  BY <1>1, <1>2, <1>3, <1>4, <1>5, <1>6, StepKinds

LEMMA OpenHandlesKnownStep ==
  ASSUME FileInv, KnownUnlessReopened, [Next]_vars
  PROVE  KnownUnlessReopened'
<1>. SUFFICES ASSUME ~ reopened'
              PROVE  OpenHandlesKnown'
  BY DEF KnownUnlessReopened
<1>known. OpenHandlesKnown
  BY ReopenedStays DEF KnownUnlessReopened
<1>. USE <1>known, HandlesAssumption DEF FileInv, HandlesInv, MayCloseHandle, HandleOfCall, OpenHandlesKnown
<1>0. /\ handle \in [Handles -> {"none", "closed", "open"}]
      /\ callerOpened \subseteq Handles
  BY DEF TypeOK, Handles
<1>1. CASE Quiet
  BY <1>1 DEF Quiet, Kept, BetweenCalls
<1>2. CASE Undoing
  <2>1. /\ pc' = "idle"
        /\ UNCHANGED <<callerOpened, fileHandle, created, call>>
        /\ handle' = [handle EXCEPT ![call.handle] =
                        IF call.op = "open" THEN "none"
                        ELSE IF ~ call.wasOpen /\ opened THEN "closed" ELSE @]
    BY <1>2 DEF Undoing, Undo
  <2>2. call.handle \in Handles /\ fileHandle = NoHandle
    BY <1>2 DEF Undoing, Handles
  <2>3. handle'[call.handle] = "open" => call.wasOpen
    BY <1>0, <1>2, <2>1, <2>2 DEF Undoing
  <2>4. \A h \in Handles : h # call.handle => handle'[h] = handle[h]
    BY <1>0, <2>1, <2>2
  <2>. QED
    BY <1>2, <2>1, <2>2, <2>3, <2>4 DEF Undoing, BetweenCalls
<1>3. CASE Progress
  BY <1>3 DEF Progress, Kept, BetweenCalls, Making
<1>4. CASE MakePart
  BY <1>4 DEF MakePart, handleVars, callVars, BetweenCalls
<1>5. ASSUME NEW h \in CallerHandles, CallerOpens(h) \/ CallerCloses(h)
      PROVE  OpenHandlesKnown'
  <2>1. /\ h \in Handles /\ BetweenCalls /\ BetweenCalls'
        /\ UNCHANGED <<fileHandle, created, opened>>
        /\ \/ handle' = [handle EXCEPT ![h] = "open"] /\ callerOpened' = callerOpened \union {h}
           \/ handle' = [handle EXCEPT ![h] = "closed"] /\ callerOpened' = callerOpened \ {h}
              /\ h # fileHandle
    BY <1>5 DEF CallerOpens, CallerCloses, Idle, BetweenCalls, fileVars, callVars, Handles
  <2>. QED
    BY <1>0, <2>1
<1>6. ASSUME NEW h \in Handles, NEW content, Open(h, content) \/ OpenFileIOHandle(h, content)
      PROVE  OpenHandlesKnown'
  <2>1. Idle /\ \E op : Begin(op, h, content)
    BY <1>6 DEF Open, OpenFileIOHandle
  <2>2. fileHandle = NoHandle
    BY <2>1 DEF Begin
  <2>3. /\ BetweenCalls /\ ~ BetweenCalls'
        /\ UNCHANGED <<callerOpened, fileHandle>>
        /\ ~ call'.wasOpen
    BY <2>1 DEF Begin, Idle, BetweenCalls, fileVars
  <2>4. handle' = handle \/ handle' = [handle EXCEPT ![h] = "closed"]
    BY <1>6 DEF Open, OpenFileIOHandle
  <2>. QED
    BY <1>0, <2>2, <2>3, <2>4
<1>7. CASE IsOpen
  BY <1>7 DEF IsOpen, handleVars, fileVars, BetweenCalls, TypeOK, Handles
<1>8. CASE OpenHandle
  BY <1>0, <1>8 DEF OpenHandle, BetweenCalls, Handles
<1>9. CASE OpenEnds
  <2>1. /\ UNCHANGED <<handle, callerOpened, opened>>
        /\ fileHandle' = call.handle /\ pc' = "idle" /\ pc = "objects"
    BY <1>9 DEF OpenEnds, handleVars
  <2>. QED
    BY <2>1 DEF BetweenCalls
<1>10. ASSUME NEW next \in {"idle", "freed"}, Close(next) \/ CloseHandleFails(next)
       PROVE  OpenHandlesKnown'
  <2>1. /\ BetweenCalls /\ BetweenCalls' /\ fileHandle # NoHandle /\ fileHandle' = NoHandle
        /\ \/ /\ handle' = [handle EXCEPT ![fileHandle] = Release(@, TRUE)]
              /\ callerOpened' = callerOpened
           \/ /\ handle' = [handle EXCEPT ![fileHandle] = Release(@, FALSE)]
              /\ callerOpened' = IF created THEN callerOpened ELSE callerOpened \union {fileHandle}
    BY <1>10 DEF Close, CloseHandleFails, Forget, Idle, BetweenCalls
  <2>2. fileHandle \in Handles
    BY <2>1 DEF TypeOK
  <2>3. \A h \in Handles : h # fileHandle => handle'[h] = handle[h]
    BY <1>0, <2>1, <2>2
  <2>4. handle'[fileHandle] = "open" => fileHandle \in callerOpened'
    BY <1>0, <2>1, <2>2 DEF Release
  <2>. QED
    BY <2>1, <2>3, <2>4
<1>. QED
  BY <1>1, <1>2, <1>3, <1>4, <1>5, <1>6, <1>7, <1>8, <1>9, <1>10, StepKinds DEF Handles

(***************************************************************************)
(* Until a file is opened while it is open, what the library has opened it *)
(* closes again, on every path (file_io_handle_opened_in_library).         *)
(***************************************************************************)
THEOREM HandlesAreAlwaysClosed == Spec => []ClosedUnlessReopened
<1>1. Init => KnownUnlessReopened
  BY HandlesAssumption DEF Init, KnownUnlessReopened, OpenHandlesKnown, BetweenCalls
<1>2. KnownUnlessReopened => ClosedUnlessReopened
  BY DEF KnownUnlessReopened, OpenHandlesKnown, ClosedUnlessReopened, HandlesAreClosed
<1>. QED
  BY <1>1, <1>2, Invariance, OpenHandlesKnownStep, PTL DEF Spec

-----------------------------------------------------------------------------
(***************************************************************************)
(* What an open knows of its file when it succeeds and when it fails.      *)
(* OpenSucceeds speaks of a file that nobody uses; Reasons also says it of *)
(* a file that was freed after the open, and HeadersRead says what an open *)
(* has learned of the headers and of the objects so far.                   *)
(***************************************************************************)
Merged ==
  /\ Primary # BadHeader /\ Backup # BadHeader
  /\ format.version = IF Primary.version = "none" THEN Backup.version ELSE Primary.version
  /\ format.revision = IF Primary.revision = "none" THEN Backup.revision ELSE Primary.revision
  /\ Primary.size = Backup.size => format.size = Primary.size

HeadersRead ==
  /\ pc = "backup" => Primary # BadHeader /\ format = Primary
  /\ pc = "check" => Merged \/ (Primary.size = 0 /\ format = Primary)
  /\ pc = "objects" => Merged /\ objects \subseteq call.content.readable

Reasons ==
  BetweenCalls /\ call.op \in {"open", "open file io handle"} /\ answer = -1 =>
    faults > 0 \/ fileHandle # NoHandle \/ ~ Sound(call.content)

OpenInv == HeadersRead /\ Reasons

\* No page has the size 0, which stands for a size that a header does not have.
LEMMA SizeIsGiven ==
  ASSUME NEW revision
  PROVE  0 \notin Sizes(revision)
BY SizesAssumption DEF Sizes

\* A format that is supported comes from both headers.
LEMMA SupportedIsMerged ==
  ASSUME HeadersRead, pc = "check", Supported
  PROVE  Merged
BY SizeIsGiven DEF HeadersRead, Supported

\* The check of the format refuses headers that do not agree, and no others.
LEMMA UnsupportedDisagrees ==
  ASSUME HeadersRead, pc = "check", ~ Supported
  PROVE  ~ Sound(call.content)
<1>. SUFFICES ASSUME HeadersAgree(call.content)
              PROVE  FALSE
  BY DEF Sound
<1>1. CASE Merged
  <2>1. format.version = "620" /\ format.size = Primary.size
    BY <1>1 DEF Merged, HeadersAgree, Primary, Backup
  <2>2. Primary.size \in Sizes(format.revision)
    BY <1>1 DEF Merged, HeadersAgree, Primary, Backup
  <2>. QED
    BY <2>1, <2>2 DEF Supported
<1>2. CASE Primary.size = 0
  BY <1>2, SizeIsGiven DEF HeadersAgree, Primary
<1>. QED
  BY <1>1, <1>2 DEF HeadersRead

\* A part of the file that cannot be read is one that a sound file has.
LEMMA UnreadableIsUnsound ==
  ASSUME Missing # {}, NextPart \notin call.content.readable
  PROVE  ~ Sound(call.content)
BY NextPartIsOfCall DEF Sound

\* What was read of the headers and of the objects is what the file holds.
LEMMA HeadersReadStep ==
  ASSUME FileInv, HeadersRead, [Next]_vars
  PROVE  HeadersRead'
<1>. USE DEF Primary, Backup
<1>1. CASE UNCHANGED vars
  BY <1>1, Unchanged DEF HeadersRead, Merged
<1>2. CASE ReadPrimary
  <2>1. Primary # BadHeader /\ format' = Primary /\ call' = call
    BY <1>2 DEF ReadPrimary
  <2>2. pc' = "backup" \/ (pc' = "check" /\ Primary.size = 0)
    BY <1>2 DEF ReadPrimary
  <2>. QED
    BY <2>1, <2>2 DEF HeadersRead
<1>3. CASE ReadBackup
  <2>1. Primary # BadHeader /\ format = Primary /\ Backup # BadHeader /\ call' = call /\ pc' = "check"
    BY <1>3 DEF ReadBackup, HeadersRead
  <2>2. format' = [version |-> IF Primary.version = "none" THEN Backup.version ELSE Primary.version,
                   revision |-> IF Primary.revision = "none" THEN Backup.revision ELSE Primary.revision,
                   size |-> IF Primary.size = Backup.size THEN Primary.size ELSE probe]
    BY <1>3, <2>1 DEF ReadBackup
  <2>3. Merged'
    BY <2>1, <2>2 DEF Merged
  <2>. QED
    BY <2>1, <2>3 DEF HeadersRead
<1>4. CASE ReadBackupAgain \/ SignalAbort
  BY <1>4 DEF ReadBackupAgain, SignalAbort, fileVars, callVars, HeadersRead, Merged
<1>5. CASE Check
  <2>1. Merged /\ objects = {}
    BY <1>5, SupportedIsMerged DEF Check, FileInv, ObjectsMade
  <2>2. UNCHANGED <<call, format, objects>> /\ pc' = "objects"
    BY <1>5 DEF Check, fileVars
  <2>. QED
    BY <2>1, <2>2 DEF HeadersRead, Merged
<1>6. CASE MakePart
  BY <1>6 DEF MakePart, callVars, HeadersRead, Merged
<1>7. CASE \/ OpenRefused \/ CloseUnopened \/ OpenEnds \/ FreeUnopened \/ Initialize
           \/ IsOpen \/ OpenHandle \/ OpenHandleFails \/ AlreadyOpen
           \/ ReadPrimaryFails \/ ReadBackupFails \/ CheckFails \/ MakePartFails
  <2>1. pc' \in {"idle", "freed", "read"}
    BY <1>7 DEF OpenRefused, CloseUnopened, OpenEnds, FreeUnopened, Initialize, IsOpen, OpenHandle,
                OpenHandleFails, AlreadyOpen, ReadPrimaryFails, ReadBackupFails, CheckFails,
                MakePartFails, ReadFails, Undo, Idle
  <2>. QED
    BY <2>1 DEF HeadersRead
<1>8. ASSUME NEW h, CallerOpens(h) \/ CallerCloses(h)
      PROVE  HeadersRead'
  BY <1>8 DEF CallerOpens, CallerCloses, Idle, callVars, HeadersRead
<1>9. ASSUME NEW h, NEW content, Open(h, content) \/ OpenFileIOHandle(h, content)
      PROVE  HeadersRead'
  BY <1>9 DEF Open, OpenFileIOHandle, Begin, HeadersRead
<1>10. ASSUME NEW next \in {"idle", "freed"}, Close(next) \/ CloseHandleFails(next)
       PROVE  HeadersRead'
  BY <1>10 DEF Close, CloseHandleFails, Forget, HeadersRead
<1>. QED
  BY <1>1, <1>2, <1>3, <1>4, <1>5, <1>6, <1>7, <1>8, <1>9, <1>10 DEF Next, Step, CloseCall

\* An open that fails has one of the reasons, and nothing takes it away until the next call.
LEMMA ReasonsStep ==
  ASSUME FileInv, OpenInv, [Next]_vars
  PROVE  Reasons'
<1>0. faults \in Nat
  <2>1. faults \in 0 .. MaxFaults
    BY DEF FileInv, TypeOK
  <2>. QED
    BY <2>1
<1>1. CASE UNCHANGED vars
  BY <1>1, Unchanged DEF OpenInv, Reasons, BetweenCalls
<1>2. CASE SignalAbort \/ FreeUnopened \/ Initialize
  BY <1>2 DEF SignalAbort, FreeUnopened, Initialize, Idle, fileVars, callVars, OpenInv, Reasons,
              BetweenCalls
<1>3. CASE OpenRefused \/ CloseUnopened
  <2>1. call'.op \in {"refused", "close"}
    BY <1>3, NoCallOf DEF OpenRefused, CloseUnopened
  <2>. QED
    BY <2>1 DEF Reasons
<1>4. ASSUME NEW next \in {"idle", "freed"}, Close(next) \/ CloseHandleFails(next)
      PROVE  Reasons'
  <2>1. call'.op = "close"
    BY <1>4, NoCallOf DEF Close, CloseHandleFails, Forget
  <2>. QED
    BY <2>1 DEF Reasons
<1>5. ASSUME NEW h, CallerOpens(h) \/ CallerCloses(h)
      PROVE  Reasons'
  BY <1>5 DEF CallerOpens, CallerCloses, fileVars, callVars, OpenInv, Reasons, BetweenCalls
<1>6. ASSUME NEW h, NEW content, Open(h, content) \/ OpenFileIOHandle(h, content)
      PROVE  Reasons'
  <2>1. answer' = Busy
    BY <1>6 DEF Open, OpenFileIOHandle, Begin
  <2>2. answer' # -1
    BY <2>1 DEF Busy
  <2>. QED
    BY <2>2 DEF Reasons
<1>7. CASE IsOpen \/ OpenHandle \/ ReadPrimary \/ ReadBackup \/ ReadBackupAgain \/ Check \/ MakePart
  <2>1. ~ BetweenCalls'
    BY <1>7 DEF IsOpen, OpenHandle, ReadPrimary, ReadBackup, ReadBackupAgain, Check, MakePart,
                callVars, BetweenCalls
  <2>. QED
    BY <2>1 DEF Reasons
<1>8. CASE OpenEnds
  <2>1. answer' # -1
    BY <1>8 DEF OpenEnds
  <2>. QED
    BY <2>1 DEF Reasons
<1>9. ASSUME Fault
      PROVE  faults' > 0
  BY <1>0, <1>9 DEF Fault
<1>10. CASE OpenHandleFails
  BY <1>9, <1>10 DEF OpenHandleFails, Reasons
<1>11. CASE AlreadyOpen
  <2>1. fileHandle # NoHandle /\ fileHandle' = fileHandle
    BY <1>11 DEF AlreadyOpen, Undo, FileInv, ObjectsMade, Making
  <2>. QED
    BY <2>1 DEF Reasons
<1>12. CASE ReadPrimaryFails \/ ReadBackupFails
  <2>1. call' = call
    BY <1>12 DEF ReadPrimaryFails, ReadBackupFails, ReadFails, Undo
  <2>2. Fault \/ Primary = BadHeader \/ Backup = BadHeader
    BY <1>12 DEF ReadPrimaryFails, ReadBackupFails
  <2>3. Primary = BadHeader \/ Backup = BadHeader => ~ Sound(call.content)
    BY DEF Sound, HeadersAgree, Primary, Backup
  <2>4. Fault \/ ~ Sound(call'.content)
    BY <2>1, <2>2, <2>3
  <2>. QED
    BY <1>9, <2>4 DEF Reasons, Sound, HeadersAgree, Sizes, PartsOf
<1>13. CASE CheckFails
  <2>1. ~ Sound(call.content) /\ call' = call
    BY <1>13, UnsupportedDisagrees DEF CheckFails, ReadFails, Undo, OpenInv
  <2>. QED
    BY <2>1 DEF Reasons, Sound, HeadersAgree, Sizes, PartsOf
<1>14. CASE MakePartFails
  <2>1. call' = call /\ (Fault \/ ~ Sound(call.content))
    BY <1>14, UnreadableIsUnsound DEF MakePartFails, ReadFails, Undo
  <2>. QED
    BY <1>9, <2>1 DEF Reasons, Sound, HeadersAgree, Sizes, PartsOf
<1>. QED
  BY <1>1, <1>2, <1>3, <1>4, <1>5, <1>6, <1>7, <1>8, <1>10, <1>11, <1>12, <1>13, <1>14
     DEF Next, Step, CloseCall

\* Only the end of an open that has read everything answers with a success.
LEMMA OpenedStep ==
  ASSUME FileInv, OpenInv, [Next]_vars
  PROVE  OpenedIsSound
<1>. SUFFICES ASSUME answer' = 1, answer = Busy
              PROVE  /\ \A i \in PartsOf(call.content) : Parts[i] \in call.content.readable
                     /\ Primary # BadHeader /\ Backup # BadHeader
                     /\ Primary.size = Backup.size => format.size = Primary.size
  BY DEF OpenedIsSound
<1>1. answer' # answer /\ Busy = 2
  BY DEF Busy
<1>2. OpenEnds
  <2>1. CASE UNCHANGED vars
    BY <1>1, <2>1, Unchanged
  <2>2. CASE OpenRefused \/ SignalAbort \/ Initialize \/ CloseUnopened \/ FreeUnopened
    BY <1>1, <2>2 DEF OpenRefused, SignalAbort, Initialize, CloseUnopened, FreeUnopened, callVars
  <2>3. CASE IsOpen \/ OpenHandle \/ ReadPrimary \/ ReadBackup \/ ReadBackupAgain \/ Check \/ MakePart
    BY <1>1, <2>3 DEF IsOpen, OpenHandle, ReadPrimary, ReadBackup, ReadBackupAgain, Check, MakePart, callVars
  <2>4. CASE \/ OpenHandleFails \/ AlreadyOpen \/ ReadPrimaryFails \/ ReadBackupFails
             \/ CheckFails \/ MakePartFails
    BY <2>4 DEF OpenHandleFails, AlreadyOpen, ReadPrimaryFails, ReadBackupFails, CheckFails,
                MakePartFails, ReadFails, Undo
  <2>5. ASSUME NEW h, CallerOpens(h) \/ CallerCloses(h)
        PROVE  FALSE
    BY <1>1, <2>5 DEF CallerOpens, CallerCloses, callVars
  <2>6. ASSUME NEW h, NEW content, Open(h, content) \/ OpenFileIOHandle(h, content)
        PROVE  FALSE
    BY <1>1, <2>6 DEF Open, OpenFileIOHandle, Begin
  <2>7. ASSUME NEW next, Close(next) \/ CloseHandleFails(next)
        PROVE  FALSE
    BY <2>7 DEF Close, CloseHandleFails
  <2>. QED
    BY <2>1, <2>2, <2>3, <2>4, <2>5, <2>6, <2>7 DEF Next, Step, CloseCall
<1>3. Merged /\ objects \subseteq call.content.readable /\ Missing = {}
  BY <1>2 DEF OpenEnds, OpenInv, HeadersRead
<1>. QED
  BY <1>3 DEF Merged, Missing

LEMMA InitOpenInv == Init => OpenInv
BY DEF Init, NoCall, OpenInv, HeadersRead, Reasons, BetweenCalls

(***************************************************************************)
(* An open that fails has a reason in its file, in a fault or in an open   *)
(* before it, and an open that succeeds has read the whole of a file with  *)
(* the page size of its headers (libesedb_file_open_read), for any files   *)
(* and any number of faults.                                               *)
(***************************************************************************)
THEOREM OpenIsAlwaysExact == Spec => OpenIsExact
<1>1. ASSUME FileInv, OpenInv, [Next]_vars
      PROVE  OpenInv' /\ OpenSucceeds' /\ OpenedIsSound
  BY <1>1, HeadersReadStep, ReasonsStep, OpenedStep DEF OpenInv, Reasons, OpenSucceeds, Idle, BetweenCalls
<1>2. FileInv /\ OpenInv /\ [Next]_vars => [OpenSucceeds' /\ OpenedIsSound]_vars
  BY <1>1
<1>. QED
  BY <1>1, <1>2, InitOpenInv, Invariance, PTL DEF Spec, OpenIsExact
=============================================================================
