------------------------------ MODULE FileOpen ------------------------------
(***************************************************************************)
(* Opening and closing a database file (libesedb_file.c): the file IO      *)
(* handle that is created or opened on behalf of the caller, the headers   *)
(* that settle the format and the page size, and the objects that are made *)
(* from them.  An open that fails has to undo all of it.                   *)
(*                                                                         *)
(* Handles of libbfio are external: they are closed or open, and the ones  *)
(* that the library creates itself exist only in between ("none").  Memory *)
(* that runs out and reads that fail are faults.                           *)
(***************************************************************************)
EXTENDS Integers, Sequences, FiniteSets

CONSTANTS
  CallerHandles,   \* the handles that callers pass to the library
  LibraryHandles,  \* the handles that the library may create
  NoHandle,        \* NULL
  Contents,        \* what a file that is opened may hold
  FirstProbe,      \* 0x0800
  LastProbe,       \* 0x8000
  OldSizes,        \* the page sizes of format revisions before 0x11
  NewSizes,        \* the page sizes since
  MaxFaults        \* bound on the number of faults

Handles == CallerHandles \union LibraryHandles

\* Everything that opening a database makes, in the order it is made in.
Parts == <<"pages vector", "pages cache", "database", "catalog", "backup catalog">>

PartNames == {Parts[i] : i \in DOMAIN Parts}

\* The headers as far as they decide something; "none" and 0 are absent values.
Header == [version : {"620", "other", "none", "bad"}, revision : {"old", "new", "none"}, size : Nat]

\* A header that cannot be read: its signature or checksum is wrong.
BadHeader == [version |-> "bad", revision |-> "none", size |-> 0]

Content == [primary : Header, backup : Header,
            type : {"database", "streaming"}, readable : SUBSET PartNames]

ASSUME HandlesAssumption ==
  /\ NoHandle \notin Handles
  /\ CallerHandles \intersect LibraryHandles = {}
ASSUME ContentsAssumption == Contents \subseteq Content /\ Contents # {}
ASSUME SizesAssumption ==
  /\ FirstProbe \in Nat \ {0} /\ LastProbe \in Nat
  /\ OldSizes \subseteq Nat \ {0} /\ NewSizes \subseteq Nat \ {0}
ASSUME BoundsAssumption == MaxFaults \in Nat

VARIABLES
  handle,        \* the state of each handle: none, closed or open
  callerOpened,  \* the open handles that are for the caller to close
  reopened,      \* history: whether a file was opened while it was open
  fileHandle,    \* file_io_handle
  created,       \* file_io_handle_created_in_library
  opened,        \* file_io_handle_opened_in_library
  objects,       \* the parts that exist
  format,        \* the version, revision and page size in io_handle
  abort,         \* io_handle->abort
  pc,            \* where the open in progress is
  call,          \* the handle to open, whether it was open, what it holds
  probe,         \* file_offset of the search for the backup header
  answer,        \* what the last open or close returned
  faults         \* how many faults there were

handleVars == <<handle, callerOpened, reopened>>
fileVars == <<fileHandle, created, opened, objects, format, abort>>
callVars == <<pc, call, probe, answer, faults>>
vars == <<handleVars, fileVars, callVars>>

NoFormat == [version |-> "none", revision |-> "none", size |-> 0]
NoCall == [op |-> "none", handle |-> NoHandle, wasOpen |-> FALSE, content |-> CHOOSE c \in Contents : TRUE]

Busy == 2
Idle == pc = "idle"
BetweenCalls == pc \in {"idle", "freed"}

Init ==
  /\ handle = [h \in Handles |-> IF h \in CallerHandles THEN "closed" ELSE "none"]
  /\ callerOpened = {} /\ reopened = FALSE
  /\ fileHandle = NoHandle /\ created = FALSE /\ opened = FALSE
  /\ objects = {} /\ format = NoFormat /\ abort = FALSE
  /\ pc = "idle" /\ call = NoCall /\ probe = 0 /\ answer = 0 /\ faults = 0

Fault == faults < MaxFaults /\ faults' = faults + 1
NoFault == UNCHANGED faults

-----------------------------------------------------------------------------
(***************************************************************************)
(* The caller, and the calls that begin an open.                           *)
(***************************************************************************)
CallerOpens(h) ==
  /\ Idle /\ handle[h] = "closed"
  /\ handle' = [handle EXCEPT ![h] = "open"]
  /\ callerOpened' = callerOpened \union {h}
  /\ UNCHANGED <<reopened, fileVars, callVars>>

CallerCloses(h) ==
  /\ Idle /\ h \in callerOpened /\ h # fileHandle
  /\ handle' = [handle EXCEPT ![h] = "closed"]
  /\ callerOpened' = callerOpened \ {h}
  /\ UNCHANGED <<reopened, fileVars, callVars>>

Begin(op, h, content) ==
  /\ pc' = "handle"
  /\ call' = [op |-> op, handle |-> h, wasOpen |-> FALSE, content |-> content]
  /\ answer' = Busy
  /\ reopened' = (reopened \/ fileHandle # NoHandle)
  /\ UNCHANGED <<callerOpened, fileVars, probe, faults>>

\* libesedb_file_open and libesedb_file_open_wide
Open(h, content) ==
  /\ Idle /\ handle[h] = "none"
  /\ handle' = [handle EXCEPT ![h] = "closed"]
  /\ Begin("open", h, content)

\* libesedb_file_open_file_io_handle
OpenFileIOHandle(h, content) ==
  /\ Idle
  /\ Begin("open file io handle", h, content)
  /\ UNCHANGED handle

\* Invalid access flags, or the handle cannot be made: nothing has happened.
OpenRefused ==
  /\ Idle
  /\ call' = [NoCall EXCEPT !.op = "refused"]
  /\ answer' = -1
  /\ UNCHANGED <<handleVars, fileVars, pc, probe, faults>>

\* libesedb_file_signal_abort, also while another thread opens the file
SignalAbort ==
  /\ pc # "freed"
  /\ abort' = TRUE
  /\ UNCHANGED <<handleVars, fileHandle, created, opened, objects, format, callVars>>

-----------------------------------------------------------------------------
(***************************************************************************)
(* The end of an open that fails.  The handle is closed if it was not open *)
(* before and the library opened it, and freed if it is the library's own. *)
(***************************************************************************)
\* Mutant: the handle is closed whoever opened it.
UndoClosesAlways(isOpened, remaining) ==
  LET closes == isOpened IN
  /\ handle' = [handle EXCEPT ![call.handle] = IF call.op = "open" THEN "none" ELSE IF closes THEN "closed" ELSE @]
  /\ opened' = IF closes THEN FALSE ELSE isOpened
  /\ objects' = remaining
  /\ pc' = "idle"
  /\ answer' = -1
  /\ UNCHANGED <<callerOpened, reopened, fileHandle, created, call, probe>>

\* Mutant: the handle is not freed.
UndoKeepsHandle(isOpened, remaining) ==
  LET closes == ~ call.wasOpen /\ isOpened IN
  /\ handle' = [handle EXCEPT ![call.handle] = IF closes THEN "closed" ELSE @]
  /\ opened' = IF closes THEN FALSE ELSE isOpened
  /\ objects' = remaining
  /\ pc' = "idle"
  /\ answer' = -1
  /\ UNCHANGED <<callerOpened, reopened, fileHandle, created, call, probe>>

\* Mutant: the handle is not closed.
UndoLeavesOpen(isOpened, remaining) ==
  LET closes == ~ call.wasOpen /\ isOpened IN
  /\ handle' = [handle EXCEPT ![call.handle] = IF call.op = "open" THEN "none" ELSE @]
  /\ opened' = IF closes THEN FALSE ELSE isOpened
  /\ objects' = remaining
  /\ pc' = "idle"
  /\ answer' = -1
  /\ UNCHANGED <<callerOpened, reopened, fileHandle, created, call, probe>>

Undo(isOpened, remaining) ==
  LET closes == ~ call.wasOpen /\ isOpened IN
  /\ handle' = [handle EXCEPT ![call.handle] =
                  IF call.op = "open" THEN "none" ELSE IF closes THEN "closed" ELSE @]
  /\ opened' = IF closes THEN FALSE ELSE isOpened
  /\ objects' = remaining
  /\ pc' = "idle"
  /\ answer' = -1
  /\ UNCHANGED <<callerOpened, reopened, fileHandle, created, call, probe>>

\* Mutant: what was made is not freed.
ReadFailsKeeping ==
  /\ Undo(opened, objects)
  /\ abort' = FALSE
  /\ UNCHANGED format

\* on_error of libesedb_file_open_read: what was made is freed, the format stays.
ReadFails ==
  /\ Undo(opened, {})
  /\ abort' = FALSE
  /\ UNCHANGED format

IsOpen ==
  /\ pc = "handle" /\ handle[call.handle] = "open"
  /\ call' = [call EXCEPT !.wasOpen = TRUE]
  /\ pc' = "read"
  /\ UNCHANGED <<handleVars, fileVars, probe, answer, faults>>

OpenHandle ==
  /\ pc = "handle" /\ handle[call.handle] = "closed"
  /\ handle' = [handle EXCEPT ![call.handle] = "open"]
  /\ opened' = TRUE
  /\ pc' = "read"
  /\ UNCHANGED <<callerOpened, reopened, fileHandle, created, objects, format, abort, call, probe, answer, faults>>

\* The handle was not open, and is closed when opened is still set.
OpenHandleFails ==
  /\ pc = "handle" /\ handle[call.handle] = "closed"
  /\ Fault
  /\ Undo(opened, objects)
  /\ UNCHANGED <<format, abort>>

\* The file has objects of an earlier open.  The error is returned at once.
AlreadyOpen ==
  /\ pc = "read" /\ objects # {}
  /\ Undo(opened, objects)
  /\ UNCHANGED <<format, abort, faults>>

-----------------------------------------------------------------------------
(***************************************************************************)
(* libesedb_file_open_read: the headers.                                   *)
(***************************************************************************)
Primary == call.content.primary
Backup == call.content.backup

\* Mutant: what an earlier open has left in the format is kept.
ReadPrimaryOnce ==
  /\ pc = "read" /\ objects = {} /\ Primary # BadHeader
  /\ format' = IF format.size = 0 THEN Primary ELSE format
  /\ abort' = FALSE
  /\ probe' = 0
  /\ pc' = IF Primary.size # 0 THEN "backup" ELSE "check"
  /\ UNCHANGED <<handleVars, fileHandle, created, opened, objects, call, answer, faults>>

ReadPrimary ==
  /\ pc = "read" /\ objects = {} /\ Primary # BadHeader
  /\ format' = Primary
  /\ abort' = FALSE
  /\ probe' = 0
  /\ pc' = IF Primary.size # 0 THEN "backup" ELSE "check"
  /\ UNCHANGED <<handleVars, fileHandle, created, opened, objects, call, answer, faults>>

ReadPrimaryFails ==
  /\ pc = "read" /\ objects = {}
  /\ (Primary = BadHeader /\ NoFault) \/ Fault
  /\ ReadFails

\* The header differs from the backup: the offset is taken as the page size.
ReadBackup ==
  /\ pc = "backup" /\ Backup # BadHeader
  /\ format' = [version |-> IF format.version = "none" THEN Backup.version ELSE format.version,
                revision |-> IF format.revision = "none" THEN Backup.revision ELSE format.revision,
                size |-> IF format.size = Backup.size THEN format.size ELSE probe]
  /\ pc' = "check"
  /\ UNCHANGED <<handleVars, fileHandle, created, opened, objects, abort, call, probe, answer, faults>>

\* Mutant: the offset is not doubled.
NextProbeSame == IF probe = 0 THEN FirstProbe ELSE probe

\* The next turn of the loop, which reads at the same offset again.
NextProbe == IF probe = 0 THEN FirstProbe ELSE 2 * probe

ReadBackupAgain ==
  /\ pc = "backup" /\ NextProbe <= LastProbe
  /\ (Backup = BadHeader /\ NoFault) \/ Fault
  /\ probe' = NextProbe
  /\ UNCHANGED <<handleVars, fileVars, pc, call, answer>>

ReadBackupFails ==
  /\ pc = "backup" /\ NextProbe > LastProbe
  /\ (Backup = BadHeader /\ NoFault) \/ Fault
  /\ ReadFails

Sizes(revision) == IF revision \in {"old", "none"} THEN OldSizes ELSE NewSizes

Supported == format.version = "620" /\ format.size \in Sizes(format.revision)

Check ==
  /\ pc = "check" /\ Supported
  /\ pc' = "objects"
  /\ UNCHANGED <<handleVars, fileVars, call, probe, answer, faults>>

CheckFails ==
  /\ pc = "check" /\ ~ Supported
  /\ ReadFails
  /\ UNCHANGED faults

-----------------------------------------------------------------------------
(***************************************************************************)
(* libesedb_file_open_read: the objects.  A streaming file has no database *)
(* and no catalogs.                                                        *)
(***************************************************************************)
PartsOf(content) == IF content.type = "database" THEN 1 .. Len(Parts) ELSE 1 .. 2

Missing == {i \in PartsOf(call.content) : Parts[i] \notin objects}
NextPart == Parts[CHOOSE i \in Missing : \A j \in Missing : i <= j]

MakePart ==
  /\ pc = "objects" /\ Missing # {} /\ NextPart \in call.content.readable
  /\ objects' = objects \union {NextPart}
  /\ UNCHANGED <<handleVars, fileHandle, created, opened, format, abort, callVars>>

MakePartFails ==
  /\ pc = "objects" /\ Missing # {}
  /\ (NextPart \notin call.content.readable /\ NoFault) \/ Fault
  /\ ReadFails

OpenEnds ==
  /\ pc = "objects" /\ Missing = {}
  /\ fileHandle' = call.handle
  /\ created' = IF call.op = "open" THEN TRUE ELSE created
  /\ abort' = FALSE
  /\ pc' = "idle"
  /\ answer' = 1
  /\ UNCHANGED <<handleVars, opened, objects, format, call, probe, faults>>

-----------------------------------------------------------------------------
(***************************************************************************)
(* Closing.  An error of libbfio does not keep the rest from being done.   *)
(***************************************************************************)
Release(state, closes) ==
  IF created THEN "none" ELSE IF opened /\ closes THEN "closed" ELSE state

Forget(next) ==
  /\ fileHandle' = NoHandle /\ created' = FALSE /\ opened' = FALSE
  /\ objects' = {} /\ format' = NoFormat /\ abort' = FALSE
  /\ call' = [NoCall EXCEPT !.op = "close"]
  /\ pc' = next
  /\ UNCHANGED <<reopened, probe>>

\* libesedb_file_close, and libesedb_file_free of a file that is open
Close(next) ==
  /\ Idle /\ fileHandle # NoHandle
  /\ handle' = [handle EXCEPT ![fileHandle] = Release(@, TRUE)]
  /\ answer' = 0
  /\ Forget(next)
  /\ UNCHANGED <<callerOpened, faults>>

\* A handle that could not be closed is left to the caller, who is told so.
CloseHandleFails(next) ==
  /\ Idle /\ fileHandle # NoHandle /\ opened
  /\ Fault
  /\ handle' = [handle EXCEPT ![fileHandle] = Release(@, FALSE)]
  /\ callerOpened' = IF created THEN callerOpened ELSE callerOpened \union {fileHandle}
  /\ answer' = -1
  /\ Forget(next)

CloseUnopened ==
  /\ Idle /\ fileHandle = NoHandle
  /\ call' = [NoCall EXCEPT !.op = "close"]
  /\ answer' = -1
  /\ UNCHANGED <<handleVars, fileVars, pc, probe, faults>>

FreeUnopened ==
  /\ Idle /\ fileHandle = NoHandle
  /\ pc' = "freed"
  /\ UNCHANGED <<handleVars, fileVars, call, probe, answer, faults>>

\* libesedb_file_initialize
Initialize ==
  /\ pc = "freed"
  /\ pc' = "idle"
  /\ UNCHANGED <<handleVars, fileVars, call, probe, answer, faults>>

-----------------------------------------------------------------------------
Step ==
  \/ IsOpen \/ OpenHandle \/ OpenHandleFails \/ AlreadyOpen
  \/ ReadPrimary \/ ReadPrimaryFails
  \/ ReadBackup \/ ReadBackupAgain \/ ReadBackupFails
  \/ Check \/ CheckFails
  \/ MakePart \/ MakePartFails \/ OpenEnds

CloseCall ==
  \/ \E next \in {"idle", "freed"} : Close(next) \/ CloseHandleFails(next)
  \/ CloseUnopened \/ FreeUnopened

Next ==
  \/ \E h \in CallerHandles : CallerOpens(h) \/ CallerCloses(h)
  \/ \E h \in LibraryHandles, content \in Contents : Open(h, content)
  \/ \E h \in CallerHandles, content \in Contents : OpenFileIOHandle(h, content)
  \/ OpenRefused \/ SignalAbort
  \/ Initialize
  \/ Step
  \/ CloseCall

Spec == Init /\ [][Next]_vars /\ WF_vars(Step)
-----------------------------------------------------------------------------
TypeOK ==
  /\ handle \in [Handles -> {"none", "closed", "open"}]
  /\ callerOpened \subseteq CallerHandles /\ reopened \in BOOLEAN
  /\ fileHandle \in Handles \union {NoHandle}
  /\ created \in BOOLEAN /\ opened \in BOOLEAN /\ abort \in BOOLEAN
  /\ objects \subseteq PartNames
  /\ format \in Header
  /\ pc \in {"idle", "freed", "handle", "read", "backup", "check", "objects"}
  /\ call \in [op : {"none", "open", "open file io handle", "refused", "close"},
              handle : Handles \union {NoHandle}, wasOpen : BOOLEAN, content : Content]
  /\ probe \in Nat
  /\ answer \in {-1, 0, 1, Busy}
  /\ faults \in 0 .. MaxFaults

(***************************************************************************)
(* Between calls the objects of a file and its handle exist together or    *)
(* not at all, and a file that is open is complete.  An open that fails    *)
(* half-way leaves a file that can be opened, and a second open leaves the *)
(* file that was open as it was (on_error of libesedb_file_open_read).     *)
(***************************************************************************)
Complete == {Parts[1], Parts[2]} \subseteq objects /\ (Parts[3] \in objects => objects = PartNames)

AllOrNothing == BetweenCalls => IF fileHandle = NoHandle THEN objects = {} ELSE Complete

(***************************************************************************)
(* What an open in progress may rely on, whatever calls came before it:    *)
(* the handle it works on is not the one of the file or of the caller when *)
(* the library opened it, so that on_error may close it; the flag says so  *)
(* only then; and objects are made only for a file that has no handle yet  *)
(* (libesedb_file_open_file_io_handle).                                    *)
(***************************************************************************)
Making == pc \in {"backup", "check", "objects"}

HandleOfCall ==
  ~ BetweenCalls =>
    /\ \/ call.op = "open" /\ call.handle \in LibraryHandles
       \/ call.op = "open file io handle" /\ call.handle \in CallerHandles
    /\ pc = "handle" => ~ call.wasOpen /\ (call.op = "open" => handle[call.handle] = "closed")
    /\ pc # "handle" =>
         /\ handle[call.handle] = "open"
         /\ call.op = "open" => ~ call.wasOpen
         /\ ~ call.wasOpen => opened /\ call.handle \notin callerOpened \union {fileHandle}
    /\ Making => fileHandle = NoHandle

OpenedFlag ==
  opened /\ (BetweenCalls \/ pc = "handle" \/ call.wasOpen) =>
    fileHandle # NoHandle /\ fileHandle \notin callerOpened

MayCloseHandle == HandleOfCall /\ OpenedFlag

(***************************************************************************)
(* Between calls the only handle that the library has created is the one   *)
(* of a file that was opened by name: no open or close, failing or not,    *)
(* leaks one or loses track of it (file_io_handle_created_in_library).     *)
(***************************************************************************)
NoHandleLeaks ==
  BetweenCalls => {h \in LibraryHandles : handle[h] # "none"} = IF created THEN {fileHandle} ELSE {}

(***************************************************************************)
(* The handle of an open file is open, and a handle that the caller has    *)
(* opened stays open: no path through the library closes it, also not the  *)
(* failure to open it a second time (file_io_handle_opened_in_library).    *)
(***************************************************************************)
HandlesStayOpen ==
  /\ \A h \in callerOpened : handle[h] = "open"
  /\ fileHandle # NoHandle => handle[fileHandle] = "open"

(***************************************************************************)
(* What the library opened it closes, and an open that fails undoes it:    *)
(* between calls no handle is open but the one of the file and those that  *)
(* are for the caller to close (file_io_handle_opened_in_library).  It     *)
(* holds until a file is opened while it is open.                          *)
(***************************************************************************)
HandlesAreClosed ==
  BetweenCalls => \A h \in Handles : handle[h] = "open" => h \in callerOpened \union {fileHandle}

ClosedUnlessReopened == ~ reopened => HandlesAreClosed

(***************************************************************************)
(* An open fails for a reason: the file was open, a fault happened, or one *)
(* of its headers or objects is bad, or its headers do not agree.  In      *)
(* particular no earlier failure or close keeps a file from being opened.  *)
(***************************************************************************)
HeadersAgree(content) ==
  /\ content.primary # BadHeader /\ content.backup # BadHeader
  /\ content.primary.size = content.backup.size
  /\ content.primary.version = "620" \/ (content.primary.version = "none" /\ content.backup.version = "620")
  /\ LET revision == IF content.primary.revision = "none" THEN content.backup.revision ELSE content.primary.revision
     IN  content.primary.size \in Sizes(revision)

Sound(content) ==
  HeadersAgree(content) /\ \A i \in PartsOf(content) : Parts[i] \in content.readable

OpenSucceeds ==
  Idle /\ call.op \in {"open", "open file io handle"} /\ answer = -1 =>
    faults > 0 \/ fileHandle # NoHandle \/ ~ Sound(call.content)

(***************************************************************************)
(* A file that is opened has the page size of its header when its headers  *)
(* agree, whatever was opened before, and is not opened when a read of it  *)
(* would be needed that cannot succeed.                                    *)
(***************************************************************************)
OpenedIsSound ==
  answer' = 1 /\ answer = Busy =>
    /\ \A i \in PartsOf(call.content) : Parts[i] \in call.content.readable
    /\ Primary # BadHeader /\ Backup # BadHeader
    /\ Primary.size = Backup.size => format.size = Primary.size

(***************************************************************************)
(* An open is a success when the file is sound and only when it is read    *)
(* whole, with what is in its own headers (libesedb_file_open_read).       *)
(***************************************************************************)
OpenIsExact == [][OpenSucceeds' /\ OpenedIsSound]_vars

(***************************************************************************)
(* Every call ends, the search for the backup header included.             *)
(***************************************************************************)
CallsEnd == (answer = Busy) ~> (answer # Busy)

(***************************************************************************)
(* A comment in libesedb_file_open_read: when the headers differ the       *)
(* offset of the backup header is the actual page size.  It was read at    *)
(* the page size of the first header.                                      *)
(***************************************************************************)
BackupOffsetIsPageSize == pc = "check" /\ Primary.size # 0 => format.size = Primary.size
=============================================================================
