------------------------------ MODULE RecordApi ------------------------------
(***************************************************************************)
(* The calls on a record that was read: columns, values, multi values and  *)
(* long values.  The values keep the entries of their multi value and are  *)
(* asked for them any number of times.  A long value is made of segments   *)
(* that are looked up one after the other by key and offset, and its data  *)
(* is put together the first time it is wanted.                            *)
(***************************************************************************)
EXTENDS RecordRead, RecordValue, FiniteSetsExt

CONSTANTS
  MaxAsks,   \* how often a value is asked for its multi value
  MaxFaults  \* how many look-ups and reads may fail

ASSUME ApiAssumption == MaxAsks \in Nat /\ MaxFaults \in Nat

VARIABLES
  entries,   \* the entries in each value, as extents of its data
  asked,     \* how often each value was asked for its multi value
  reply,     \* the last answer: the call, the value it was for and the code
  long,      \* the long value: its step, value, next offset and segments
  data,      \* the data of the long value once it is put together, or NoBytes
  faults     \* the look-ups that may still fail

apiVars == <<entries, asked, reply, long, data, faults>>
recordVars == <<readVars, apiVars>>

NoBytes == <<>>
NoReply == [call |-> "none", value |-> 0, code |-> 0]
NoLong == [step |-> "none", value |-> 0, next |-> 0, segments |-> <<>>]

ApiInit ==
  /\ RowInit
  /\ entries = [i \in 1..Len(Columns) |-> <<>>]
  /\ asked = [i \in 1..Len(Columns) |-> 0]
  /\ reply = NoReply
  /\ long = NoLong
  /\ data = NoBytes
  /\ faults = MaxFaults

HasRecord == stage = "done" /\ result = 1
Idle == HasRecord /\ long.step \in {"none", "ready"}

(* The columns of the template come first. *)
NumberOfValues == Len(values)
ColumnOf(i) ==
  IF i <= Len(row.template) THEN row.template[i]
  ELSE row.table[i - Len(row.template)]
ColumnIdentifier(i) == ColumnOf(i).id
ColumnType(i) == ColumnOf(i).type

Stored(i) ==
  [set |-> values[i].set, type |-> ColumnType(i), flags |-> values[i].flags,
   data |-> SubSeq(row.data, values[i].offset + 1, values[i].offset + values[i].size)]

Answer(call, i, code) == reply' = [call |-> call, value |-> i, code |-> code]

-----------------------------------------------------------------------------
(* A multi value starts with the offsets of its entries, the first of which *)
(* says how many there are; the highest bit is not part of an offset.       *)

OffsetAt(bytes, k) ==
  LET At(n) == IF n <= Len(bytes) THEN bytes[n] ELSE stray
  IN  (At(2 * k - 1) + 256 * At(2 * k)) % 32768

NumberOfEntries(bytes) == OffsetAt(bytes, 1) \div 2

(* How many offsets there are before the first that is below the last. *)
Ascending(bytes) ==
  Min({NumberOfEntries(bytes)} \cup
      {k \in 1..(NumberOfEntries(bytes) - 1) : OffsetAt(bytes, k + 1) < OffsetAt(bytes, k)})

EntryBetween(bytes, k) ==
  [offset |-> OffsetAt(bytes, k), size |-> OffsetAt(bytes, k + 1) - OffsetAt(bytes, k)]
\* Mutant: the last entry has the size of the value.
LastEntryWhole(bytes) ==
  [offset |-> OffsetAt(bytes, NumberOfEntries(bytes)), size |-> Len(bytes)]

LastEntry(bytes) ==
  LET o == OffsetAt(bytes, NumberOfEntries(bytes))
  IN  [offset |-> o, size |-> U16(Len(bytes) - o)]

(* What is appended to the entries before an offset is refused. *)
Parsed(bytes) ==
  IF NumberOfEntries(bytes) = 0 THEN [code |-> -1, entries |-> <<>>]
  ELSE LET n == Ascending(bytes)
           front == [k \in 1..(n - 1) |-> EntryBetween(bytes, k)]
       IN  IF n < NumberOfEntries(bytes) THEN [code |-> -1, entries |-> front]
           ELSE [code |-> 1, entries |-> Append(front, LastEntry(bytes))]

NoMultiValue(v) == ~IsMultiValue(v) \/ IsLongValue(v) \/ Has(v, SizeDefinition)

GetMultiValue(i) ==
  /\ Idle
  /\ LET v == Stored(i)
         parsed == Parsed(v.data)
     IN  IF NoMultiValue(v) THEN /\ Answer("multi_value", i, -1)
                                 /\ UNCHANGED <<entries, asked>>
         ELSE IF ~v.set THEN /\ Answer("multi_value", i, 0)
                             /\ UNCHANGED <<entries, asked>>
         ELSE /\ Answer("multi_value", i, parsed.code)
              /\ entries' = [entries EXCEPT ![i] = @ \o parsed.entries]
              /\ asked' = [asked EXCEPT ![i] = @ + 1]
  /\ UNCHANGED <<readVars, long, data, faults>>

(* Without entries that were appended they are read when they are wanted. *)
ReadValueEntries(v) ==
  IF Has(v, Multiple) THEN Parsed(v.data) ELSE [code |-> 1, entries |-> <<>>]

-----------------------------------------------------------------------------
(* Long values.  The page tree of the long values holds, for the key of a  *)
(* value, a record of 8 bytes and its segments by their offsets.           *)

KeySizes == {4, 8}
NotFound == -1
LeadOf(key) == IF key \in DOMAIN row.store THEN row.store[key].lead ELSE NotFound
SegmentsOf(key) == row.store[key].segments
LongKey == Stored(long.value).data
OpenLong(i) == [step |-> "lead", value |-> i, next |-> 0, segments |-> <<>>]

GetLongValue(i) ==
  /\ Idle
  /\ data' = NoBytes
  /\ LET v == Stored(i)
     IN  IF ~IsLongValue(v) \/ IsMultiValue(v) THEN /\ Answer("long_value", i, -1)
                                                    /\ long' = NoLong
         ELSE IF ~v.set THEN Answer("long_value", i, 0) /\ long' = NoLong
         ELSE IF Len(v.data) \notin KeySizes THEN Answer("long_value", i, -1) /\ long' = NoLong
         ELSE long' = OpenLong(i) /\ reply' = NoReply
  /\ UNCHANGED <<readVars, entries, asked, faults>>

LongFails == Answer("long_value", long.value, -1) /\ long' = NoLong

(* The record of the key is looked up; without it there is no long value. *)
ReadLead ==
  /\ HasRecord /\ long.step = "lead"
  /\ IF LeadOf(LongKey) = NotFound
     THEN Answer("long_value", long.value, 0) /\ long' = NoLong
     ELSE IF LeadOf(LongKey) # 8 THEN LongFails
     ELSE long' = [long EXCEPT !.step = "segments"] /\ UNCHANGED reply
  /\ UNCHANGED <<readVars, entries, asked, data, faults>>

IsCompressed(bytes) == Len(bytes) > 1 /\ IsLz(bytes)
\* Mutant: a compressed segment counts with the size it is stored with.
ExpandedSizeStored(bytes) == Len(bytes)
ExpandedSize(bytes) == IF IsCompressed(bytes) THEN LzSize(bytes) ELSE Len(bytes)
ListSize == FoldSeq(LAMBDA s, sum : ExpandedSize(s) + sum, 0, long.segments)

MoreSegments ==
  HasRecord /\ long.step = "segments" /\ long.next \in DOMAIN SegmentsOf(LongKey)
ThisSegment == SegmentsOf(LongKey)[long.next]

SegmentRejected ==
  \/ IF IsCompressed(ThisSegment) THEN Len(ThisSegment) < 3 ELSE long.next # ListSize
  \/ Len(ThisSegment) > SizeT - 1 - long.next

\* The offset of the next segment wraps; the size that is compared with what is left is the stored one.
ReadSegment ==
  /\ MoreSegments /\ ~SegmentRejected
  /\ long' = [long EXCEPT !.next = USize(@ + ExpandedSize(ThisSegment)),
                          !.segments = Append(@, ThisSegment)]
  /\ UNCHANGED <<readVars, entries, asked, reply, data, faults>>

ReadSegmentFails ==
  /\ MoreSegments /\ SegmentRejected
  /\ LongFails
  /\ UNCHANGED <<readVars, entries, asked, data, faults>>

(* A segment that is not found ends the list. *)
SegmentsEnd ==
  /\ HasRecord /\ long.step = "segments" /\ ~MoreSegments
  /\ long' = [long EXCEPT !.step = "ready"]
  /\ Answer("long_value", long.value, 1)
  /\ UNCHANGED <<readVars, entries, asked, data, faults>>

LookUpFails ==
  /\ HasRecord /\ long.step \in {"lead", "segments"} /\ faults > 0
  /\ faults' = faults - 1
  /\ LongFails
  /\ UNCHANGED <<readVars, entries, asked, data>>

-----------------------------------------------------------------------------
(* The data of a long value: its segments one behind the other in a buffer *)
(* of zeros that has the size of the list.                                 *)

Expanded(bytes) ==
  IF IsCompressed(bytes) THEN LzDecompress(bytes, LzSize(bytes), 0)
  ELSE Success(bytes)

Segment(i) == Expanded(long.segments[i])
SegmentsBad ==
  \E i \in DOMAIN long.segments :
    \/ IsCompressed(long.segments[i]) /\ LzSize(long.segments[i]) = 0
    \/ Segment(i).code = -1

AssembledData == FlattenSeq([i \in DOMAIN long.segments |-> Segment(i).bytes])

HoldsData(type) == type \in {"text", "largetext", "binary", "largebinary"}
AssembleRejected ==
  ~HoldsData(ColumnType(long.value)) \/ ListSize = 0 \/ SegmentsBad

CanAssemble == HasRecord /\ long.step = "ready" /\ data = NoBytes

Assemble ==
  /\ CanAssemble /\ ~AssembleRejected
  /\ data' = AssembledData
  /\ Answer("data", long.value, 1)
  /\ UNCHANGED <<readVars, entries, asked, long, faults>>

AssembleFails ==
  /\ CanAssemble
  /\ \/ AssembleRejected /\ UNCHANGED faults
     \/ long.segments # <<>> /\ faults > 0 /\ faults' = faults - 1
  /\ Answer("data", long.value, -1)
  /\ UNCHANGED <<readVars, entries, asked, long, data>>

(* With its data put together a long value answers from it. *)
LongSize == Len(data)
LongData(room) == IF room < Len(data) THEN -1 ELSE 1
LongText(code) ==
  IF ColumnType(long.value) \notin {"text", "largetext"} THEN -1 ELSE code
LongUtf8Size == LongText(1)
LongUtf8(room) == LongText(IF room < Len(data) + 1 THEN -1 ELSE 1)
LongUtf16Size == LongText(1)
LongUtf16(room) == LongText(IF room < Len(data) + 1 THEN -1 ELSE 1)
NumberOfSegments == Len(long.segments)
SegmentSize(i) == Len(long.segments[i])
SegmentData(i, room) == IF room < Len(long.segments[i]) THEN -1 ELSE 1

-----------------------------------------------------------------------------
LongStep ==
  ReadLead \/ ReadSegment \/ ReadSegmentFails \/ SegmentsEnd

ReadRow == ReadStep /\ UNCHANGED apiVars

Calls ==
  \E i \in DOMAIN values : (asked[i] < MaxAsks /\ GetMultiValue(i)) \/ GetLongValue(i)

ApiNext == ReadRow \/ Calls \/ LongStep \/ LookUpFails \/ Assemble \/ AssembleFails

Fairness == WF_recordVars(ReadRow) /\ WF_recordVars(LongStep)
ApiSpec == ApiInit /\ [][ApiNext]_recordVars /\ Fairness
-----------------------------------------------------------------------------
(* The entries of a multi value, asked for once, lie one behind the other  *)
(* and fill the value from the first one on, if the last one begins in it. *)
EntriesTile ==
  \A i \in DOMAIN values :
    /\ reply = [call |-> "multi_value", value |-> i, code |-> 1] /\ asked[i] = 1
    /\ EndOf(i) <= Size
    => LET e == entries[i]
           n == Len(e)
           size == values[i].size
       IN  /\ n >= 1 /\ e[1].offset \div 2 = n
           /\ \A k \in 1..(n - 1) : e[k].size >= 0 /\ e[k].offset + e[k].size = e[k + 1].offset
           /\ e[n].offset <= size => e[n].offset + e[n].size = size

(* In a row of any bytes nothing shares its bytes: not the values with     *)
(* each other, nor the entries within a value                              *)
(* (libesedb_data_definition_read_record, libesedb_record_get_multi_value).*)
PartsLieApart == ValuesLieApart /\ EntriesTile
=============================================================================
