--------------------------- MODULE OP1AIndexTable ---------------------------
(***************************************************************************)
(* OP1AIndexTable: the index of an OP-1a file's essence.  A track adds the *)
(* entry of a frame when it writes the frame, often before it knows which  *)
(* frame is shown there, and completes the entry later.  Content packages  *)
(* take the entries out of a cache into index table segments; segments are *)
(* flushed to partitions of the file while entries are still being added.  *)
(*                                                                         *)
(* A variable bit rate table has an entry per edit unit.  A constant bit   *)
(* rate table (IsCBE) has only the edit unit's byte count, and in the case *)
(* of AVC-Intra a segment of its own for the first edit unit.              *)
(***************************************************************************)
EXTENDS Integers, Sequences, FiniteSets, Functions

CONSTANTS
  Configs,             \* the ways in which a file may be written
  NoDuration,          \* no duration is known beforehand
  MaxSegmentEntries,   \* entries in MAX_INDEX_SEGMENT_SIZE bytes, rounded up
  GOPSizeGuess,        \* MAX_GOP_SIZE_GUESS
  MaxCacheEntries,     \* MAX_CACHE_ENTRIES
  Final,               \* by position, what the picture's entry shall show
  GOPStart             \* positions where the picture starts a GOP

(* Of a configuration: the elements of a content package in file order,    *)
(* those that always have the same size (cbe), whether there is an         *)
(* AVC-Intra element, and whether a picture with entries is MPEG-2 or AVC; *)
(* mRepeatIndexTable, mInputDuration or NoDuration.                        *)
ASSUME IndexTableAssumption ==
  /\ \A c \in Configs :
       /\ c.elements \in Seq(Range(c.elements)) /\ c.elements # <<>>
       /\ c.cbe \subseteq Range(c.elements)
       /\ c.avci \in BOOLEAN /\ c.mpeg2 \in BOOLEAN /\ c.repeat \in BOOLEAN
       /\ c.inputDuration \in Nat \cup {NoDuration}
  /\ MaxSegmentEntries \in Nat \ {0} /\ GOPSizeGuess \in 0 .. (MaxSegmentEntries - 1)
  /\ MaxCacheEntries \in Nat

VARIABLES
  config,         \* how this file is written; never changes
  cache,          \* per element, mIndexEntryCache: entries by position
  requireUpdates, \* per element, require_updates
  lastAdded,      \* per element, last_add_index_entry_pos
  elementSize,    \* per element, element_size
  deltas,         \* mDeltaEntries
  firstSegment,   \* mAVCIFirstIndexSegment: one segment, or none
  segments,       \* mIndexSegments
  flushed,        \* mWrittenVBEIndexSegments
  duration,       \* mDuration
  streamOffset,   \* mStreamOffset
  haveWritten,    \* mHaveWritten
  indexStatus,    \* "ok", "failed" (an exception) or "undefined"
  output          \* the segments that the last WriteSegments wrote

indexVars == <<config, cache, requireUpdates, lastAdded, elementSize, deltas, firstSegment,
               segments, flushed, duration, streamOffset, haveWritten,
               indexStatus, output>>

-----------------------------------------------------------------------------
Elements == config.elements
CBEElement == config.cbe
RepeatIndexTable == config.repeat
InputDuration == config.inputDuration

Element == Range(Elements)
IsCBE == CBEElement = Element
RequireIndexTableSegmentPair == IsCBE /\ config.avci

(* The slice of element i: a new one starts after each variable element.   *)
SliceOffset(i) == Cardinality({j \in 2 .. i : Elements[j - 1] \notin CBEElement})
SliceCount == SliceOffset(Len(Elements))

SizeOf(sizes, indices) == SumFunctionOnSet(sizes, indices)
ContentPackageSize(sizes) == SizeOf(sizes, DOMAIN sizes)

(* What the cache keeps of an entry. key stands for the key frame offset   *)
(* and the flags; the default entry is a key frame shown where it is coded.*)
DefaultKey == 0
IsDefault(entry) == entry.temporal = 0 /\ entry.key = DefaultKey
Shown(entry) == [temporal |-> entry.temporal, key |-> entry.key]

(* CreateDeltaEntries. A single zero delta is left out of the file, which  *)
(* means the same.                                                         *)
DeltaEntries(sizes) ==
  [i \in DOMAIN Elements |->
     [slice |-> SliceOffset(i),
      delta |-> SizeOf(sizes, {j \in 1 .. (i - 1) : SliceOffset(j) = SliceOffset(i)})]]

(* Where slices 1, 2, ... start in a content package. *)
SliceStarts(sizes) ==
  [s \in 1 .. SliceCount |->
     SizeOf(sizes, {j \in DOMAIN Elements : SliceOffset(j) < s})]

NewSegment(start) ==
  [start |-> start, duration |-> 0, byteCount |-> 0, deltas |-> <<>>, entries |-> <<>>]

InitIndexTable ==
  /\ config \in Configs
  /\ cache = [e \in Element |-> <<>>]
  /\ requireUpdates = [e \in Element |-> {}]
  /\ lastAdded = [e \in Element |-> -1]
  /\ elementSize = [e \in Element |-> 0]
  /\ deltas = <<>>
  /\ segments = <<NewSegment(0)>>
  /\ firstSegment = IF RequireIndexTableSegmentPair THEN <<NewSegment(0)>> ELSE <<>>
  /\ flushed = <<>>
  /\ duration = 0 /\ streamOffset = 0
  /\ haveWritten = FALSE
  /\ indexStatus = "ok"
  /\ output = <<>>

IndexFails ==
  /\ indexStatus' = "failed"
  /\ UNCHANGED <<config, cache, requireUpdates, lastAdded, elementSize, deltas, firstSegment,
                 segments, flushed, duration, streamOffset, haveWritten, output>>

-----------------------------------------------------------------------------
(* Entries of a variable bit rate table. *)

(* An entry in the cache. *)
CacheEntry(shown, canStart) ==
  [temporal |-> shown.temporal, key |-> shown.key, canStart |-> canStart]

CacheWith(e, position, entry) ==
  [p \in DOMAIN cache[e] \cup {position} |-> IF p = position THEN entry ELSE cache[e][p]]

(* AddIndexEntry and CacheIndexEntry. *)
AddIndexEntry(e, position, shown, canStart, require) ==
  IF IsCBE \/ position < duration \/ Cardinality(DOMAIN cache[e]) > MaxCacheEntries
    THEN IndexFails
    ELSE /\ cache' = [cache EXCEPT ![e] = CacheWith(e, position, CacheEntry(shown, canStart))]
         /\ requireUpdates' = [requireUpdates EXCEPT
                                 ![e] = IF require THEN @ \cup {position} ELSE @]
         /\ lastAdded' = [lastAdded EXCEPT ![e] = IF position > @ THEN position ELSE @]
         /\ UNCHANGED <<config, elementSize, deltas, firstSegment, segments, flushed, duration,
                        streamOffset, haveWritten, indexStatus, output>>

(* An entry in a segment. *)
SegmentEntry(shown, offset, slices) ==
  [temporal |-> shown.temporal, key |-> shown.key, offset |-> offset, slices |-> slices]

(* The segment in mIndexSegments that holds the entry at position. *)
HoldsPosition(i, position) ==
  segments[i].start <= position /\ position < segments[i].start + segments[i].duration

StillRequired(e, position) == requireUpdates[e] \ {position}

(* UpdateIndexEntry: the entry is completed in the cache or, if a content  *)
(* package has taken it, in its segment. An entry whose segment has been   *)
(* flushed is looked for before the start of the vector.                   *)
UpdateIndexEntry(e, position, shown) ==
  IF IsCBE \/ position < 0 \/ (position >= duration /\ position \notin DOMAIN cache[e])
    THEN IndexFails
    ELSE IF position >= duration
    THEN /\ cache' = [cache EXCEPT ![e][position] = CacheEntry(shown, @.canStart)]
         /\ requireUpdates' = [requireUpdates EXCEPT ![e] = StillRequired(e, position)]
         /\ UNCHANGED <<config, lastAdded, elementSize, deltas, firstSegment, segments, flushed,
                        duration, streamOffset, haveWritten, indexStatus, output>>
    ELSE IF \E i \in DOMAIN segments : HoldsPosition(i, position)
    THEN /\ \E i \in DOMAIN segments :
              /\ HoldsPosition(i, position)
              /\ segments' = [segments EXCEPT
                   ![i].entries[position - segments[i].start + 1] =
                     SegmentEntry(shown, @.offset, @.slices)]
         /\ requireUpdates' = [requireUpdates EXCEPT ![e] = StillRequired(e, position)]
         /\ UNCHANGED <<config, cache, lastAdded, elementSize, deltas, firstSegment, flushed,
                        duration, streamOffset, haveWritten, indexStatus, output>>
    ELSE /\ indexStatus' = "undefined"
         /\ UNCHANGED <<config, cache, requireUpdates, lastAdded, elementSize, deltas,
                        firstSegment, segments, flushed, duration, streamOffset,
                        haveWritten, output>>

(* The overload for an entry that lacks the temporal offset only.          *)
UpdateTemporalOffset(e, position, temporal) ==
  LET key == IF position >= duration THEN cache[e][position].key
             ELSE LET i == CHOOSE i \in DOMAIN segments : HoldsPosition(i, position)
                  IN  segments[i].entries[position - segments[i].start + 1].key
  IN  UpdateIndexEntry(e, position, [temporal |-> temporal, key |-> key])

RequireUpdatesAtPos(position) ==
  \E e \in Element : \E p \in requireUpdates[e] : p <= position

RequireUpdatesAtEnd(e, endOffset) ==
  \E p \in requireUpdates[e] : p <= lastAdded[e] + endOffset

(* IgnoreRequiredUpdates, of one element or of all. *)
IgnoreRequiredUpdates(es) ==
  /\ requireUpdates' = [e \in Element |-> IF e \in es THEN {} ELSE requireUpdates[e]]
  /\ UNCHANGED <<config, cache, lastAdded, elementSize, deltas, firstSegment, segments, flushed,
                 duration, streamOffset, haveWritten, indexStatus, output>>

(* What the tracks do with these: MPEG-2 adds an incomplete entry with its *)
(* key but NULL_TEMPORAL_OFFSET, and later gives the offset; AVC adds one  *)
(* that is shown at its own place and later gives all of it.               *)
NullTemporalOffset == 127

IncompleteEntry(position, key) ==
  IF config.mpeg2 THEN [temporal |-> NullTemporalOffset, key |-> Final[position].key]
                  ELSE [temporal |-> 0, key |-> key]

CompletePictureEntry(e, position) ==
  IF config.mpeg2 THEN UpdateTemporalOffset(e, position, Final[position].temporal)
                  ELSE UpdateIndexEntry(e, position, Final[position])

(* The frame to be written is the start of a GOP, and the previous GOP has *)
(* left entries incomplete: an MPEG-2 track gives up on them.              *)
GivesUpAt(e, position) ==
  config.mpeg2 /\ position \in GOPStart /\ RequireUpdatesAtEnd(e, 0)

(* The next edit unit may begin a partition. *)
CanStartPartition ==
  IsCBE \/ \A e \in Element \ CBEElement : cache[e][duration].canStart

-----------------------------------------------------------------------------
(* Edit units. *)

(* Mutant: mDuration = 1 is not looked at. *)
CreatesDeltas_FirstOnly == duration = 0

(* UpdateIndex makes delta entries from the first edit unit, and again     *)
(* from the second when the first has a segment to itself.                 *)
CreatesDeltas == duration = 0 \/ (firstSegment # <<>> /\ duration = 1)

ElementSizes(sizes) ==
  [e \in Element |->
     IF CreatesDeltas /\ e \in CBEElement
       THEN sizes[CHOOSE i \in DOMAIN Elements : Elements[i] = e] ELSE elementSize[e]]

(* CheckDeltaEntries. *)
SizeChanged(sizes) ==
  ~CreatesDeltas /\ \E i \in DOMAIN Elements :
    Elements[i] \in CBEElement /\ elementSize[Elements[i]] # sizes[i]

DeltasAfter(sizes) == IF CreatesDeltas THEN DeltaEntries(sizes) ELSE deltas

(* AddCBEIndexEntries: n edit units of the given size. *)
Extend(segment, size, n) ==
  [segment EXCEPT !.byteCount = size, !.duration = @ + n]
CannotExtend(segment, size) == segment.byteCount \notin {0, size}

WithDeltas(segment, sizes) ==
  IF CreatesDeltas THEN [segment EXCEPT !.deltas = DeltaEntries(sizes)] ELSE segment

(* The first segment is dropped when the second edit unit has its size.    *)
(* The element sizes compared with sizes have just been replaced by them.  *)
DropsFirst(sizes) ==
  /\ duration = 1 /\ firstSegment # <<>>
  /\ firstSegment[1].byteCount = ContentPackageSize(sizes)

(* Mutant: the first edit unit is lost with its segment. *)
MergedUnits_One(sizes) == 1

MergedUnits(sizes) == IF DropsFirst(sizes) THEN 2 ELSE 1

UpdateCBEIndex(sizes) ==
  LET size == ContentPackageSize(sizes)
      main == WithDeltas(segments[1], sizes)
  IN IF duration = 0 /\ firstSegment # <<>>
       THEN /\ firstSegment' = <<Extend(WithDeltas(firstSegment[1], sizes), size, 1)>>
            /\ segments' = <<[segments[1] EXCEPT !.start = 1]>>
       ELSE /\ firstSegment' = IF DropsFirst(sizes) THEN <<>> ELSE firstSegment
            /\ segments' = <<[Extend(main, size, MergedUnits(sizes)) EXCEPT
                                !.start = IF DropsFirst(sizes) THEN 0 ELSE @]>>

CBEIndexFails(sizes) ==
  /\ ~(duration = 0 /\ firstSegment # <<>>)
  /\ CannotExtend(segments[1], ContentPackageSize(sizes))

(* The entries that the elements have cached for the edit unit, but for    *)
(* default ones, which must agree.                                         *)
CachedEntries ==
  {Shown(cache[e][duration]) : e \in {d \in Element : duration \in DOMAIN cache[d]}}
NonDefaultEntries == {entry \in CachedEntries : ~IsDefault(entry)}

EntryForUnit ==
  IF NonDefaultEntries = {} THEN [temporal |-> 0, key |-> DefaultKey]
  ELSE CHOOSE entry \in NonDefaultEntries : TRUE

(* Mutant: a segment is not cut before it is full. *)
RequireNewSegment_WhenFull ==
  segments = <<>> \/ segments[Len(segments)].duration >= MaxSegmentEntries

RequireNewSegment ==
  \/ segments = <<>>
  \/ LET n == segments[Len(segments)].duration
     IN n >= MaxSegmentEntries \/ (n >= MaxSegmentEntries - GOPSizeGuess /\ CanStartPartition)

AddToSegment(segment, sizes) ==
  [segment EXCEPT !.duration = @ + 1,
                  !.entries  = Append(@, SegmentEntry(EntryForUnit, streamOffset,
                                                      SliceStarts(sizes)))]

NotTaken(e) == DOMAIN cache[e] \ {duration}

UpdateVBEIndex(sizes) ==
  /\ cache' = [e \in Element |-> [p \in NotTaken(e) |-> cache[e][p]]]
  /\ segments' =
       IF RequireNewSegment
         THEN Append(segments, AddToSegment(NewSegment(duration), sizes))
         ELSE [segments EXCEPT ![Len(segments)] = AddToSegment(@, sizes)]

(* UpdateIndex for an edit unit whose elements have the given sizes. *)
UpdateIndex(sizes) ==
  IF SizeChanged(sizes)
       \/ (IsCBE /\ CBEIndexFails(sizes))
       \/ (~IsCBE /\ Cardinality(NonDefaultEntries) > 1)
    THEN IndexFails
    ELSE /\ deltas' = DeltasAfter(sizes)
         /\ elementSize' = ElementSizes(sizes)
         /\ IF IsCBE THEN UpdateCBEIndex(sizes) /\ UNCHANGED cache
                     ELSE UpdateVBEIndex(sizes) /\ UNCHANGED firstSegment
         /\ duration' = duration + 1
         /\ streamOffset' = streamOffset + ContentPackageSize(sizes)
         /\ UNCHANGED <<config, requireUpdates, lastAdded, flushed, haveWritten, indexStatus, output>>

(* The size of an edit unit, when n take up size. *)
UnitByteCount(size, n) == size \div n

(* UpdateIndex for n clip wrapped samples that take up size. A single one  *)
(* goes the way of an edit unit: its size is compared with the element's.  *)
UpdateIndexSamples(size, n) ==
  IF n = 1 THEN UpdateIndex(<<size>>)
  ELSE IF CannotExtend(segments[1], UnitByteCount(size, n)) THEN IndexFails
  ELSE /\ segments' = [segments EXCEPT ![1] = Extend(@, UnitByteCount(size, n), n)]
       /\ duration' = duration + n
       /\ streamOffset' = streamOffset + size
       /\ UNCHANGED <<config, cache, requireUpdates, lastAdded, elementSize, deltas,
                      firstSegment, flushed, haveWritten, indexStatus, output>>

-----------------------------------------------------------------------------
(* Segments. *)

HaveSegments == IsCBE \/ (segments # <<>> /\ segments[1].duration > 0)

HaveFooterSegments ==
  IF IsCBE THEN duration > 0 /\ (~haveWritten \/ RepeatIndexTable)
           ELSE HaveSegments \/ (flushed # <<>> /\ RepeatIndexTable)

(* Until the final write the duration of the CBE segment is left open,     *)
(* unless it was given beforehand.                                         *)
WrittenDuration(final) ==
  IF InputDuration # NoDuration
    THEN InputDuration - Len(firstSegment)
    ELSE IF final THEN segments[1].duration ELSE 0

WritesMainSegment == firstSegment = <<>> \/ duration > 1

(* WriteCBESegments: what is written for the segments. *)
CBESegments(final) ==
  firstSegment
    \o (IF WritesMainSegment
          THEN <<[segments[1] EXCEPT !.duration = WrittenDuration(final)]>> ELSE <<>>)

(* WriteVBESegments: every segment gets the delta entries of the table. *)
VBESegments(list) == [i \in DOMAIN list |-> [list[i] EXCEPT !.deltas = deltas]]

Repeats(isFooter) == RepeatIndexTable /\ isFooter

Keeps(isFooter) == RepeatIndexTable /\ ~isFooter

(* The assertions on the duration that the file was opened with. *)
DurationFails ==
  InputDuration # NoDuration
    /\ (~IsCBE \/ (WritesMainSegment /\ InputDuration < duration))

(* WriteSegments to a partition, the footer or another. *)
WriteSegments(isFooter, final) ==
  IF duration = 0 \/ DurationFails
    THEN IndexFails
    ELSE /\ haveWritten' = TRUE
         /\ IF IsCBE
              THEN output' = CBESegments(final) /\ UNCHANGED <<segments, flushed>>
              ELSE /\ output' = VBESegments(IF Repeats(isFooter) THEN flushed \o segments
                                                                 ELSE segments)
                   /\ flushed' = IF Keeps(isFooter) THEN flushed \o segments
                                 ELSE IF Repeats(isFooter) THEN <<>> ELSE flushed
                   /\ segments' = <<>>
         /\ UNCHANGED <<config, cache, requireUpdates, lastAdded, elementSize, deltas,
                        firstSegment, duration, streamOffset, indexStatus>>

(* The segments of a list are consecutive and begin and end there. *)
Spans(list, first, end) ==
  /\ \A i \in DOMAIN list :
       list[i].start = IF i = 1 THEN first ELSE list[i - 1].start + list[i - 1].duration
  /\ (IF list = <<>> THEN first ELSE list[Len(list)].start + list[Len(list)].duration) = end
=============================================================================
