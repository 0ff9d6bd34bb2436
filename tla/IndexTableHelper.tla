-------------------------- MODULE IndexTableHelper --------------------------
(***************************************************************************)
(* IndexTableHelper: the offsets of the edit units in the essence          *)
(* container, from the index table segments read from the file and, for    *)
(* edit units these do not cover yet, from what was met while reading: the *)
(* runtime segments.  Segments are in order and without gaps; one read     *)
(* from the file replaces what it covers.                                  *)
(*                                                                         *)
(* A segment has a start, a duration, the size of its edit units if that   *)
(* is constant (unit, else 0) and where its essence begins (base), or the  *)
(* stored offsets (entries) and how many of them count (num).  Avid's      *)
(* extra and paired entries are left out, and so is the rest of an index   *)
(* entry, which the reader hands on unread.                                *)
(***************************************************************************)
EXTENDS Integers, SequencesExt

CONSTANT RuntimeSegmentSize  \* RUNTIME_INDEX_SEGMENT_SIZE
ASSUME RuntimeSegmentSizeAssumption == RuntimeSegmentSize \in Nat \ {0}

NoIndex == [segments |-> <<>>, last |-> 1, unit |-> 0, dataSize |-> 0,
            duration |-> 0, complete |-> FALSE]

(* What AppendIndexEntry leaves unwritten.                                  *)
Unset == -1

SegmentEnd(s) == s.start + s.duration
Total(segments) == FoldSeq(LAMBDA s, sum : s.duration + sum, 0, segments)

RuntimeSegment(position, offset) ==
  [start |-> position, duration |-> 1, unit |-> 0, base |-> 0, entries |-> <<offset>>,
   num |-> 1, first |-> 0, alloc |-> RuntimeSegmentSize, fromFile |-> FALSE]

(* AppendIndexEntry writes behind mEntriesStart, GetEditUnit does not read  *)
(* from there.                                                              *)
AppendIndexEntry(s, offset) ==
  LET at == s.first + s.num + 1
  IN  [s EXCEPT !.entries = [i \in 1 .. at |->
                               IF i = at THEN offset
                               ELSE IF i \in DOMAIN s.entries THEN s.entries[i] ELSE Unset],
                !.num = @ + 1, !.duration = @ + 1]

UpdateStartPosition(s, position) ==
  [s EXCEPT !.start = position, !.first = @ + (position - s.start),
            !.duration = @ - (position - s.start)]

UpdateDuration(s, duration) ==
  [s EXCEPT !.num = @ - (s.duration - duration), !.duration = duration]

CreateStartSegment(s, duration) ==
  [s EXCEPT !.entries = SubSeq(@, 1, duration), !.num = duration, !.first = 0,
            !.duration = duration, !.alloc = duration, !.fromFile = FALSE]

SegmentOffset(s, position) ==
  IF s.entries = <<>> THEN s.base + (position - s.start) * s.unit
  ELSE s.entries[position - s.start + 1]

-----------------------------------------------------------------------------
(* What the segments know.                                                  *)

HaveEditUnit(x, position) ==
  x.segments # <<>> /\ position >= 0 /\ position < x.duration

HaveEditUnitOffset(x, position) == position = 0 \/ HaveEditUnit(x, position)

HaveEditUnitSize(x, position) ==
  \/ x.unit > 0
  \/ /\ x.segments # <<>>
     /\ HaveEditUnitOffset(x, position)
     /\ HaveEditUnitOffset(x, position + 1) \/ x.dataSize # 0

(* The search for a segment starts at the one found last, which exists as   *)
(* long as segments are not replaced by fewer ones.                         *)
SearchStarts(x) == x.last <= Len(x.segments)

SegmentOf(x, position) ==
  CHOOSE i \in DOMAIN x.segments :
    LET s == x.segments[i]
    IN  s.start <= position /\ (s.duration = 0 \/ position < SegmentEnd(s))

Found(x, position) == [x EXCEPT !.last = SegmentOf(x, position)]

GetEditUnitOffset(x, position) ==
  IF position = 0 THEN 0 ELSE SegmentOffset(x.segments[SegmentOf(x, position)], position)

(* Of an edit unit whose size is known: the next one is looked up too, or   *)
(* it is the last.                                                          *)
SizeFromNext(x, position) ==
  x.unit = 0 /\ (x.duration = 0 \/ position + 1 < x.duration)
GetEditUnitSize(x, position) ==
  IF x.unit > 0 THEN x.unit
  ELSE (IF SizeFromNext(x, position) THEN GetEditUnitOffset(x, position + 1) ELSE x.dataSize)
         - GetEditUnitOffset(x, position)
FoundWithSize(x, position) ==
  Found(x, IF SizeFromNext(x, position) THEN position + 1 ELSE position)

-----------------------------------------------------------------------------
(* What changes them.                                                       *)

SetEssenceDataSize(x, size) ==
  [x EXCEPT !.dataSize = size,
            !.duration = IF @ = 0 /\ x.unit > 0 THEN size \div x.unit ELSE @]

SetIsComplete(x) == SetEssenceDataSize([x EXCEPT !.complete = TRUE], x.dataSize)

(* An edit unit that was read, when no segment covers it.                   *)
IndexUpdates(x, position) ==
  ~(position < x.duration \/ (x.duration = 0 /\ x.unit > 0))

UpdateIndexAllowed(x, position) ==
  position <= x.duration /\ (IndexUpdates(x, position) => x.unit = 0)

UpdateIndex(x, position, offset) ==
  LET s == Last(x.segments)
      appends == x.segments # <<>> /\ ~s.fromFile /\ s.first + s.num < s.alloc
  IN  IF ~IndexUpdates(x, position) THEN x
      ELSE [x EXCEPT
              !.segments = IF appends THEN Append(Front(@), AppendIndexEntry(s, offset))
                           ELSE Append(@, RuntimeSegment(position, offset)),
              !.duration = @ + 1]

(* A segment with constant edit unit size replaces a single one read from   *)
(* the file without, unless that is longer; behind its like it follows on.  *)
KeepsOld(x, new) ==
  LET old == Last(x.segments)
  IN  IF old.unit = 0 THEN new.duration > 0 /\ new.duration < x.segments[1].duration
      ELSE old.duration = 0 \/ new.start < SegmentEnd(old)

InsertCBEIndexSegment(x, new) ==
  LET old == Last(x.segments)
  IN  IF x.segments = <<>> \/ (old.unit = 0 /\ ~KeepsOld(x, new))
      THEN [x EXCEPT !.segments = <<new>>, !.unit = new.unit, !.duration = new.duration]
      ELSE IF KeepsOld(x, new) THEN x
      ELSE [x EXCEPT !.segments = Append(@, [new EXCEPT !.base = old.base + old.unit * old.duration]),
                     !.unit = IF new.unit = @ THEN @ ELSE 0,
                     !.duration = @ + new.duration]

(* What is left of a segment before and after the new one.                  *)
Before(s, new) ==
  IF SegmentEnd(s) <= new.start THEN <<s>>
  ELSE IF s.start >= new.start THEN <<>>
  ELSE IF SegmentEnd(s) > SegmentEnd(new) THEN <<CreateStartSegment(s, new.start - s.start)>>
  ELSE <<UpdateDuration(s, new.start - s.start)>>
After(s, new) ==
  IF s.start >= SegmentEnd(new) THEN <<s>>
  ELSE IF SegmentEnd(s) <= SegmentEnd(new) THEN <<>>
  ELSE <<UpdateStartPosition(s, SegmentEnd(new))>>

(* A mutant: what the new segment covers stays.                             *)
InsertVBEIndexSegmentKeepingOld(x, new) ==
  LET before == SelectSeq(x.segments, LAMBDA s : s.start < new.start)
      after == SelectSeq(x.segments, LAMBDA s : s.start >= new.start)
      all == before \o <<new>> \o after
  IN  [x EXCEPT !.segments = all, !.duration = Total(all)]

InsertVBEIndexSegment(x, new) ==
  LET before == FlattenSeq([i \in DOMAIN x.segments |-> Before(x.segments[i], new)])
      after == FlattenSeq([i \in DOMAIN x.segments |-> After(x.segments[i], new)])
      all == before \o <<new>> \o after
  IN  [x EXCEPT !.segments = all, !.duration = Total(all)]

(* Segments the table cannot take: constant and variable sizes mixed, or a  *)
(* gap before the new one.                                                  *)
CBEFits(x, new) ==
  LET old == Last(x.segments)
  IN  IF x.segments = <<>> THEN new.start = 0
      ELSE /\ old.unit = 0 => Len(x.segments) = 1 /\ old.fromFile
           /\ KeepsOld(x, new) \/ new.start = (IF old.unit = 0 THEN 0 ELSE SegmentEnd(old))
VBEFits(x, new) ==
  /\ x.unit = 0
  /\ \/ new.start <= Total(x.segments)
     \/ \E i \in DOMAIN x.segments : SegmentEnd(x.segments[i]) > SegmentEnd(new)
SegmentFits(x, new) ==
  IF new.unit > 0 THEN CBEFits(x, new) ELSE new.duration > 0 => VBEFits(x, new)

ReadIndexTableSegment(x, new) ==
  IF new.unit > 0 THEN InsertCBEIndexSegment(x, new)
  ELSE IF new.duration > 0 THEN InsertVBEIndexSegment(x, new)
  ELSE x
=============================================================================
