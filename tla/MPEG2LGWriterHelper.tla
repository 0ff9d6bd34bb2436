------------------------ MODULE MPEG2LGWriterHelper ------------------------
(***************************************************************************)
(* How the MPEG-2 long GOP tracks find the index entries of their frames.  *)
(* Frames arrive in coded order; the temporal reference of a frame is its  *)
(* place in the display order of its GOP.  The index entry at a position   *)
(* says where the frame displayed there is coded (temporal offset) and     *)
(* where decoding the frame coded there has to start (key frame offset).   *)
(*                                                                         *)
(* A stream may be cut: a GOP can end early, and frames of it be missing.  *)
(***************************************************************************)
EXTENDS Integers, Sequences, FiniteSets, Functions, FiniteSetsExt

CONSTANTS
  Shapes,      \* the GOPs of a stream: [closed, frames], frames in coded order
  Unknown,     \* NULL_TEMPORAL_OFFSET
  MaxFrames    \* bound: frames in a stream

(* A GOP starts with its one I frame, has no two frames of the same place   *)
(* of display, and those displayed before the I frame follow it at once.    *)
(* ProcessFrame takes an offset of 127 for NULL_TEMPORAL_OFFSET: no frame   *)
(* of a GOP is that far behind its first.  That leaves out GOPs of 128 to   *)
(* 256 frames, and with them that a first GOP of 256 is compared with no    *)
(* other.  Longer ones ProcessFrame refuses, so that the size of a GOP      *)
(* never reaches the UINT16_MAX above which it would not be counted.        *)
ASSUME MPEG2Assumption ==
  /\ Unknown \in Nat /\ MaxFrames \in Nat
  /\ \A s \in Shapes :
       /\ s.closed \in BOOLEAN
       /\ s.frames \in Seq([type : {"I", "P", "B"}, ref : Nat]) /\ Len(s.frames) \in 1 .. Unknown
       /\ \A i, j \in DOMAIN s.frames :
            /\ s.frames[i].type = "I" <=> i = 1
            /\ i # j => s.frames[i].ref # s.frames[j].ref
            /\ 1 < i /\ i < j /\ s.frames[j].ref < s.frames[1].ref
                 => s.frames[i].ref < s.frames[1].ref

VARIABLES
  stream,       \* the frames processed, in coded order
  gop,          \* the GOP being coded, and the frames of it processed
  keyFrame,     \* mKeyFramePosition
  prevKeyFrame, \* mPrevKeyFramePosition
  keyFrameRef,  \* mKeyFrameTemporalReference
  offsets,      \* mGOPTemporalOffsets
  gopStart,     \* mGOPStartPosition
  gopClosed,    \* mCurrentGOPClosed
  structure,    \* mGOPStructure
  firstGOP,     \* mFirstGOP
  identicalGOP, \* mIdenticalGOP
  maxGOP,       \* mMaxGOP
  entries,      \* the track's entries in the index table
  required,     \* positions whose entries require an update
  ignored       \* positions whose entries the track gave up

vars == <<stream, gop, keyFrame, prevKeyFrame, keyFrameRef, offsets, gopStart,
          gopClosed, structure, firstGOP, identicalGOP, maxGOP, entries, required,
          ignored>>

-----------------------------------------------------------------------------
position == Len(stream)
NoOffsets == [r \in 0 .. (MaxFrames - 1) |-> Unknown]

Init ==
  /\ stream = <<>> /\ entries = <<>> /\ required = {} /\ ignored = {}
  /\ gop = [frames |-> <<>>, closed |-> FALSE, done |-> 0]
  /\ keyFrame = -1 /\ prevKeyFrame = -1 /\ keyFrameRef = 0
  /\ offsets = NoOffsets
  /\ gopStart = 0 /\ gopClosed = FALSE
  /\ structure = <<>> /\ firstGOP = TRUE /\ identicalGOP = TRUE
  /\ maxGOP = 0

(* Mutant: leading frames of an open GOP start from the GOP's own I frame. *)
NeedsPrevKeyFrame_Never(closed) == FALSE

(* The frame at position is displayed before the key frame it follows. *)
NeedsPrevKeyFrame(closed) == ~closed /\ keyFrame + keyFrameRef >= position

KeyFrameOffset(frame, closed) ==
  IF frame.type = "I" THEN 0
  ELSE IF NeedsPrevKeyFrame(closed) THEN prevKeyFrame - position ELSE keyFrame - position

OffsetsFrom(header) == IF header THEN NoOffsets ELSE offsets

StartFrom(header) == IF header THEN position ELSE gopStart

(* The offsets once the frame's own is known: from the place where it is   *)
(* displayed to the place where it is coded.                               *)
OffsetsWith(frame, header) ==
  [OffsetsFrom(header) EXCEPT ![frame.ref] = (position - StartFrom(header)) - frame.ref]

(* Mutant: a GOP may be longer than the first. *)
MatchesFirst_Longer(place, type) ==
  place \notin DOMAIN structure \/ structure[place] = type

MatchesFirst(place, type) == place \in DOMAIN structure /\ structure[place] = type

(* The first GOP is remembered, the others are compared with it. *)
TracksIdentical(frame, header) ==
  LET first == firstGOP /\ ~(header /\ position > 0)
      place == position - StartFrom(header) + 1
  IN IF ~identicalGOP
     THEN UNCHANGED <<structure, firstGOP, identicalGOP>>
     ELSE /\ firstGOP' = first
          /\ structure' = IF first THEN Append(structure, frame.type) ELSE structure
          /\ identicalGOP' = (first \/ MatchesFirst(place, frame.type))

-----------------------------------------------------------------------------
(* The track: the entry at the frame's position is added, and the entry of *)
(* the earlier position where the frame is displayed is updated.           *)

(* Mutant: the update goes to the position of the frame. *)
PrevPosition_Own(prev) == position
PrevPosition(prev) == position - prev

UpdatedEntries(prev) ==
  IF prev > 0 THEN [entries EXCEPT ![PrevPosition(prev) + 1].temporal = prev] ELSE entries

StillRequired(prev) == IF prev > 0 THEN required \ {PrevPosition(prev)} ELSE required

(* Mutant: entries of the previous GOP stay required. *)
GivesUp_Never(header, prev) == FALSE
GivesUp(header, prev) == header /\ StillRequired(prev) # {}

(* ProcessFrame and WriteSamplesInt. The entry of a frame is added with    *)
(* the offset known for its position, NULL_TEMPORAL_OFFSET if none is yet. *)
ProcessFrame(frame, header, closed) ==
  LET known == OffsetsWith(frame, header)
      place == position - StartFrom(header)
      have  == known[place] # Unknown
      prev  == IF frame.ref < place THEN known[frame.ref] ELSE 0
  IN
  /\ stream' = Append(stream, [frame EXCEPT !.header = header, !.closed = closed])
  /\ gopStart' = StartFrom(header)
  /\ gopClosed' = closed
  /\ maxGOP' = IF header /\ position - gopStart > maxGOP THEN position - gopStart ELSE maxGOP
  /\ TracksIdentical(frame, header)
  /\ offsets' = known
  /\ entries' = Append(UpdatedEntries(prev),
                  [temporal |-> known[place], key |-> KeyFrameOffset(frame, closed)])
  /\ required' = (IF GivesUp(header, prev) THEN {} ELSE StillRequired(prev))
                    \cup (IF have THEN {} ELSE {position})
  /\ ignored' = IF GivesUp(header, prev) THEN ignored \cup StillRequired(prev) ELSE ignored
  /\ IF frame.type = "I"
       THEN prevKeyFrame' = keyFrame /\ keyFrame' = position /\ keyFrameRef' = frame.ref
       ELSE UNCHANGED <<prevKeyFrame, keyFrame, keyFrameRef>>

(* A frame of the stream, as the parser sees it. *)
Parsed(f) == [type |-> f.type, ref |-> f.ref, header |-> FALSE, closed |-> FALSE]

(* The first frame of a GOP, with its header; the previous GOP may have    *)
(* been cut.                                                               *)
StartGOP(shape) ==
  /\ position < MaxFrames
  /\ gop' = [frames |-> shape.frames, closed |-> shape.closed, done |-> 1]
  /\ ProcessFrame(Parsed(shape.frames[1]), TRUE, shape.closed)

(* The next frame of the GOP; frames before it may have been cut. *)
NextFrame ==
  /\ position < MaxFrames
  /\ \E i \in (gop.done + 1) .. Len(gop.frames) :
       /\ gop' = [gop EXCEPT !.done = i]
       /\ ProcessFrame(Parsed(gop.frames[i]), FALSE, gopClosed)

(* CheckTemporalOffsetsComplete. *)
OffsetsComplete(endOffset) ==
  \A i \in 0 .. (position - gopStart + endOffset - 1) : offsets[i] # Unknown

Done == position = MaxFrames /\ UNCHANGED vars

Next == (\E shape \in Shapes : StartGOP(shape)) \/ NextFrame \/ Done

Spec == Init /\ [][Next]_vars

-----------------------------------------------------------------------------
(* Properties. *)

(* Positions count from 0. *)
Positions == 0 .. (position - 1)
StartOf(c) == Max({s \in 0 .. c : stream[s + 1].header})
Coded(c) == stream[c + 1]
DisplayedAt(c) == StartOf(c) + Coded(c).ref
GOPEnd(c) == Min({s \in Positions : s > c /\ stream[s + 1].header} \cup {position})

(* Wherever a frame is displayed in its GOP, the entry there leads to it,  *)
(* unless a cut moved the frame behind the GOP's end.                      *)
TemporalOffsetsLead ==
  \A c \in Positions :
    LET d == DisplayedAt(c) IN
    d < GOPEnd(c) => entries[d + 1].temporal = c - d

(* What is still required or was given up is exactly where no frame is     *)
(* displayed: no entry is waited for in vain, none is left out.  The check *)
(* made when a file is completed looks at the last GOP only, and agrees    *)
(* with what the index table waits for: no entry of an earlier GOP is      *)
(* waited for any more.                                                    *)
NotDisplayed == {p \in Positions : \A c \in Positions : DisplayedAt(c) # p \/ GOPEnd(c) <= p}
RequiredUntilDisplayed ==
  /\ required \cup ignored = NotDisplayed
  /\ OffsetsComplete(0) = (required = {})

(* Decoding starts at an I frame: of the frame's own GOP, or the one       *)
(* before if the frame is displayed before it and the GOP is not closed,   *)
(* which is before the start of the stream (-1) for the first GOP.  When   *)
(* such leading frames were cut, those after them are left aside.          *)
Leading(c) == Coded(c).ref < Coded(StartOf(c)).ref
LeadingUncut(c) ==
  Cardinality({b \in StartOf(c) .. c : Leading(b)}) = Coded(StartOf(c)).ref
KeyFramesDecodable ==
  \A c \in Positions : Coded(c).type # "I" /\ (Leading(c) \/ LeadingUncut(c)) =>
    LET own == StartOf(c)
        key == IF Coded(c).closed \/ ~Leading(c) THEN own
               ELSE IF own = 0 THEN -1 ELSE StartOf(own - 1)
    IN c + entries[c + 1].key = key

(* The descriptor calls the GOPs identical only if each has the frame      *)
(* types of the first one, or of a beginning of it, and its longest GOP is *)
(* the longest that is followed by another.                                *)
GOPsDescribed ==
  /\ identicalGOP => \A c \in Positions :
       LET first == c - StartOf(c) IN
       first < GOPEnd(0) /\ Coded(c).type = Coded(first).type
  /\ maxGOP = Max({0} \cup {GOPEnd(c) - StartOf(c) : c \in {d \in Positions : GOPEnd(d) < position}})
=============================================================================
