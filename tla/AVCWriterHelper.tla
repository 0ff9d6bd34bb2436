-------------------------- MODULE AVCWriterHelper --------------------------
(***************************************************************************)
(* AVCWriterHelper and OP1AAVCTrack: the index entries of AVC frames.      *)
(* Frames come in coded order.  They wait in a decoded picture buffer, and *)
(* leave it in the order of their picture order counts, which is the order *)
(* they are displayed in; the n-th to leave is displayed at position n.    *)
(* The entry at a position is complete when the frame coded there and the  *)
(* one displayed there have left, and complete entries go to the index     *)
(* table in order.  Every entry is added when its frame is written, and    *)
(* updated when it is complete.                                            *)
(*                                                                         *)
(* A frame has a type, says whether it is an IDR frame, and has a picture  *)
(* order count (poc), which starts again at an IDR frame.  Left out are    *)
(* separate fields, parameter sets and the flags of entries other than the *)
(* one that says that an offset did not fit.                               *)
(***************************************************************************)
EXTENDS Integers, SequencesExt

CONSTANTS
  AVCShapes,     \* the GOPs of a stream: [idr, frames], frames [type, order]
  MaxDPBFrames,  \* MAX_DPB_FRAMES
  OffsetMin,     \* INT8_MIN
  OffsetMax,     \* INT8_MAX
  NoKeyFrame,    \* INT32_MIN - 1
  MaxAVCFrames   \* bound: frames in a stream

ASSUME AVCAssumption ==
  /\ \A s \in AVCShapes :
       /\ s.idr \in BOOLEAN /\ s.frames # <<>>
       /\ \A i \in DOMAIN s.frames : s.frames[i].type \in {"I", "P", "B"} /\ s.frames[i].order \in Int
  /\ MaxDPBFrames \in Nat /\ MaxAVCFrames \in Nat
  /\ NoKeyFrame < OffsetMin /\ OffsetMin < 0 /\ 0 < OffsetMax

VARIABLES
  coded,   \* the frames processed, in coded order
  coming,  \* the rest of the GOP: its frames and the count of its first place
  helper,  \* the members of AVCWriterHelper that lead to entries
  gops,    \* its members that describe the GOPs
  table,   \* the track's entries in the index table
  written  \* "frames", "failed" or "complete"

avcVars == <<coded, coming, helper, gops, table, written>>

-----------------------------------------------------------------------------
(* The helper: mDecodedFrames; for every position its IndexedFrame, which   *)
(* moves from mIndexedCodedFrames to mIndexedDecodedFrames when popped, to  *)
(* mIncompleteIndexedFrames below nextDecoded and out below nextIndexed;    *)
(* the temporal offsets found for later positions (forward); the last I     *)
(* frame displayed and the last IDR frame coded.                            *)

NewHelper == [decoded |-> {}, indexed |-> <<>>, forward |-> <<>>, nextDecoded |-> 0,
              nextIndexed |-> 0, keyFrame |-> -1, idr |-> -1, delay |-> 0]

NewIndexed(type) == [type |-> type, temporal |-> 0, key |-> 0, shown |-> 0,
                     popped |-> FALSE, complete |-> FALSE]

mPosition == Len(coded)

(* Where decoding starts for a frame that is displayed now.                 *)
KeyFrameOffsetOf(h, c) ==
  IF h.indexed[c + 1].type = "I" THEN 0
  ELSE IF h.keyFrame >= 0 THEN h.keyFrame - c
  ELSE IF h.idr >= 0 /\ h.idr <= c THEN h.idr - c
  ELSE NoKeyFrame

(* A mutant: the entry is not complete with it.                             *)
WithTemporalIncomplete(h, p, offset) == [h EXCEPT !.indexed[p + 1].temporal = offset]

WithTemporal(h, p, offset) ==
  [h EXCEPT !.indexed[p + 1].temporal = offset, !.indexed[p + 1].complete = TRUE]

(* Frames that have left are gone through in coded order.  One displayed    *)
(* elsewhere gives the entry there its temporal offset, now or when that    *)
(* position is reached.                                                     *)
DrainDecoded(h) ==
  LET p == h.nextDecoded
      to == p + h.indexed[p + 1].shown
      reached == IF p \in DOMAIN h.forward THEN WithTemporal(h, p, h.forward[p]) ELSE h
      told == IF to = p THEN reached
              ELSE IF h.nextIndexed <= to /\ to < p THEN WithTemporal(reached, to, p - to)
              ELSE [reached EXCEPT !.forward = (to :> p - to) @@ @]
  IN  IF p < Len(h.indexed) /\ h.indexed[p + 1].popped
      THEN [told EXCEPT !.nextDecoded = p + 1] ELSE h

DrainComplete(h) ==
  IF h.nextIndexed < h.nextDecoded /\ h.indexed[h.nextIndexed + 1].complete
  THEN [h EXCEPT !.nextIndexed = @ + 1] ELSE h

(* One of the two, until it changes no more.                                *)
Repeated(Op(_), h) == FoldLeft(LAMBDA x, i : Op(x), h, [i \in 1 .. Len(h.indexed) |-> i])

PopDecodedFrame(h) ==
  LET place == mPosition - Cardinality(h.decoded)
      first == CHOOSE f \in h.decoded : \A g \in h.decoded : f.poc <= g.poc
      c == first.position
      popped == [h EXCEPT !.indexed[c + 1].key = KeyFrameOffsetOf(h, c),
                          !.indexed[c + 1].shown = place - c,
                          !.indexed[c + 1].complete = (place = c),
                          !.indexed[c + 1].popped = TRUE,
                          !.keyFrame = IF h.indexed[c + 1].type = "I" THEN c ELSE @,
                          !.delay = Max({@, c - place}),
                          !.decoded = @ \ {first}]
  IN  Repeated(DrainComplete, Repeated(DrainDecoded, popped))

PopFrames(h, n) == FoldLeft(LAMBDA x, i : PopDecodedFrame(x), h, [i \in 1 .. n |-> i])
PopAllDecodedFrames(h) == PopFrames(h, Cardinality(h.decoded))

(* A mutant: the buffer is kept one frame short.                            *)
MakeRoomForOne(h) == PopFrames(h, Max({0, Cardinality(h.decoded) - MaxDPBFrames + 1}))
MakeRoom(h) == PopFrames(h, Max({0, Cardinality(h.decoded) - MaxDPBFrames}))

-----------------------------------------------------------------------------
(* The descriptor's view of the GOPs.                                       *)

NewGOPs == [start |-> 0, max |-> 0, closed |-> TRUE, startsWithI |-> TRUE, first |-> TRUE,
            identical |-> TRUE, structure |-> <<>>, run |-> 0, maxRun |-> 0, constant |-> TRUE]

BPictures(g, type) ==
  IF type = "B" THEN [g EXCEPT !.run = @ + 1, !.maxRun = Max({@, g.run + 1})]
  ELSE [g EXCEPT !.constant = @ /\ (g.run = 0 \/ g.run = g.maxRun), !.run = 0]

(* A mutant: the frame that starts the next GOP is counted.                 *)
GOPSizeWithNext(g) == [g EXCEPT !.max = Max({@, mPosition - g.start + 1})]
GOPSize(g) == [g EXCEPT !.max = Max({@, mPosition - g.start})]

Closedness(g, frame) ==
  [g EXCEPT !.closed = @ /\ (frame.type = "I" => frame.idr),
            !.startsWithI = @ /\ (mPosition = 0 => frame.type = "I")]

Identity(g, frame) ==
  LET start == frame.type = "I"
      first == g.first /\ ~(start /\ mPosition > 0)
      place == IF start THEN 1 ELSE mPosition - g.start + 1
      same == place <= Len(g.structure) /\ g.structure[place] = frame.type
  IN  IF ~g.identical THEN g
      ELSE IF ~g.startsWithI /\ start THEN [g EXCEPT !.identical = FALSE]
      ELSE [g EXCEPT !.first = first, !.identical = first \/ same,
                     !.structure = IF first THEN Append(@, frame.type) ELSE @]

Described(g, frame) ==
  LET counted == BPictures(g, frame.type)
      sized == IF frame.type = "I" THEN GOPSize(counted) ELSE counted
  IN  [Identity(Closedness(sized, frame), frame) EXCEPT
         !.start = IF frame.type = "I" THEN mPosition ELSE @]

-----------------------------------------------------------------------------
(* The track.                                                               *)

(* SetIndexResult: offsets that do not fit are replaced by the nearest that *)
(* does, and the entry says so.                                             *)
Fits(offset) == OffsetMin <= offset /\ offset <= OffsetMax
Clamped(offset) == Max({OffsetMin, Min({OffsetMax, offset})})
Result(e, waits) ==
  [temporal |-> Clamped(e.temporal), key |-> Max({OffsetMin, e.key}),
   saturated |-> ~Fits(e.temporal) \/ e.key < OffsetMin, waits |-> waits]

(* The entries taken after the helper has gone from one state to the next.  *)
Updated(from, to) ==
  [i \in DOMAIN table |->
     IF from.nextIndexed < i /\ i <= to.nextIndexed THEN Result(to.indexed[i], FALSE)
     ELSE table[i]]

WriteSamples(frame) ==
  LET room == IF frame.idr THEN PopAllDecodedFrames(helper) ELSE MakeRoom(helper)
      taken == [room EXCEPT !.indexed = Append(@, NewIndexed(frame.type)),
                            !.decoded = @ \cup {[poc |-> frame.poc, position |-> mPosition]},
                            !.idr = IF frame.idr THEN mPosition ELSE @]
  IN  IF \E f \in room.decoded : f.poc = frame.poc
      THEN written' = "failed" /\ UNCHANGED <<coded, helper, gops, table>>
      ELSE /\ helper' = taken
           /\ gops' = Described(gops, frame)
           /\ table' = Append(Updated(helper, taken), Result(Last(taken.indexed), TRUE))
           /\ coded' = Append(coded, frame)
           /\ UNCHANGED written

(* The next GOP; the one before may have been cut short, and the first one  *)
(* may have lost its beginning.                                             *)
NextCount(s) == IF s.idr THEN 0 ELSE Max({-1} \cup {coded[i].poc : i \in DOMAIN coded}) + 1
StartAVCGOP(s) ==
  \E i \in DOMAIN s.frames :
    LET f == s.frames[i]
        base == NextCount(s)
    IN  /\ i > 1 => coded = <<>>
        /\ WriteSamples([type |-> f.type, idr |-> s.idr /\ i = 1, poc |-> base + f.order])
        /\ coming' = [frames |-> SubSeq(s.frames, i + 1, Len(s.frames)), base |-> base]

NextAVCFrame ==
  LET f == Head(coming.frames)
  IN  /\ coming.frames # <<>>
      /\ WriteSamples([type |-> f.type, idr |-> FALSE, poc |-> coming.base + f.order])
      /\ coming' = [coming EXCEPT !.frames = Tail(@)]

WriteAVCFrame ==
  /\ written = "frames" /\ mPosition < MaxAVCFrames
  /\ (\E s \in AVCShapes : StartAVCGOP(s)) \/ NextAVCFrame

(* CompleteProcess and CompleteWrite.                                       *)
CompleteAVC ==
  LET all == PopAllDecodedFrames(helper)
  IN  /\ written = "frames"
      /\ written' = "complete"
      /\ helper' = all
      /\ gops' = GOPSize(gops)
      /\ table' = Updated(helper, all)
      /\ UNCHANGED <<coded, coming>>

AVCDone == written # "frames" /\ UNCHANGED avcVars

AVCInit ==
  /\ coded = <<>> /\ coming = [frames |-> <<>>, base |-> 0]
  /\ helper = NewHelper /\ gops = NewGOPs
  /\ table = <<>> /\ written = "frames"

AVCNext == WriteAVCFrame \/ CompleteAVC \/ AVCDone

AVCSpec == AVCInit /\ [][AVCNext]_avcVars

-----------------------------------------------------------------------------
(* Properties.                                                              *)

(* The stream as it is displayed: by IDR period and picture order count.    *)
AVCPositions == 0 .. mPosition - 1
Period(c) == Cardinality({i \in 1 .. c + 1 : coded[i].idr})
DisplayedBefore(b, c) ==
  \/ Period(b) < Period(c)
  \/ Period(b) = Period(c) /\ coded[b + 1].poc < coded[c + 1].poc
ShownAt(c) == Cardinality({b \in AVCPositions : DisplayedBefore(b, c)})

(* No frame is preceded by more than the buffer holds that are displayed    *)
(* after it.                                                                *)
Conforming ==
  \A c \in AVCPositions :
    Cardinality({b \in 0 .. c - 1 : DisplayedBefore(c, b)}) <= MaxDPBFrames

(* Decoding of a frame starts at the I frame coded last, or at the one      *)
(* before if it is displayed before that.  The first IDR frame serves the   *)
(* frames displayed before it as well; otherwise there is no key frame.     *)
LastI(c) == Max({-1} \cup {i \in 0 .. c : coded[i + 1].type = "I"})
KeyFrameOf(c) ==
  LET own == LastI(c)
  IN  IF own < 0 THEN -1
      ELSE IF ~DisplayedBefore(c, own) THEN own
      ELSE IF LastI(own - 1) >= 0 THEN LastI(own - 1)
      ELSE IF coded[own + 1].idr THEN own ELSE -1

(* Of a stream that keeps to the limit of the buffer, an entry in the index *)
(* table that is no longer waited for leads to the frame displayed at its   *)
(* position and to the key frame of the frame coded there; it is flagged if *)
(* and only if one of the two is out of reach.                              *)
AVCEntriesLead ==
  Conforming =>
    \A p \in AVCPositions : ~table[p + 1].waits =>
      LET shown == CHOOSE c \in AVCPositions : ShownAt(c) = p
          key == IF KeyFrameOf(p) < 0 THEN NoKeyFrame ELSE KeyFrameOf(p) - p
      IN  /\ table[p + 1].temporal = Clamped(shown - p)
          /\ table[p + 1].key = Clamped(key)
          /\ table[p + 1].saturated = (~Fits(shown - p) \/ ~Fits(key))

(* An entry is waited for until the frames coded up to its position, and up *)
(* to the frame displayed there, have been displayed, and so have those     *)
(* that entries before it wait for; in the end none is waited for, of a     *)
(* stream beyond the limit as well.                                         *)
StillWaits(p) ==
  \E q \in 0 .. p :
    \/ \E f \in helper.decoded : f.position <= q
    \/ \A c \in AVCPositions : helper.indexed[c + 1].popped => c + helper.indexed[c + 1].shown # q
    \/ \E c \in AVCPositions, f \in helper.decoded :
         /\ helper.indexed[c + 1].popped /\ c + helper.indexed[c + 1].shown = q
         /\ f.position < c
AVCWaitsAsNeeded ==
  /\ \A p \in AVCPositions : table[p + 1].waits = StillWaits(p)
  /\ written = "complete" => \A p \in AVCPositions : ~table[p + 1].waits

(* The descriptor calls the GOPs closed if every I frame is an IDR frame,   *)
(* identical only if each has the frame types of the first, gives the       *)
(* length of the longest one, the last included when the file is complete,  *)
(* and the delay as the most frames that come after the one displayed.      *)
GOPStart(c) == Max({0, LastI(c)})
AVCGOPsDescribed ==
  /\ gops.closed = \A i \in DOMAIN coded : coded[i].type = "I" => coded[i].idr
  /\ gops.identical => \A c \in AVCPositions :
       LET place == c - GOPStart(c)
       IN  GOPStart(place) = 0 /\ coded[place + 1].type = coded[c + 1].type
  /\ written = "complete" =>
       gops.max = Max({0} \cup {c + 1 - GOPStart(c) : c \in AVCPositions})
  /\ written = "complete" /\ Conforming =>
       helper.delay = Max({0} \cup {c - ShownAt(c) : c \in AVCPositions})
=============================================================================
