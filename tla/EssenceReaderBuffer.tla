------------------------ MODULE EssenceReaderBuffer ------------------------
(***************************************************************************)
(* EssenceReaderBuffer: the frames of the reads of an essence reader.      *)
(* Normally it holds the frames of the read in progress, or of one that    *)
(* failed; while the information about a stream is extracted it keeps the  *)
(* frames, for they cannot be read again, and hands them out once more     *)
(* afterwards.                                                             *)
(*                                                                         *)
(* A buffer is a record: the position of its first frame, for every frame  *)
(* the counts requested and read and what it holds, the current frame and  *)
(* whether frames are kept.                                                *)
(***************************************************************************)
EXTENDS Integers, SequencesExt

NoBuffer == [start |-> 0, frames |-> <<>>, current |-> 0, keep |-> FALSE]
NewFrame(n) == [requested |-> n, read |-> 0, content |-> <<>>]

(* The position after the first f frames.                                   *)
PositionAfter(b, f) ==
  b.start + FoldSeq(LAMBDA fr, sum : fr.requested + sum, 0, SubSeq(b.frames, 1, f))

(* GetFrameBufferOffset, as a set: none if no frame starts at the position. *)
BufferOffsets(b, position) ==
  IF b.frames = <<>> THEN {} ELSE {f \in 0 .. Len(b.frames) : PositionAfter(b, f) = position}
BufferOffset(b, position) == CHOOSE f \in BufferOffsets(b, position) : TRUE

IsBuffered(b, position, n) ==
  \E f \in BufferOffsets(b, position) :
    f < Len(b.frames) /\ b.frames[f + 1].requested = n /\ b.frames[f + 1].read = n

ClearBeforeFrames(b, f) ==
  [b EXCEPT !.start = PositionAfter(b, f), !.frames = SubSeq(@, f + 1, Len(@))]

(* PopOrPrepareRead, when the frame is there.                               *)
Pop(b, position) ==
  LET f == BufferOffset(b, position)
  IN  IF b.keep THEN [b EXCEPT !.current = f]
      ELSE [ClearBeforeFrames(b, f) EXCEPT !.current = 0]

(* A mutant: the new frame goes behind all that are kept.                   *)
PrepareReadBehind(b, position, n) ==
  LET follows == b.keep /\ BufferOffsets(b, position) # {}
      kept == IF follows THEN b.frames ELSE <<>>
  IN  [b EXCEPT !.frames = Append(kept, NewFrame(n)), !.current = Len(kept),
                !.start = IF kept = <<>> THEN position ELSE @]

(* PopOrPrepareRead, when it has to be read: frames from its position on    *)
(* are dropped, and all of them if it does not follow the others.           *)
PrepareRead(b, position, n) ==
  LET fs == BufferOffsets(b, position)
      f == IF b.keep /\ fs # {} THEN BufferOffset(b, position) ELSE 0
  IN  [b EXCEPT !.frames = SubSeq(@, 1, f) \o <<NewFrame(n)>>,
                !.current = f, !.start = IF f = 0 THEN position ELSE @]

(* PushFrames: the frames handed out are kept as copies, or leave.          *)
CurrentFrame(b) == b.frames[b.current + 1]
PushFrames(b, read, content) ==
  LET p == IF b.keep
           THEN [b EXCEPT !.frames[b.current + 1].read = read,
                          !.frames[b.current + 1].content = content]
           ELSE ClearBeforeFrames(b, b.current + 1)
  IN  [p EXCEPT !.current = Len(p.frames)]
=============================================================================
