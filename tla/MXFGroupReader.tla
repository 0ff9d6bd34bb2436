--------------------------- MODULE MXFGroupReader ---------------------------
(***************************************************************************)
(* Reading several MXF files as one: MXFGroupReader over its members, or   *)
(* MXFFileReader over its own essence and external files, which do the     *)
(* same but for who marks the frame buffers.  Each member delivers frames  *)
(* to the buffers of its tracks; one buffer stands for those of a member.  *)
(* The application is the loop of bmxtranswrap: read, on an error in a     *)
(* growing file retry, else take a frame from every buffer.                *)
(*                                                                         *)
(* Another process may append to the files at any moment of a read.        *)
(***************************************************************************)
EXTENDS PositionConversion, SequencesExt

CONSTANTS
  Configs,     \* what is read, see ConfigAssumption
  MaxRetries,  \* gf_retries
  NoMark,      \* NULL_READ_START_INDEX
  NoFrame

(* Of a configuration: the members in order; whether the first is a file's  *)
(* own essence (internal) or a reader of its own; per member, mFileOrigin   *)
(* (origin) and the edit units of the whole file (size); whether the files  *)
(* still grow; the edit units to read, from start.                          *)
ASSUME ConfigAssumption ==
  \A c \in Configs :
    /\ c.members \in Seq(Track) /\ c.members # <<>>
    /\ \A i, j \in DOMAIN c.members : c.members[i] = c.members[j] => i = j
    /\ c.growing \in BOOLEAN
    /\ c.internal \in BOOLEAN /\ (c.internal => SampleSequence[c.members[1]] = <<1>>)
    /\ \A t \in Range(c.members) : c.origin[t] \in Nat /\ c.size[t] \in Nat
    /\ c.start \in Int /\ c.duration \in Nat
    /\ c.growing => c.start = 0 /\ \A t \in Range(c.members) : c.origin[t] = 0

ASSUME NullAssumption == NoMark \notin Nat /\ NoFrame \notin [position : Int, numSamples : Int]

VARIABLES
  config,
  available,  \* per member, the edit units its file has so far
  footer,     \* per member, whether the file has its footer
  limits,     \* per member, mReadStartPosition and mReadDuration
  position,   \* per member, the EssenceReader's mPosition
  frames,     \* per member, mFrames of the frame buffer
  mark,       \* per member, mStartReadIndex of the frame buffer
  current,    \* current_position of the read
  next,       \* the member that is read next
  numRead,    \* max_read_num_samples
  error,      \* mReadError
  retries,    \* gf_retry_count
  totalRead,  \* total_read
  taken,      \* per member, the frame the application took last
  abandoned,  \* members have delivered frames of a read that then failed
  pc          \* where the application is

vars == <<config, available, footer, limits, position, frames, mark, current, next,
          numRead, error, retries, totalRead, taken, abandoned, pc>>

-----------------------------------------------------------------------------
Member == Range(config.members)
First == config.members[1]
ReadError == error

(* The essence reader of a file counts from the file's first edit unit.     *)
ToEssence(t, p) == p + config.origin[t]
FromEssence(t, p) == p - config.origin[t]

(* CONVERT_GROUP_POS, and GetPosition by CONVERT_MEMBER_POS.                *)
MemberPosition(t, p) == PositionHigher(t, p)
GetPosition == PositionLower(First, FromEssence(First, position[First]))

Unlimited == (Word \div 2) - 1

Init ==
  /\ config \in Configs
  /\ available = [t \in Member |-> IF config.growing THEN 0 ELSE config.size[t]]
  /\ footer = [t \in Member |-> ~config.growing]
  /\ limits = [t \in Member |->
       [start |-> 0, duration |-> IF config.growing THEN Unlimited ELSE config.size[t]]]
  /\ position = [t \in Member |-> 0]
  /\ frames = [t \in Member |-> <<>>]
  /\ mark = [t \in Member |-> NoMark]
  /\ current = 0 /\ next = 1 /\ numRead = 0 /\ error = FALSE
  /\ retries = 0 /\ totalRead = 0
  /\ taken = [t \in Member |-> NoFrame]
  /\ abandoned = FALSE
  /\ pc = "open"

-----------------------------------------------------------------------------
(* The files grow. *)

Grow(t) ==
  /\ available[t] < config.size[t]
  /\ available' = [available EXCEPT ![t] = @ + 1]
  /\ UNCHANGED <<config, footer, limits, position, frames, mark, current, next,
                 numRead, error, retries, totalRead, taken, abandoned, pc>>

WriteFooter(t) ==
  /\ available[t] = config.size[t] /\ ~footer[t]
  /\ footer' = [footer EXCEPT ![t] = TRUE]
  /\ UNCHANGED <<config, available, limits, position, frames, mark, current, next,
                 numRead, error, retries, totalRead, taken, abandoned, pc>>

-----------------------------------------------------------------------------
(* Read limits. *)

LegitimisePosition(t, p) ==
  IF p < 0 \/ config.size[t] = 0 THEN 0
  ELSE IF p >= config.size[t] THEN config.size[t] - 1 ELSE p

(* EssenceReader::SetReadLimits for a complete file. *)
EssenceLimits(t, start, duration) ==
  LET from == LegitimisePosition(t, start) IN
  [start |-> from,
   duration |-> IF duration <= 0 \/ config.size[t] = 0 THEN 0
                ELSE LegitimisePosition(t, start + duration - 1) - from + 1]

(* The limits of a member for limits of the group. *)
MemberLimits(t) ==
  LET start == MemberPosition(t, config.start) IN
  EssenceLimits(t, ToEssence(t, start),
                IF config.duration = 0 THEN 0
                ELSE DurationHigher(t, config.start + config.duration, 0) - start)

Seek(p) == position' = [t \in Member |-> ToEssence(t, MemberPosition(t, p))]

(* The application sets limits and seeks to the start; for a file of       *)
(* unknown duration there are none.                                        *)
SetReadLimits ==
  /\ pc = "open"
  /\ IF config.growing
       THEN UNCHANGED <<limits, position>>
       ELSE /\ limits' = [t \in Member |-> MemberLimits(t)]
            /\ Seek(config.start)
  /\ pc' = "loop"
  /\ UNCHANGED <<config, available, footer, frames, mark, current, next,
                 numRead, error, retries, totalRead, taken, abandoned>>

-----------------------------------------------------------------------------
(* Frame buffers. *)

Marked == [t \in Member |-> Len(frames[t])]
Unmarked == [t \in Member |-> NoMark]

(* Mutant: frames that a failed read has delivered stay. *)
Aborted_Kept(queue, at) == queue

(* DefaultFrameBuffer::AbortRead pops from the front. *)
Aborted(queue, at) ==
  IF at # NoMark /\ at < Len(queue) THEN SubSeq(queue, Len(queue) - at + 1, Len(queue))
                                    ELSE queue

-----------------------------------------------------------------------------
(* Reading. *)

MoreToRead == config.growing \/ totalRead < config.duration

StartRead ==
  /\ pc = "loop" /\ MoreToRead
  /\ error' = FALSE
  /\ current' = GetPosition
  /\ mark' = Marked
  /\ next' = 1 /\ numRead' = 0
  /\ pc' = "member"
  /\ UNCHANGED <<config, available, footer, limits, position, frames, retries,
                 totalRead, taken, abandoned>>

(* EssenceReader::Read of n samples at p.  Samples before the file's first *)
(* or outside the limits are not there; a short read is an error unless    *)
(* the footer shows that there is no more.                                 *)
Wanted(t, p, n) ==
  LET end == Min({p + n, limits[t].start + limits[t].duration}) IN
  IF limits[t].duration > 0 /\ p < end /\ p + n > 0 THEN end - Max({p, 0}) ELSE 0

(* The file has not grown as far. *)
NotThere(t, p, n) == Wanted(t, p, n) > 0 /\ Max({p, 0}) + Wanted(t, p, n) > available[t]

SamplesRead(t, p, n) ==
  IF NotThere(t, p, n) THEN Max({0, available[t] - Max({p, 0})}) ELSE Wanted(t, p, n)

(* A member is first brought in step with the group. *)
ReadFrom(t) == ToEssence(t, MemberPosition(t, current))

(* Mutant: a member always reads as many samples as its first part has. *)
NumSamples_First(t) == DurationHigher(t, 1, 0)

NumSamples(t) == DurationHigher(t, 1, current)

(* A reader of its own completes its read by itself. *)
CompletesItself(t) == ~(config.internal /\ t = First)

(* DefaultFrameBuffer::CompleteRead for the buffers of some members. *)
Completed(marks, members) == [t \in Member |-> IF t \in members THEN NoMark ELSE marks[t]]

ReadMember(t) ==
  LET p == ReadFrom(t)
      n == NumSamples(t)
      read == SamplesRead(t, p, n)
      short == NotThere(t, p, n)
  IN
  /\ pc = "member" /\ next <= Len(config.members) /\ t = config.members[next]
  /\ short => footer[t]
  /\ position' = [position EXCEPT ![t] = p + n]
  /\ limits' = IF short THEN [limits EXCEPT ![t] = EssenceLimits(t, @.start, @.duration)]
                        ELSE limits
  /\ frames' = [frames EXCEPT ![t] = Append(@, [position |-> current, numSamples |-> read])]
  /\ mark' = Completed(mark, {u \in {t} : CompletesItself(u)})
  /\ numRead' = Max({numRead, IF t = First /\ config.internal THEN read
                              ELSE DurationLower(t, read, MemberPosition(t, current))})
  /\ next' = next + 1
  /\ UNCHANGED <<config, available, footer, current, error, retries, totalRead,
                 taken, abandoned, pc>>

(* Mutant: after an error the members stay where they are. *)
SeekBack_Not(p) == UNCHANGED position

SeekBack(p) == Seek(p)

(* The member's read fails, and with it the whole read: AbortRead, Seek. *)
FailMember(t) ==
  LET p == ReadFrom(t)
      n == NumSamples(t)
  IN
  /\ pc = "member" /\ next <= Len(config.members) /\ t = config.members[next]
  /\ NotThere(t, p, n) /\ ~footer[t]
  /\ frames' = [u \in Member |-> Aborted(frames[u], mark[u])]
  /\ mark' = Unmarked
  /\ SeekBack(current)
  /\ abandoned' = (abandoned \/ \E i \in 1 .. (next - 1) : CompletesItself(config.members[i]))
  /\ numRead' = 0 /\ error' = TRUE
  /\ pc' = "returned"
  /\ UNCHANGED <<config, available, footer, limits, current, next, retries, totalRead, taken>>

CompleteRead ==
  /\ pc = "member" /\ next > Len(config.members)
  /\ mark' = Completed(mark, Member)
  /\ pc' = "returned"
  /\ UNCHANGED <<config, available, footer, limits, position, frames, current, next,
                 numRead, error, retries, totalRead, taken, abandoned>>

-----------------------------------------------------------------------------
(* The application. *)

MayRetry == config.growing /\ ReadError /\ retries < MaxRetries

(* Mutant: retries are not counted. *)
Retry_Uncounted ==
  /\ pc = "returned" /\ numRead # 1 /\ MayRetry
  /\ retries' = retries
  /\ pc' = "loop"
  /\ UNCHANGED <<config, available, footer, limits, position, frames, mark, current,
                 next, numRead, error, totalRead, taken, abandoned>>

Retry ==
  /\ pc = "returned" /\ numRead # 1 /\ MayRetry
  /\ retries' = retries + 1
  /\ pc' = "loop"
  /\ UNCHANGED <<config, available, footer, limits, position, frames, mark, current,
                 next, numRead, error, totalRead, taken, abandoned>>

TakeFrames ==
  /\ pc = "returned" /\ numRead = 1
  /\ taken' = [t \in Member |-> Head(frames[t])]
  /\ frames' = [t \in Member |-> Tail(frames[t])]
  /\ retries' = IF config.growing THEN 0 ELSE retries
  /\ totalRead' = totalRead + numRead
  /\ pc' = "loop"
  /\ UNCHANGED <<config, available, footer, limits, position, mark, current, next,
                 numRead, error, abandoned>>

EndLoop ==
  /\ \/ pc = "loop" /\ ~MoreToRead
     \/ pc = "returned" /\ numRead # 1 /\ ~MayRetry
  /\ pc' = "done"
  /\ UNCHANGED <<config, available, footer, limits, position, frames, mark, current,
                 next, numRead, error, retries, totalRead, taken, abandoned>>

Application ==
  \/ SetReadLimits \/ StartRead \/ CompleteRead \/ Retry \/ TakeFrames \/ EndLoop
  \/ \E t \in Member : ReadMember(t) \/ FailMember(t)

Next == Application \/ \E t \in Member : Grow(t) \/ WriteFooter(t)

Spec == Init /\ [][Next]_vars

(* The application's thread goes on running; the files need not grow. *)
FairSpec == Spec /\ WF_vars(Application)

-----------------------------------------------------------------------------
(* Properties. *)

(* Between reads every member is at the sample that belongs to the          *)
(* application's position, after reads that failed, too, and before the     *)
(* start of the clip: where one sample sequence gives way to the next, in   *)
(* a sound file with a shorter essence, in a picture file with precharge.   *)
MembersInStep ==
  pc = "loop" =>
    \A t \in Member :
      position[t] = ToEssence(t, SamplesBefore(t, config.start + totalRead))

(* The frames the application takes together are of one position, as long   *)
(* as no reader had completed its part of a read that then failed: what     *)
(* the essence reader of the file itself delivered is taken back.           *)
FramesTogether ==
  ~abandoned => \A t, u \in Member : taken[t] # NoFrame => taken[t].position = taken[u].position

(* No edit unit is lost however often a read fails: the frames taken and    *)
(* those still in the buffer follow one another without a gap, up to the    *)
(* last one read.                                                           *)
NothingSkipped ==
  \A t \in Member :
    LET queue == IF taken[t] = NoFrame THEN frames[t] ELSE <<taken[t]>> \o frames[t] IN
    /\ \A i \in 2 .. Len(queue) :
         queue[i].position - queue[i-1].position \in {0, 1}
    /\ pc = "loop" /\ totalRead > 0 =>
         Last(queue).position - (config.start + totalRead) \in {-1, 0}

(* The loop ends, with growing files that stop growing as well. *)
TheLoopEnds == <>(pc = "done")

(* bmxtranswrap.cpp says of --gf: "Support growing files. Retry reading a   *)
(* frame when it fails", that is, a retried read gives what a read gives:   *)
(* frames of one position.                                                  *)
RetriedFramesTogether ==
  \A t, u \in Member : taken[t] # NoFrame => taken[t].position = taken[u].position
=============================================================================
