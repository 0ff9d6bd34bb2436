------------------------- MODULE PositionConversion -------------------------
(***************************************************************************)
(* Conversion of positions and durations between a lower edit rate and the *)
(* rate of a track, by the track's sample sequence.  Positions before the  *)
(* start of a clip, its precharge, are negative.  SamplesBefore of module  *)
(* SampleSequences is what a position comes to; here is what the code      *)
(* computes, in the 64 bit words of the build.                             *)
(***************************************************************************)
EXTENDS SampleSequences, FiniteSetsExt

CONSTANTS
  Word,      \* the number of values of a 64 bit word
  PastEnd    \* per track, the word in memory after its sample sequence

ASSUME WordAssumption ==
  /\ Word \in Nat /\ Word % 2 = 0
  /\ \A t \in Track : 2 * SampleOffset[t][Period(t)] < Word
  /\ PastEnd \in [Track -> 0 .. (Word - 1)]

-----------------------------------------------------------------------------
Unsigned(x) == x % Word
Signed(x) == IF x % Word < Word \div 2 THEN x % Word ELSE (x % Word) - Word

(* get_sequence_size *)
SequenceSize(t) == SampleOffset[t][Period(t)]

(* Samples in the first n parts of the sequence, and in its last n.         *)
FirstParts(t, n) == SampleOffset[t][n]
LastParts(t, n) == SequenceSize(t) - SampleOffset[t][Period(t) - n]

(* The n parts, less than a whole sequence, that follow the first k; with   *)
(* k = Period the first of them is read past the end of the sequence.       *)
PartsFrom(t, k, n) ==
  IF n = 0 THEN 0
  ELSE IF k = Period(t) THEN PastEnd[t] + FirstParts(t, n) - FirstParts(t, 1)
  ELSE IF k + n <= Period(t) THEN FirstParts(t, k + n) - FirstParts(t, k)
  ELSE LastParts(t, Period(t) - k) + FirstParts(t, k + n - Period(t))

(* convert_position_higher divides a signed position by an unsigned size.   *)
PositionHigher(t, position) ==
  LET whole == (Unsigned(position) \div Period(t)) * SequenceSize(t) IN
  Signed(IF position >= 0
           THEN whole + FirstParts(t, position % Period(t))
           ELSE whole - LastParts(t, (-position) % Period(t)))

(* convert_position_lower: a position within a part is rounded up.          *)
PositionLower(t, position) ==
  LET size == SequenceSize(t) IN
  IF position >= 0
    THEN (position \div size) * Period(t)
           + Min({n \in 0 .. Period(t) : FirstParts(t, n) >= position % size})
    ELSE -((-position) \div size) * Period(t)
           - Max({n \in 0 .. Period(t) : LastParts(t, n) <= (-position) % size})

(* The part of the sequence that a position of the lower rate starts with.  *)
PartAt(t, position) ==
  IF position >= 0 THEN position % Period(t)
                   ELSE Period(t) - ((-position) % Period(t))

(* convert_duration_higher, from a position of the lower rate.              *)
DurationHigher(t, duration, position) ==
  IF duration <= 0 THEN 0
  ELSE (duration \div Period(t)) * SequenceSize(t)
         + PartsFrom(t, PartAt(t, position), duration % Period(t))

(* convert_duration_lower, from a position of the track: parts that are not *)
(* there in full are left out.                                              *)
DurationLower(t, duration, position) ==
  LET size == SequenceSize(t)
      lower == PositionLower(t, position)
      before == PositionHigher(t, lower) - position
      adjusted == IF position >= 0 THEN duration - before ELSE duration + before
      part == IF position < 0 /\ lower = 0 THEN Period(t) ELSE PartAt(t, lower)
  IN IF duration <= 0 THEN 0
     ELSE IF adjusted <= 0 THEN -(((-adjusted) \div size) * Period(t))
     ELSE (adjusted \div size) * Period(t)
            + Max({n \in 0 .. Period(t) :
                     n = 0 \/ (adjusted % size > 0 /\ PartsFrom(t, part, n) <= adjusted % size)})
=============================================================================
