-------------------------- MODULE SampleSequences --------------------------
(***************************************************************************)
(* How the samples of a track are shared out over content packages.  A     *)
(* picture or data track has one sample per content package; a sound track *)
(* repeats a sequence of counts (1602, 1601, 1602, 1601, 1602 for 48 kHz   *)
(* sound at 29.97 Hz).  Samples are identified by their ordinal in the     *)
(* track, 1, 2, 3, ...                                                     *)
(***************************************************************************)
EXTENDS Integers, Sequences

CONSTANTS
  Track,           \* the tracks registered with the file
  SampleSequence,  \* per track, the repeating sequence of sample counts;
                   \* <<1>> stands for a track registered without a sequence
  SampleOffset     \* per track, the sums of the prefixes of that sequence

ASSUME TrackAssumption == Track # {}

ASSUME SampleSequenceAssumption ==
  /\ SampleSequence \in [Track -> Seq(Nat \ {0})]
  /\ \A t \in Track : SampleSequence[t] # <<>>

ASSUME SampleOffsetAssumption ==
  \A t \in Track :
    /\ SampleOffset[t] \in [0 .. Len(SampleSequence[t]) -> Nat]
    /\ SampleOffset[t][0] = 0
    /\ \A i \in 1 .. Len(SampleSequence[t]) :
         SampleOffset[t][i] = SampleOffset[t][i-1] + SampleSequence[t][i]

-----------------------------------------------------------------------------

Period(t) == Len(SampleSequence[t])

(* OP1AContentPackageElement::GetNumSamples for a frame wrapped element. *)
GetNumSamples(t, position) == SampleSequence[t][(position % Period(t)) + 1]

(* The number of samples of t in the content packages before position. *)
SamplesBefore(t, position) ==
  (position \div Period(t)) * SampleOffset[t][Period(t)]
    + SampleOffset[t][position % Period(t)]

(* The n consecutive samples that follow the first k. *)
Run(k, n) == [j \in 1 .. n |-> k + j]

(* The samples of t that belong in the content package at position. *)
Span(t, position) == Run(SamplesBefore(t, position), GetNumSamples(t, position))
=============================================================================
