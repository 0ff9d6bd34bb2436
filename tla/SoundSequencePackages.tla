----------------------- MODULE SoundSequencePackages -----------------------
(***************************************************************************)
(* D10ContentPackageManager and RDD9ContentPackageManager: content         *)
(* packages of a format where the file's sound may begin anywhere in the   *)
(* sample sequence.  Until the sound has shown where, packages are queued  *)
(* and take the number of samples of the first call; from then on the      *)
(* number follows from the position.  D10File and RDD9File write out what  *)
(* is complete within the same call.                                       *)
(*                                                                         *)
(* A sample is its ordinal in its track, a picture and a data frame is a   *)
(* sample too.  Index and partitions are left out, and so are samples a    *)
(* caller hands over in other portions than its input has.                 *)
(***************************************************************************)
EXTENDS Integers, SequencesExt

CONSTANTS
  PackageConfigs,  \* files: see PackagesAssumption
  MaxQueued,       \* MAX_CONTENT_PACKAGES
  MaxPackages      \* bound: content packages for which there is input

Unset == -1

ASSUME PackagesAssumption ==
  /\ MaxQueued \in Nat \ {0} /\ MaxPackages \in Nat
  /\ \A c \in PackageConfigs :
       /\ c.format \in {"d10", "rdd9"}
       /\ c.sequence \in Seq(Nat \ {0}) /\ c.sequence # <<>>
       /\ c.phase \in [c.sounds -> 0 .. (Len(c.sequence) - 1)]  \* of the input
       /\ c.preset \in BOOLEAN      \* the caller has set the offset
       /\ c.data \subseteq {"data"} /\ c.timecode \in BOOLEAN
       /\ c.format = "d10" => c.data = {}

VARIABLES
  layout,    \* the configuration of the file
  manager,   \* the queue, the pool's size, the offset and the status
  written,   \* the packages in the file
  supplied,  \* per track, samples handed over
  stamps,    \* user timecodes handed over
  lead       \* by how many packages one track has ever led another

packagesVars == <<layout, manager, written, supplied, stamps, lead>>

-----------------------------------------------------------------------------
(* Content packages. *)

PackageTracks == {"picture"} \cup layout.sounds \cup layout.data

At(s, i) == s[(i % Len(s)) + 1]

(* A mutant: the offset is forgotten.                                       *)
Expected_NoOffset(t, pos, offset) ==
  IF t = "picture" THEN 1
  ELSE IF t \in layout.sounds /\ offset # Unset THEN At(layout.sequence, pos) ELSE 0

(* RDD9ContentPackageElement::GetNumSamples and D10ContentPackage::Reset:   *)
(* how many samples the package at a position takes, 0 if not known yet.    *)
Expected(t, pos, offset) ==
  IF t = "picture" THEN 1
  ELSE IF t \in layout.sounds /\ offset # Unset THEN At(layout.sequence, pos + offset) ELSE 0

EmptyPackage(pos, offset) ==
  [need     |-> [t \in PackageTracks |-> Expected(t, pos, offset)],
   samples  |-> [t \in PackageTracks |-> <<>>],
   timecode |-> 0]

IsCompleteFor(p, t) == p.need[t] > 0 /\ Len(p.samples[t]) = p.need[t]
IsComplete(p) ==
  /\ layout.timecode => p.timecode # 0
  /\ \A t \in PackageTracks : IsCompleteFor(p, t)

(* GetSoundSampleCount: in a D-10 package a count that holds for all sound, *)
(* in an RDD 9 package the least that any sound track has written.          *)
SoundCount(p) ==
  LET counts == {IF layout.format = "d10" THEN p.need[t] ELSE Len(p.samples[t]) :
                   t \in layout.sounds}
  IN  IF counts = {} THEN 0 ELSE Min(counts)

-----------------------------------------------------------------------------
(* The offset. *)

(* mSoundSequence after RDD9ContentPackageManager::PrepareWrite, which      *)
(* takes it only if another element follows the first sound element.        *)
ManagerSequence ==
  IF \/ layout.format = "d10"
     \/ layout.sounds # {} /\ Cardinality(layout.sounds \cup layout.data) > 1
    THEN layout.sequence ELSE <<>>

(* PrepareWrite: what is known from the start.  The input begins at the     *)
(* offset that a caller sets.                                               *)
PreparedOffset ==
  IF \/ Len(ManagerSequence) = 1
     \/ layout.format = "d10" /\ layout.sounds = {} THEN 0
  ELSE IF layout.preset THEN layout.phase[CHOOSE t \in layout.sounds : TRUE]
  ELSE Unset

InputSequence(m) ==
  LET heard == {i \in 0 .. Len(m.queue) : \A j \in 1 .. i : SoundCount(m.queue[j]) > 0}
  IN  [i \in 1 .. Max(heard) |-> SoundCount(m.queue[i])]

(* A mutant: the comparison does not wrap around.                           *)
Offsets_NoWrap(input) ==
  {o \in 0 .. (Len(ManagerSequence) - 1) :
     \A i \in DOMAIN input : o + i <= Len(ManagerSequence) /\ input[i] = ManagerSequence[o + i]}

(* The offsets at which the sequence agrees with the input.                 *)
Offsets(input) ==
  {o \in 0 .. (Len(ManagerSequence) - 1) :
     \A i \in DOMAIN input : input[i] = At(ManagerSequence, o + i - 1)}

(* CalcSoundSequenceOffset, for a manager that does not know the offset.    *)
CalcSoundSequenceOffset(m, final) ==
  LET input == InputSequence(m)
  IN  IF m.offset # Unset THEN m
      ELSE IF Offsets(input) = {} THEN [m EXCEPT !.status = "sequence"]
      ELSE IF final \/ Len(input) >= Len(ManagerSequence)
        THEN [m EXCEPT !.offset = Min(Offsets(input))]
      ELSE m

-----------------------------------------------------------------------------
(* The queue. *)

CreateContentPackage(m) ==
  LET c == CalcSoundSequenceOffset(m, FALSE)
  IN  IF c.status # "ok" THEN c
      ELSE IF c.free = 0 /\ Len(c.queue) >= MaxQueued THEN [c EXCEPT !.status = "full"]
      ELSE [c EXCEPT !.free = Max({0, @ - 1}),
                     !.queue = Append(@, EmptyPackage(Len(written) + Len(@), c.offset))]

(* The checks of D10ContentPackage::WriteSamples, and of the element's      *)
(* WriteSamples of RDD 9, on a call with n samples left.                    *)
D10Accepts(m, p, t, n) ==
  IF t = "picture" THEN "ok"
  ELSE IF m.offset = Unset THEN (IF p.need[t] \in {0, n} THEN "ok" ELSE "mismatch")
  ELSE IF p.need[t] > 0 THEN "ok" ELSE "late"
RDD9Accepts(p, t, n) ==
  LET counts == IF t = "data" THEN {1} ELSE Range(layout.sequence)
  IN  IF p.need[t] > 0 \/ n \in counts THEN "ok" ELSE "count"

(* A package with as many of the n samples of t as it takes.  A first call  *)
(* fixes the number, for D-10 that of all sound.                            *)
FilledPackage(p, t, n, first) ==
  LET shares == IF layout.format = "d10" /\ t \in layout.sounds THEN layout.sounds ELSE {t}
      need   == [s \in PackageTracks |->
                   IF s \in shares /\ p.need[s] = 0 THEN n ELSE p.need[s]]
      taken  == Min({n, need[t] - Len(p.samples[t])})
  IN  [p EXCEPT !.need = need, !.samples[t] = @ \o [i \in 1 .. taken |-> first + i]]

(* One iteration of WriteSamples of either manager.  A call is its track,   *)
(* the samples that remain, and the manager.                                *)
StorePackage(call) ==
  LET t == call.track
      ready == {i \in 0 .. Len(call.m.queue) :
                  \A j \in 1 .. i : IsCompleteFor(call.m.queue[j], t)}
      i == Max(ready) + 1
      m == IF i > Len(call.m.queue) THEN CreateContentPackage(call.m) ELSE call.m
      checked == IF m.status # "ok" THEN m.status
                 ELSE IF layout.format = "d10" THEN D10Accepts(m, m.queue[i], t, call.rem)
                 ELSE RDD9Accepts(m.queue[i], t, call.rem)
  IN  IF checked # "ok" THEN [call EXCEPT !.m = [m EXCEPT !.status = checked]]
      ELSE LET p == FilledPackage(m.queue[i], t, call.rem, call.first)
               n == Len(p.samples[t]) - Len(m.queue[i].samples[t])
           IN  [call EXCEPT !.m = [m EXCEPT !.queue[i] = p],
                            !.rem = @ - n, !.first = @ + n]

(* The manager after WriteSamples; a throw ends the loop.                   *)
Stored(t, n) ==
  LET start == [m |-> manager, track |-> t, rem |-> n, first |-> supplied[t]]
      step(call, k) == IF call.rem = 0 \/ call.m.status # "ok" THEN call ELSE StorePackage(call)
  IN  FoldLeft(step, start, [k \in 1 .. n |-> k]).m

(* WriteUserTimecode: for D-10 a package is made for it, for RDD 9 the      *)
(* queue is indexed out of its range.                                       *)
Stamped ==
  LET stamped == {i \in 0 .. Len(manager.queue) :
                    \A j \in 1 .. i : manager.queue[j].timecode # 0}
      i == Max(stamped) + 1
      m == IF i <= Len(manager.queue) THEN manager
           ELSE IF layout.format = "d10" THEN CreateContentPackage(manager)
           ELSE [manager EXCEPT !.status = "undefined"]
  IN  IF m.status # "ok" THEN m ELSE [m EXCEPT !.queue[i].timecode = stamps + 1]

(* HaveContentPackage and WriteNextContentPackage, as long as there is one. *)
WriteOut(m) ==
  LET complete == {i \in 0 .. Len(m.queue) : \A j \in 1 .. i : IsComplete(m.queue[j])}
      n == IF m.status \in {"ok", "closed"} /\ m.offset # Unset THEN Max(complete) ELSE 0
  IN  /\ manager' = [m EXCEPT !.queue = SubSeq(@, n + 1, Len(@)), !.free = @ + n]
      /\ written' = written \o SubSeq(m.queue, 1, n)

-----------------------------------------------------------------------------
(* The caller, who has the input of MaxPackages content packages. *)

SamplesUpTo(t, k) ==
  IF t \in layout.sounds
    THEN FoldLeft(LAMBDA sum, i : sum + At(layout.sequence, i - 1 + layout.phase[t]), 0,
                  [i \in 1 .. k |-> i])
    ELSE k

(* The packages that a track has begun, and those it has completed.         *)
Begun(t, n) == Min({k \in 0 .. MaxPackages : SamplesUpTo(t, k) >= n})
Completed(t, n) == Max({k \in 0 .. MaxPackages : SamplesUpTo(t, k) <= n})

Lead(samples, tcs) ==
  LET begun == {Begun(t, samples[t]) : t \in PackageTracks}
                 \cup (IF layout.timecode THEN {tcs} ELSE {})
  IN  Max({lead, Max(begun) - Min(begun)})

(* Sound goes package by package unless the offset is known to the caller.  *)
Portions(t) ==
  IF t \notin layout.sounds THEN 1 .. 2
  ELSE IF layout.preset \/ Len(layout.sequence) = 1 THEN 1 .. 3
  ELSE {At(layout.sequence, Begun(t, supplied[t]) + layout.phase[t])}

PackagesInit ==
  /\ layout \in PackageConfigs
  /\ manager = [queue |-> <<>>, free |-> 0, offset |-> PreparedOffset, status |-> "ok"]
  /\ written = <<>>
  /\ supplied = [t \in PackageTracks |-> 0]
  /\ stamps = 0
  /\ lead = 0

(* WriteSamples of the file.                                                *)
WriteTrackSamples(t, n) ==
  /\ manager.status = "ok"
  /\ supplied[t] + n <= SamplesUpTo(t, MaxPackages)
  /\ WriteOut(Stored(t, n))
  /\ supplied' = [supplied EXCEPT ![t] = @ + n]
  /\ lead' = Lead(supplied', stamps)
  /\ UNCHANGED <<layout, stamps>>

(* WriteUserTimecode of the file.                                           *)
WriteTimecode ==
  /\ manager.status = "ok" /\ layout.timecode /\ stamps < MaxPackages
  /\ WriteOut(Stamped)
  /\ stamps' = stamps + 1
  /\ lead' = Lead(supplied, stamps')
  /\ UNCHANGED <<layout, supplied>>

(* FinalWrite of D-10, HaveContentPackage(true) of RDD 9: the offset is     *)
(* decided from what there is.                                              *)
Final(m) == CalcSoundSequenceOffset(m, TRUE)

(* CompleteWrite of the file, as far as packages are concerned.             *)
CompletePackages ==
  /\ manager.status = "ok"
  /\ LET m == Final(manager)
     IN  WriteOut(IF m.status = "ok" THEN [m EXCEPT !.status = "closed"] ELSE m)
  /\ UNCHANGED <<layout, supplied, stamps, lead>>

PackagesDone == manager.status # "ok" /\ UNCHANGED packagesVars

PackagesNext ==
  \/ \E t \in PackageTracks : \E n \in Portions(t) : WriteTrackSamples(t, n)
  \/ WriteTimecode
  \/ CompletePackages
  \/ PackagesDone

-----------------------------------------------------------------------------
(* Properties. *)

Sent(t) == FlattenSeq([i \in DOMAIN written |-> written[i].samples[t]])

(* The sound tracks of the input begin at the same place in the sequence.   *)
TracksAgree == \A s, t \in layout.sounds : layout.phase[s] = layout.phase[t]

(* Wherever in the sequence the sound begins, and whichever track makes the *)
(* packages before that is known: the n-th package written has the n-th     *)
(* frame and timecode, and its share of every sound track, by the input     *)
(* where the tracks agree, and by the offset that was found, as             *)
(* D10ContentPackage::Write asserts.  Nothing is lost or comes twice, and a *)
(* file that is closed has every package that was completed, also if it was *)
(* too short to show where the sequence begins.                             *)
PackagesInSequence ==
  /\ \A t \in PackageTracks : Sent(t) = [i \in DOMAIN Sent(t) |-> i]
  /\ \A i \in DOMAIN written :
       /\ layout.timecode => written[i].timecode = i
       /\ \A t \in layout.sounds :
            Len(written[i].samples[t]) = At(layout.sequence, i - 1 + manager.offset)
       /\ TracksAgree => \A t \in PackageTracks :
            Len(written[i].samples[t]) = SamplesUpTo(t, i) - SamplesUpTo(t, i - 1)
  /\ manager.status = "closed" /\ TracksAgree =>
       Len(written) = Min({Completed(t, supplied[t]) : t \in PackageTracks}
                            \cup (IF layout.timecode THEN {stamps} ELSE {}))

(* A call is refused for a fault of the caller, or for one of two limits of *)
(* RDD9ContentPackage.cpp.  Packages that wait for the offset use up the    *)
(* queue, and one of them is left without a number of samples, only if a    *)
(* track leads another by more than a package.  Sound that is in sequence   *)
(* is taken for such, but in an RDD 9 file whose sequence was not taken     *)
(* over, and counts differ only where the tracks begin at different places. *)
(* The limits: only one data frame can be given at a time (line 222), and a *)
(* timecode only to a package that some track has begun (line 574).         *)
RefusedForCause ==
  [][/\ manager'.status \in {"full", "late"} => lead' > 1
     /\ manager'.status = "sequence" => Len(ManagerSequence) = 0
     /\ manager'.status = "mismatch" => ~TracksAgree
     /\ manager'.status = "count" => \E t \in layout.data : supplied'[t] > supplied[t] + 1
     /\ manager'.status = "undefined" =>
          layout.format = "rdd9" /\ \A t \in PackageTracks : Begun(t, supplied[t]) <= stamps
    ]_packagesVars
=============================================================================
