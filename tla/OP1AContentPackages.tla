------------------------ MODULE OP1AContentPackages ------------------------
(***************************************************************************)
(* OP1AContentPackageManager: the frame wrapped OP-1a writer's queue of    *)
(* content packages.  Tracks are written independently; a package leaves   *)
(* the front of the queue once every track has filled its element, and is  *)
(* then kept in a pool, stale contents and all, for later reuse.           *)
(*                                                                         *)
(* A call to WriteSamples is a loop over content packages that can fail    *)
(* half way, when the queue is full, so it is modelled iteration by        *)
(* iteration; nothing else runs until the call has returned or thrown.     *)
(***************************************************************************)
EXTENDS SampleSequences

CONSTANTS
  SystemItem,            \* SYSTEM_ITEM_TRACK_INDEX
  HaveInputUserTimecode, \* there is a system item that takes user timecodes
  MaxContentPackages,    \* MAX_CONTENT_PACKAGES
  NoCall,                \* no WriteSamples call is in progress
  MaxSamplesPerCall,     \* bound: samples passed to one WriteSamples call
  MaxEditUnits           \* bound: content packages for which there is input

ASSUME ManagerAssumption ==
  /\ SystemItem \notin Track
  /\ HaveInputUserTimecode \in BOOLEAN
  /\ MaxContentPackages \in Nat \ {0}
  /\ MaxSamplesPerCall \in Nat \ {0}
  /\ MaxEditUnits \in Nat
  /\ NoCall \notin [track : Track, rem : Nat \ {0}, cp : Nat \ {0}]

VARIABLES
  contentPackages,     \* mContentPackages, front first
  freeContentPackages, \* mFreeContentPackages, back last
  position,            \* mPosition
  call,                \* the WriteSamples call in progress: its track, the
                       \* samples that remain and cp_index (counted from 1)
  status,              \* "ok", or how the writer ended
  accepted,            \* per track, samples handed to a content package
  timecodes,           \* user timecodes handed to a content package
  index,               \* the sizes passed to the index table, in order
  file                 \* the content packages written to the file

vars == <<contentPackages, freeContentPackages, position, call, status,
          accepted, timecodes, index, file>>

-----------------------------------------------------------------------------
(* Content packages. *)

ContentPackage ==
  [position           : Nat,
   numSamples         : [Track -> Nat \ {0}],
   numSamplesWritten  : [Track -> Nat],
   data               : [Track -> Seq(Nat)],
   userTimecodeSet    : BOOLEAN,
   userTimecode       : Nat,
   haveUpdatedIndex   : BOOLEAN]

(* The constructor. mUserTimecode is not initialised with a value of its   *)
(* own; it is read only once userTimecodeSet holds, so 0 stands for it.    *)
NewContentPackage(pos) ==
  [position          |-> pos,
   numSamples        |-> [t \in Track |-> GetNumSamples(t, pos)],
   numSamplesWritten |-> [t \in Track |-> 0],
   data              |-> [t \in Track |-> <<>>],
   userTimecodeSet   |-> FALSE,
   userTimecode      |-> 0,
   haveUpdatedIndex  |-> FALSE]

(* Mutants: a reset that keeps the samples, and one that keeps the         *)
(* timecode flag.                                                          *)
Reset_KeepsData(cp, newPosition) ==
  [NewContentPackage(newPosition) EXCEPT !.data = cp.data]
Reset_KeepsTimecode(cp, newPosition) ==
  [NewContentPackage(newPosition) EXCEPT !.userTimecode    = cp.userTimecode,
                                         !.userTimecodeSet = cp.userTimecodeSet]

(* OP1AContentPackage::Reset and OP1AContentPackageElementData::Reset: all *)
(* that the constructor sets, but the old timecode value stays.            *)
Reset(cp, newPosition) ==
  [NewContentPackage(newPosition) EXCEPT !.userTimecode = cp.userTimecode]

IsReadyForTrack(cp, t) ==
  IF t = SystemItem
    THEN cp.userTimecodeSet \/ ~HaveInputUserTimecode
    ELSE cp.numSamplesWritten[t] >= cp.numSamples[t]

(* Mutant: ready as soon as one track is. *)
IsReady_Any(cp) ==
  /\ HaveInputUserTimecode => cp.userTimecodeSet
  /\ \E t \in Track : IsReadyForTrack(cp, t)

IsReady(cp) ==
  /\ HaveInputUserTimecode => cp.userTimecodeSet
  /\ \A t \in Track : IsReadyForTrack(cp, t)

(* Mutant: the room is that of an empty element. *)
NumToWrite_WholeElement(cp, t, n) ==
  IF cp.numSamples[t] > n THEN n ELSE cp.numSamples[t]

(* How many of n samples the package's element for t still has room for. *)
NumToWrite(cp, t, n) ==
  IF cp.numSamples[t] - cp.numSamplesWritten[t] > n
    THEN n ELSE cp.numSamples[t] - cp.numSamplesWritten[t]

(* The element for t with the next n samples of the track appended. *)
WriteElement(cp, t, n) ==
  [cp EXCEPT !.data[t]              = @ \o Run(accepted[t], n),
             !.numSamplesWritten[t] = @ + n]

(* OP1AContentPackage::WriteUserTimecode. *)
StampTimecode(cp, tc) ==
  [cp EXCEPT !.userTimecode = tc, !.userTimecodeSet = TRUE]

(* The package once its sizes are in the index table. *)
Indexed(cp) == [cp EXCEPT !.haveUpdatedIndex = TRUE]

ElementSizes(cp) == [t \in Track |-> Len(cp.data[t])]

-----------------------------------------------------------------------------
(* The queue. *)

(* GetCurrentContentPackage: i is the first package not ready for t, or    *)
(* one past the end of the queue.                                          *)
IsCurrentContentPackage(t, i) ==
  /\ \A j \in 1 .. (i - 1) : IsReadyForTrack(contentPackages[j], t)
  /\ i <= Len(contentPackages) => ~IsReadyForTrack(contentPackages[i], t)

(* Mutants: no check of the limit, and a limit that is off by one. *)
CanCreate_NoCheck == TRUE
CanCreate_OffByOne ==
  freeContentPackages # <<>> \/ Len(contentPackages) + 1 < MaxContentPackages

CanCreate ==
  freeContentPackages # <<>> \/ Len(contentPackages) < MaxContentPackages

(* The queue after CreateContentPackage: the last free package is reset    *)
(* and reused, and only without one is a new package allocated.            *)
QueueAfterCreate ==
  LET pos == position + Len(contentPackages)
      free == freeContentPackages
  IN Append(contentPackages,
            IF free = <<>> THEN NewContentPackage(pos)
                           ELSE Reset(free[Len(free)], pos))

FreeAfterCreate ==
  [i \in 1 .. (Len(freeContentPackages) - 1) |-> freeContentPackages[i]]

(* The queue and pool used for package i, which is created when the queue  *)
(* ends before it.                                                         *)
QueueFor(i) == IF i > Len(contentPackages) THEN QueueAfterCreate ELSE contentPackages
FreeFor(i)  == IF i > Len(contentPackages) THEN FreeAfterCreate ELSE freeContentPackages

(* BMX_CHECK in CreateContentPackage throws out of the call. *)
CreateFails ==
  /\ status' = "failed"
  /\ call' = NoCall
  /\ UNCHANGED <<contentPackages, freeContentPackages, position, accepted,
                 timecodes, index, file>>

(* A further n samples of t go into package i. *)
WriteToPackage(t, i, n) ==
  /\ contentPackages' = [QueueFor(i) EXCEPT ![i] = WriteElement(@, t, n)]
  /\ freeContentPackages' = FreeFor(i)
  /\ accepted' = [accepted EXCEPT ![t] = @ + n]
  /\ UNCHANGED <<position, status, timecodes, index, file>>

Idle == status = "ok" /\ call = NoCall

(* The bound on the input. *)
HaveInput(t, n) == accepted[t] + n <= SamplesBefore(t, MaxEditUnits)

-----------------------------------------------------------------------------
Init ==
  /\ contentPackages = <<>>
  /\ freeContentPackages = <<>>
  /\ position = 0
  /\ call = NoCall
  /\ status = "ok"
  /\ accepted = [t \in Track |-> 0]
  /\ timecodes = 0
  /\ index = <<>>
  /\ file = <<>>

(* WriteSamples is called with n samples of track t. *)
WriteSamplesStart(t, n) ==
  /\ Idle
  /\ HaveInput(t, n)
  /\ \E i \in 1 .. (Len(contentPackages) + 1) :
       /\ IsCurrentContentPackage(t, i)
       /\ call' = [track |-> t, rem |-> n, cp |-> i]
  /\ UNCHANGED <<contentPackages, freeContentPackages, position, status,
                 accepted, timecodes, index, file>>

(* One iteration of its loop: create a package if the queue has run out,   *)
(* fill the element as far as it goes, and move to the next package.       *)
WriteSamplesLoop ==
  /\ status = "ok"
  /\ call # NoCall
  /\ IF call.cp > Len(contentPackages) /\ ~CanCreate
       THEN CreateFails
       ELSE LET t == call.track
                n == NumToWrite(QueueFor(call.cp)[call.cp], t, call.rem)
            IN /\ WriteToPackage(t, call.cp, n)
               /\ call' = IF n = call.rem
                            THEN NoCall
                            ELSE [track |-> t, rem |-> call.rem - n, cp |-> call.cp + 1]

(* WriteSample: a sample assembled from a data array goes to the current   *)
(* package.                                                                *)
WriteSample(t) ==
  /\ Idle
  /\ HaveInput(t, 1)
  /\ \E i \in 1 .. (Len(contentPackages) + 1) :
       /\ IsCurrentContentPackage(t, i)
       /\ IF i > Len(contentPackages) /\ ~CanCreate
            THEN CreateFails
            ELSE WriteToPackage(t, i, 1) /\ UNCHANGED call

(* WriteUserTimecode: no package is created for a timecode. With none      *)
(* waiting for one the queue is indexed out of its range.                  *)
WriteUserTimecode ==
  /\ Idle
  /\ HaveInputUserTimecode
  /\ timecodes < MaxEditUnits
  /\ \E i \in 1 .. (Len(contentPackages) + 1) :
       /\ IsCurrentContentPackage(SystemItem, i)
       /\ IF i > Len(contentPackages)
            THEN status' = "undefined" /\ UNCHANGED <<contentPackages, timecodes>>
            ELSE /\ contentPackages' = [contentPackages EXCEPT
                                          ![i] = StampTimecode(@, timecodes + 1)]
                 /\ timecodes' = timecodes + 1
                 /\ UNCHANGED status
  /\ UNCHANGED <<freeContentPackages, position, call, accepted, index, file>>

(* Mutant: mHaveUpdatedIndexTable is not looked at. *)
IndexEntries_Again(i) == <<ElementSizes(contentPackages[i])>>

(* OP1AContentPackage::UpdateIndexTable: what package i adds to the index  *)
(* table, which it does once.                                              *)
IndexEntries(i) ==
  IF contentPackages[i].haveUpdatedIndex
    THEN <<>> ELSE <<ElementSizes(contentPackages[i])>>

(* UpdateIndexTable(n), which OP1AFile calls with 1 or 2 before the first  *)
(* write to learn the edit unit byte count.                                *)
UpdateIndexTable(n) ==
  /\ Idle
  /\ Len(contentPackages) >= n
  /\ \A i \in 1 .. n : IsReady(contentPackages[i])
  /\ \E i \in 1 .. n : ~contentPackages[i].haveUpdatedIndex
  /\ index' = index \o IndexEntries(1) \o (IF n = 2 THEN IndexEntries(2) ELSE <<>>)
  /\ contentPackages' = [i \in DOMAIN contentPackages |->
       IF i <= n THEN Indexed(contentPackages[i]) ELSE contentPackages[i]]
  /\ UNCHANGED <<freeContentPackages, position, call, status, accepted,
                 timecodes, file>>

(* Mutant: a package is held back until the next one is ready too. *)
HaveContentPackage_Two ==
  Len(contentPackages) > 1 /\ IsReady(contentPackages[1]) /\ IsReady(contentPackages[2])

HaveContentPackage == contentPackages # <<>> /\ IsReady(contentPackages[1])

(* WriteNextContentPackage. *)
WriteNextContentPackage ==
  /\ Idle
  /\ HaveContentPackage
  /\ index' = index \o IndexEntries(1)
  /\ file' = Append(file, [data         |-> contentPackages[1].data,
                           continuity   |-> contentPackages[1].position,
                           userTimecode |-> contentPackages[1].userTimecode])
  /\ freeContentPackages' = Append(freeContentPackages, Indexed(contentPackages[1]))
  /\ contentPackages' = Tail(contentPackages)
  /\ position' = position + 1
  /\ UNCHANGED <<call, status, accepted, timecodes>>

(* The caller has no more input, or the writer has ended. *)
Done ==
  /\ \/ status # "ok"
     \/ call = NoCall /\ \A t \in Track : ~HaveInput(t, 1)
  /\ UNCHANGED vars

Next ==
  \/ \E t \in Track, n \in 1 .. MaxSamplesPerCall : WriteSamplesStart(t, n)
  \/ WriteSamplesLoop
  \/ \E t \in Track : WriteSample(t)
  \/ WriteUserTimecode
  \/ \E n \in 1 .. 2 : UpdateIndexTable(n)
  \/ WriteNextContentPackage
  \/ Done

Spec == Init /\ [][Next]_vars

(* OP1AFile offers the queue to WriteContentPackages after every call, and *)
(* a call in progress runs to its end.                                     *)
FairSpec ==
  Spec /\ WF_vars(WriteSamplesLoop) /\ WF_vars(WriteNextContentPackage)

-----------------------------------------------------------------------------
(* Properties. *)

StateType ==
  /\ contentPackages \in Seq(ContentPackage)
  /\ freeContentPackages \in Seq(ContentPackage)
  /\ position \in Nat
  /\ call \in [track : Track, rem : Nat \ {0}, cp : Nat \ {0}] \cup {NoCall}
  /\ status \in {"ok", "failed", "undefined"}
  /\ accepted \in [Track -> Nat]
  /\ timecodes \in Nat
  /\ index \in Seq([Track -> Nat])
  /\ file \in Seq([data : [Track -> Seq(Nat)], continuity : Nat, userTimecode : Nat])

(* No element holds more than its share, and the count of what it holds is *)
(* that of its data.                                                       *)
Fits(cp) ==
  \A t \in Track :
    /\ cp.numSamplesWritten[t] <= cp.numSamples[t]
    /\ Len(cp.data[t]) = cp.numSamplesWritten[t]

AllFit(packages) == \A i \in 1 .. Len(packages) : Fits(packages[i])

(* The type invariant: the types of the state, and that no element of a    *)
(* package, queued or kept in the pool, is ever over-filled, whatever the  *)
(* sizes of the calls.                                                     *)
TypeOK ==
  /\ StateType
  /\ AllFit(contentPackages)
  /\ AllFit(freeContentPackages)

(* However the calls for the tracks are cut up and interleaved, and        *)
(* whatever a pooled package held before, the n-th package written carries *)
(* for each track exactly its own samples, in order, and the continuity    *)
(* count of its place in the file.                                         *)
FileInterleaved ==
  \A i \in DOMAIN file :
    /\ file[i].continuity = i - 1
    /\ \A t \in Track : file[i].data[t] = Span(t, i - 1)

(* The index table describes the packages in file order: an entry made     *)
(* ahead of the write, for a package still in the queue, has the sizes     *)
(* that are later written, and no package is indexed twice or skipped.     *)
IndexMatchesFile ==
  /\ Len(index) \in Len(file) .. (Len(file) + Len(contentPackages))
  /\ \A i \in DOMAIN index :
       index[i] = IF i <= Len(file)
                    THEN [t \in Track |-> Len(file[i].data[t])]
                    ELSE ElementSizes(contentPackages[i - Len(file)])

(* Every user timecode goes to the package with its number, although the   *)
(* packages that carry it are recycled: none is missed, repeated or left   *)
(* over from an earlier use of the package.                                *)
TimecodesInOrder ==
  HaveInputUserTimecode =>
    /\ \A i \in DOMAIN file : file[i].userTimecode = i
    /\ \A i \in DOMAIN contentPackages :
         contentPackages[i].userTimecodeSet <=> position + i <= timecodes

(* Packages are never lost or allocated beyond the limit, wherever they    *)
(* are kept.                                                               *)
PoolBounded ==
  Len(contentPackages) + Len(freeContentPackages) <= MaxContentPackages

(* The writer gives up only when a track really is the limit ahead of what *)
(* has been written, not because of packages held elsewhere.               *)
FailsOnlyWhenFull ==
  status = "failed" =>
    \E t \in Track : accepted[t] = SamplesBefore(t, position + MaxContentPackages)

(* The writer does what an interleaver promises: the packages written are  *)
(* a function of the tracks' samples alone, each written once complete.    *)
WrittenPackages == [i \in DOMAIN file |-> file[i].data]
Interleaved == INSTANCE Interleaver WITH file <- WrittenPackages
ImplementsInterleaver == Interleaved!Spec

(* Once every track has supplied its samples for a package, and the        *)
(* package has its timecode, the package is written.                       *)
AllSupplied(p) ==
  /\ \A t \in Track : SamplesBefore(t, p + 1) <= accepted[t]
  /\ HaveInputUserTimecode => p + 1 <= timecodes
SuppliedIsWritten ==
  \A p \in 0 .. (MaxEditUnits - 1) :
    AllSupplied(p) ~> (Len(file) > p \/ status # "ok")

-----------------------------------------------------------------------------
(* The inductive invariant behind FileInterleaved and PoolBounded. How far *)
(* each element of the queue is filled is determined by the number of      *)
(* samples accepted for its track.                                         *)

(* Of n samples of track t, how many belong in the package at pos. *)
Filled(t, n, pos) ==
  IF n <= SamplesBefore(t, pos) THEN 0
  ELSE IF n >= SamplesBefore(t, pos + 1) THEN GetNumSamples(t, pos)
  ELSE n - SamplesBefore(t, pos)

(* The package at pos once n[t] samples of each track t were accepted. *)
HoldsShare(cp, n, pos) ==
  /\ cp.position = pos
  /\ \A t \in Track :
       /\ cp.numSamples[t] = GetNumSamples(t, pos)
       /\ cp.numSamplesWritten[t] = Filled(t, n[t], pos)
       /\ cp.data[t] = Run(SamplesBefore(t, pos), Filled(t, n[t], pos))

QueueInv(queue, n) ==
  \A i \in 1 .. Len(queue) : HoldsShare(queue[i], n, position + i - 1)

(* Everything accepted is in the file or in the queue. *)
AcceptedInv ==
  \A t \in Track :
    /\ SamplesBefore(t, position) <= accepted[t]
    /\ accepted[t] <= SamplesBefore(t, position + Len(contentPackages))

(* The call in progress has reached the package that its next sample       *)
(* belongs to.                                                             *)
CallInv ==
  call # NoCall =>
    /\ call.cp <= Len(contentPackages) + 1
    /\ SamplesBefore(call.track, position + call.cp - 1) <= accepted[call.track]
    /\ accepted[call.track] < SamplesBefore(call.track, position + call.cp)

IInv ==
  /\ StateType
  /\ Len(file) = position
  /\ FileInterleaved
  /\ PoolBounded
  /\ QueueInv(contentPackages, accepted)
  /\ AcceptedInv
  /\ CallInv

(* Behind IndexMatchesFile: the entries, of packages written or still      *)
(* queued, are those of full packages, and a package knows that it has one.*)
IndexInv ==
  /\ Len(index) \in position .. (position + Len(contentPackages))
  /\ \A i \in DOMAIN index :
       /\ index[i] = [t \in Track |-> GetNumSamples(t, i - 1)]
       /\ \A t \in Track : SamplesBefore(t, i) <= accepted[t]
  /\ \A i \in DOMAIN contentPackages :
       contentPackages[i].haveUpdatedIndex <=> position + i <= Len(index)

(* Behind TimecodesInOrder: the timecodes are handed out to the end of the *)
(* queue at most, and none is missing where a package was written.         *)
TimecodeInv ==
  HaveInputUserTimecode =>
    /\ timecodes \in position .. (position + Len(contentPackages))
    /\ \A i \in DOMAIN file : file[i].userTimecode = i
    /\ \A i \in DOMAIN contentPackages :
         LET cp == contentPackages[i]
         IN /\ cp.userTimecodeSet <=> position + i <= timecodes
            /\ cp.userTimecodeSet => cp.userTimecode = position + i
=============================================================================
