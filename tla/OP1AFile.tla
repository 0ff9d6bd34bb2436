------------------------------ MODULE OP1AFile ------------------------------
(***************************************************************************)
(* OP1AFile: how an OP-1a file is laid out while it is written.  A frame   *)
(* that a track writes may complete content packages; each package goes to *)
(* the current body partition, or a new one is started first, and index    *)
(* table segments are written where a partition starts.  A partition waits *)
(* until the entries of the packages before it are complete.               *)
(*                                                                         *)
(* The content packages in the queue are counted: that packages receive    *)
(* the samples of their tracks in order is what OP1AContentPackages shows. *)
(***************************************************************************)
EXTENDS OP1AIndexTable, SequencesExt

CONSTANTS
  MaxBuffered,         \* MAX_BUFFERED_CONTENT_PACKAGES
  MaxPackages,         \* MAX_CONTENT_PACKAGES
  NoOffset             \* a partition without essence

(* Of a configuration, besides: "minimal", "body" or "separate" partitions *)
(* for the index, mIndexFollowsEssence (follows), mPartitionInterval, and  *)
(* by position the sizes of the elements. Bound: the frames of a track.    *)
(* A stream starts with a GOP. The queue is no longer than an entry cache. *)
ASSUME FileAssumption ==
  /\ NoOffset \notin Nat /\ 0 \in GOPStart
  /\ MaxPackages \in 0 .. MaxCacheEntries
  /\ \A c \in Configs :
       /\ Cardinality(Range(c.elements) \ c.cbe) <= 1
       /\ c.partitions \in {"minimal", "body", "separate"} /\ c.follows \in BOOLEAN
       /\ c.interval \in Nat /\ c.frames \in Nat
       /\ c.cbe # Range(c.elements) =>
            \A p \in 0 .. (c.frames - 1) : Final[p] \in [temporal : Int, key : Nat]
       /\ c.partitions = "minimal" => c.interval = 0
       /\ c.inputDuration # NoDuration =>
            c.cbe = Range(c.elements) /\ ~c.follows /\ c.interval = 0

(* The essence in a file of n content packages, none of which is empty.    *)
UnitSizes(c) == [p \in 0 .. (c.frames - 1) |-> ContentPackageSize(c.sizes[p])]
SizeUpTo(c, n) == SumFunctionOnSet(UnitSizes(c), 0 .. (n - 1))

ASSUME SizeAssumption ==
  \A c \in Configs : \A p \in 0 .. (c.frames - 1) : UnitSizes(c)[p] \in Nat \ {0}

(* The frames of a file that is written without an error: an element that  *)
(* always has the same size has it, in AVC-Intra from the second frame on, *)
(* and where a duration below two is promised no more frames come than it. *)
FirstRegular(c) == IF c.cbe = Range(c.elements) /\ c.avci THEN 1 ELSE 0
Regular(c) ==
  /\ \A p \in 0 .. (c.frames - 1) : c.sizes[p] \in [DOMAIN c.elements -> Nat]
  /\ \A p, q \in FirstRegular(c) .. (c.frames - 1) : \A i, j \in DOMAIN c.elements :
       c.elements[i] = c.elements[j] /\ c.elements[i] \in c.cbe => c.sizes[p][i] = c.sizes[q][j]
  /\ c.inputDuration = NoDuration \/ c.inputDuration >= 2 \/ c.frames <= c.inputDuration

VARIABLES
  supplied,      \* per element, the frames its track has written
  written,       \* content packages written: the manager's mPosition
  partitions,    \* of the file, in order, each with its index and essence
  firstWrite,    \* mFirstWrite
  waiting,       \* mWaitForIndexComplete
  frameCount,    \* mPartitionFrameCount
  cbePartition,  \* mCBEIndexPartitionIndex
  memoryOpen,    \* the header partition is still in memory
  footerOffset,  \* mFooterPartitionOffset, counting essence only
  bodyOffset,    \* ess_partition_body_offset
  track,         \* the element whose track is writing a frame
  endOfSamples,  \* the file is being completed
  ignored,       \* positions whose entries the writer gave up completing
  pc             \* where OP1AFile is

fileVars == <<supplied, written, partitions, firstWrite, waiting, frameCount,
              cbePartition, memoryOpen, footerOffset, bodyOffset, track,
              endOfSamples, ignored, pc>>
vars == <<indexVars, fileVars>>

-----------------------------------------------------------------------------
MinPartitions == config.partitions = "minimal"
BodyPartitions == config.partitions = "body"
PartitionInterval == config.interval

VBEElement == Element \ CBEElement
SinglePass == InputDuration # NoDuration
HavePackages(n) == \A e \in Element : supplied[e] >= written + n

Partition(segments_, offset) == [index |-> segments_, offset |-> offset, essence |-> <<>>]

EssenceSize(n) == SizeUpTo(config, n)

Init ==
  /\ InitIndexTable
  /\ supplied = [e \in Element |-> 0]
  /\ written = 0
  /\ partitions = <<Partition(<<>>, IF MinPartitions THEN 0 ELSE NoOffset)>>
  /\ firstWrite = TRUE /\ waiting = FALSE
  /\ frameCount = 0 /\ cbePartition = 0
  /\ memoryOpen = TRUE /\ footerOffset = 0 /\ bodyOffset = 0
  /\ track = Elements[1]
  /\ endOfSamples = FALSE /\ ignored = {}
  /\ pc = "idle"

-----------------------------------------------------------------------------
(* A track writes a frame. *)

StartFrame(e) ==
  /\ pc = "idle" /\ indexStatus = "ok" /\ supplied[e] < config.frames
  /\ track' = e /\ pc' = "track"
  /\ UNCHANGED <<indexVars, supplied, written, partitions, firstWrite, waiting,
                 frameCount, cbePartition, memoryOpen, footerOffset, bodyOffset,
                 endOfSamples, ignored>>

(* The frame tells the track more about an earlier entry, or the end tells *)
(* an AVC track.                                                           *)
CompleteEntry(p) ==
  /\ pc = "track" \/ (pc = "completing" /\ ~config.mpeg2)
  /\ indexStatus = "ok" /\ p \in requireUpdates[track]
  /\ CompletePictureEntry(track, p)
  /\ UNCHANGED fileVars

GivesUp == track \in VBEElement /\ GivesUpAt(track, supplied[track])

GiveUpPreviousGOP ==
  /\ pc = "track" /\ indexStatus = "ok" /\ GivesUp
  /\ ignored' = ignored \cup requireUpdates[track]
  /\ IgnoreRequiredUpdates({track})
  /\ UNCHANGED <<supplied, written, partitions, firstWrite, waiting, frameCount,
                 cbePartition, memoryOpen, footerOffset, bodyOffset, track,
                 endOfSamples, pc>>

(* A package that no other track has begun needs room in the queue. *)
NoRoom(e) ==
  (\A d \in Element : supplied[d] <= supplied[e]) /\ supplied[e] - written >= MaxPackages

(* The frame goes to its content package, and its entry to the index. *)
WriteFrame(complete) ==
  LET p == supplied[track] IN
  /\ pc = "track" /\ indexStatus = "ok" /\ ~GivesUp
  /\ IF NoRoom(track)
       THEN IndexFails /\ pc' = "failed" /\ UNCHANGED supplied
       ELSE /\ supplied' = [supplied EXCEPT ![track] = @ + 1]
            /\ pc' = "loop"
            /\ IF track \in VBEElement
                 THEN AddIndexEntry(track, p,
                        IF complete THEN Final[p] ELSE IncompleteEntry(p, DefaultKey),
                        p \in GOPStart, ~complete)
                 ELSE UNCHANGED indexVars
  /\ UNCHANGED <<written, partitions, firstWrite, waiting, frameCount, cbePartition,
                 memoryOpen, footerOffset, bodyOffset, track, endOfSamples, ignored>>

-----------------------------------------------------------------------------
(* WriteContentPackages. *)

(* Mutant: the first package does not wait for the second. *)
WaitsForPair_Never == FALSE

(* Mutant: the end of the samples does not end the wait. *)
WaitsForPair_AtEnd == RequireIndexTableSegmentPair /\ written = 0 /\ ~HavePackages(2)

WaitsForPair ==
  ~endOfSamples /\ RequireIndexTableSegmentPair /\ written = 0 /\ ~HavePackages(2)

Looping == pc = "loop" /\ indexStatus = "ok" /\ HavePackages(1) /\ ~WaitsForPair

LeaveLoop ==
  /\ pc = "loop" /\ indexStatus = "ok" /\ ~Looping
  /\ pc' = IF endOfSamples THEN "end" ELSE "idle"
  /\ UNCHANGED <<indexVars, supplied, written, partitions, firstWrite, waiting,
                 frameCount, cbePartition, memoryOpen, footerOffset, bodyOffset,
                 track, endOfSamples, ignored>>

(* The first package: a CBE table may come before the essence. *)
FirstPackage ==
  /\ Looping /\ firstWrite
  /\ firstWrite' = FALSE
  /\ bodyOffset' = streamOffset
  /\ pc' = IF IsCBE /\ ~config.follows THEN "preindex"
           ELSE IF MinPartitions THEN "essence" ELSE "partition"
  /\ UNCHANGED <<indexVars, supplied, written, partitions, waiting, frameCount,
                 cbePartition, memoryOpen, footerOffset, track, endOfSamples, ignored>>

(* Mutant: entries may still require an update. *)
EntriesComplete_Assumed == TRUE
EntriesComplete == ~RequireUpdatesAtPos(written - 1)

(* A partition has been waiting for the entries before it. *)
WhileWaiting ==
  /\ Looping /\ ~firstWrite /\ waiting
  /\ bodyOffset' = streamOffset
  /\ \/ EntriesComplete /\ waiting' = FALSE /\ pc' = "partition"
     \/ ~EntriesComplete /\ endOfSamples /\ waiting' = FALSE /\ pc' = "essence"
     \/ /\ ~EntriesComplete /\ ~endOfSamples /\ UNCHANGED waiting
        /\ pc' = IF HavePackages(MaxBuffered + 1) THEN "failed" ELSE "idle"
  /\ UNCHANGED <<indexVars, supplied, written, partitions, firstWrite, frameCount,
                 cbePartition, memoryOpen, footerOffset, track, endOfSamples, ignored>>

(* Mutant: any package may start a partition. *)
StartsPartition_Anywhere == PartitionInterval > 0 /\ frameCount >= PartitionInterval
StartsPartition ==
  PartitionInterval > 0 /\ frameCount >= PartitionInterval /\ CanStartPartition

NextPackage ==
  /\ Looping /\ ~firstWrite /\ ~waiting
  /\ bodyOffset' = streamOffset
  /\ IF StartsPartition
       THEN /\ frameCount' = 0
            /\ \/ EntriesComplete /\ pc' = "partition" /\ UNCHANGED waiting
               \/ ~EntriesComplete /\ endOfSamples /\ pc' = "essence" /\ UNCHANGED waiting
               \/ ~EntriesComplete /\ ~endOfSamples /\ pc' = "idle" /\ waiting' = TRUE
       ELSE pc' = "essence" /\ UNCHANGED <<frameCount, waiting>>
  /\ UNCHANGED <<indexVars, supplied, written, partitions, firstWrite, cbePartition,
                 memoryOpen, footerOffset, track, endOfSamples, ignored>>

(* The first package, or two, are indexed so that their sizes are known, ... *)
PreIndexed == IF HavePackages(2) THEN 2 ELSE 1

PreIndex ==
  /\ pc = "preindex" /\ indexStatus = "ok" /\ duration < PreIndexed
  /\ UpdateIndex(config.sizes[duration])
  /\ UNCHANGED fileVars

(* ... and the CBE table is written, open, before the essence. *)
WriteCBEIndex ==
  /\ pc = "preindex" /\ indexStatus = "ok" /\ duration >= PreIndexed
  /\ WriteSegments(FALSE, FALSE)
  /\ IF MinPartitions \/ BodyPartitions
       THEN /\ cbePartition' = 1
            /\ partitions' = [partitions EXCEPT ![1].index = output']
       ELSE /\ cbePartition' = Len(partitions) + 1
            /\ partitions' = Append(partitions, Partition(output', NoOffset))
  /\ pc' = IF MinPartitions THEN "essence" ELSE "partition"
  /\ UNCHANGED <<supplied, written, firstWrite, waiting, frameCount, memoryOpen,
                 footerOffset, bodyOffset, track, endOfSamples, ignored>>

(* Mutant: the essence partition's offset counts edit units. *)
NewPartitions_Units(segments_) ==
  IF BodyPartitions THEN <<Partition(segments_, written)>>
  ELSE <<Partition(segments_, NoOffset), Partition(<<>>, written)>>

(* A variable table's segments share a body partition with the essence, or *)
(* have one of their own. *)
NewPartitions(segments_) ==
  IF BodyPartitions THEN <<Partition(segments_, bodyOffset)>>
  ELSE <<Partition(segments_, NoOffset), Partition(<<>>, bodyOffset)>>

StartPartition ==
  /\ pc = "partition" /\ indexStatus = "ok"
  /\ IF ~IsCBE /\ HaveSegments
       THEN /\ WriteSegments(FALSE, TRUE)
            /\ partitions' = partitions \o NewPartitions(output')
       ELSE /\ UNCHANGED indexVars
            /\ partitions' = Append(partitions, Partition(<<>>, bodyOffset))
  /\ pc' = "essence"
  /\ UNCHANGED <<supplied, written, firstWrite, waiting, frameCount, cbePartition,
                 memoryOpen, footerOffset, bodyOffset, track, endOfSamples, ignored>>

(* Mutant: all edit units have the size of the second. *)
FooterOffset_Second ==
  EssenceSize(written) + (IF InputDuration > 0 THEN InputDuration * segments[1].byteCount ELSE 0)

(* SetPartitionsFooterOffset, from GetCBEEditUnitSize. *)
FooterOffset ==
  LET nonFirst == segments[1].byteCount
      first == IF firstSegment # <<>> THEN firstSegment[1].byteCount ELSE nonFirst
  IN EssenceSize(written)
       + (IF InputDuration > 0 THEN first + (InputDuration - 1) * nonFirst ELSE 0)

CloseMemory ==
  /\ memoryOpen' = FALSE
  /\ footerOffset' = IF memoryOpen /\ SinglePass THEN FooterOffset ELSE footerOffset

(* WriteNextContentPackage: the package may have been indexed already. *)
IsIndexed == written < duration

WriteEssence ==
  /\ pc = "essence" /\ indexStatus = "ok"
  /\ CloseMemory
  /\ IF IsIndexed THEN UNCHANGED indexVars ELSE UpdateIndex(config.sizes[written])
  /\ IF indexStatus' = "ok"
       THEN /\ partitions' = [partitions EXCEPT ![Len(partitions)].essence = Append(@, written)]
            /\ written' = written + 1
            /\ frameCount' = IF PartitionInterval > 0 THEN frameCount + 1 ELSE frameCount
            /\ pc' = "loop"
       ELSE UNCHANGED <<partitions, written, frameCount, pc>>
  /\ UNCHANGED <<supplied, firstWrite, waiting, cbePartition, bodyOffset, track,
                 endOfSamples, ignored>>

-----------------------------------------------------------------------------
(* CompleteWrite. *)

(* The picture track knows the last entries now. *)
CompleteWrite ==
  /\ pc = "idle" /\ indexStatus = "ok"
  /\ endOfSamples' = TRUE /\ pc' = "completing"
  /\ track' = IF VBEElement = {} THEN track ELSE CHOOSE e \in VBEElement : TRUE
  /\ UNCHANGED <<indexVars, supplied, written, partitions, firstWrite, waiting,
                 frameCount, cbePartition, memoryOpen, footerOffset, bodyOffset, ignored>>

IgnoreEntries ==
  /\ pc = "completing" /\ indexStatus = "ok"
  /\ ignored' = ignored \cup UNION Range(requireUpdates)
  /\ IgnoreRequiredUpdates(Element)
  /\ pc' = "loop"
  /\ UNCHANGED <<supplied, written, partitions, firstWrite, waiting, frameCount,
                 cbePartition, memoryOpen, footerOffset, bodyOffset, track,
                 endOfSamples>>

(* What is left in memory is written, and the duration checked. *)
EndSamples ==
  /\ pc = "end"
  /\ CloseMemory
  /\ pc' = IF SinglePass /\ duration # InputDuration THEN "failed" ELSE "index"
  /\ UNCHANGED <<indexVars, supplied, written, partitions, firstWrite, waiting,
                 frameCount, cbePartition, bodyOffset, track, endOfSamples, ignored>>

NeedsIndexPartition ==
  /\ ~MinPartitions
  /\ ~BodyPartitions \/ (RepeatIndexTable /\ haveWritten)
  /\ IF IsCBE THEN ~haveWritten /\ duration > 0 ELSE HaveSegments

WriteIndexPartition ==
  /\ pc = "index" /\ indexStatus = "ok"
  /\ IF NeedsIndexPartition
       THEN /\ WriteSegments(FALSE, TRUE)
            /\ partitions' = Append(partitions, Partition(output', NoOffset))
            /\ cbePartition' = IF IsCBE THEN Len(partitions) + 1 ELSE cbePartition
       ELSE UNCHANGED <<indexVars, partitions, cbePartition>>
  /\ pc' = IF SinglePass /\ footerOffset # EssenceSize(written) THEN "misplaced" ELSE "footer"
  /\ UNCHANGED <<supplied, written, firstWrite, waiting, frameCount, memoryOpen,
                 footerOffset, bodyOffset, track, endOfSamples, ignored>>

WriteFooter ==
  /\ pc = "footer" /\ indexStatus = "ok"
  /\ IF HaveFooterSegments
       THEN /\ WriteSegments(TRUE, TRUE)
            /\ partitions' = Append(partitions, Partition(output', NoOffset))
            /\ cbePartition' = IF IsCBE /\ ~haveWritten THEN Len(partitions) + 1
                                                        ELSE cbePartition
       ELSE /\ partitions' = Append(partitions, Partition(<<>>, NoOffset))
            /\ UNCHANGED <<indexVars, cbePartition>>
  /\ pc' = "rewrite"
  /\ UNCHANGED <<supplied, written, firstWrite, waiting, frameCount, memoryOpen,
                 footerOffset, bodyOffset, track, endOfSamples, ignored>>

(* A CBE table that is not in the footer is written again in its place. *)
Rewrites == ~SinglePass /\ ~firstWrite /\ IsCBE /\ cbePartition < Len(partitions)

Rewrite ==
  /\ pc = "rewrite" /\ indexStatus = "ok"
  /\ IF Rewrites
       THEN /\ WriteSegments(FALSE, TRUE)
            /\ partitions' = [partitions EXCEPT ![cbePartition].index = output']
       ELSE UNCHANGED <<indexVars, partitions>>
  /\ pc' = "closed"
  /\ UNCHANGED <<supplied, written, firstWrite, waiting, frameCount, cbePartition,
                 memoryOpen, footerOffset, bodyOffset, track, endOfSamples, ignored>>

Done == (pc \in {"closed", "failed", "misplaced"} \/ indexStatus # "ok") /\ UNCHANGED vars

Next ==
  \/ \E e \in Element : StartFrame(e)
  \/ \E p \in 0 .. (config.frames - 1) : CompleteEntry(p)
  \/ GiveUpPreviousGOP
  \/ \E complete \in BOOLEAN : WriteFrame(complete)
  \/ LeaveLoop \/ FirstPackage \/ WhileWaiting \/ NextPackage
  \/ PreIndex \/ WriteCBEIndex \/ StartPartition \/ WriteEssence
  \/ CompleteWrite \/ IgnoreEntries \/ EndSamples
  \/ WriteIndexPartition \/ WriteFooter \/ Rewrite
  \/ Done

Spec == Init /\ [][Next]_vars

-----------------------------------------------------------------------------
(* Properties. *)

(* A partition's body offset, by which readers map the index to the file,  *)
(* is the size of the essence in the partitions before it.                 *)
EssenceBefore(i) ==
  SumFunctionOnSet(UnitSizes(config),
                   UNION {Range(partitions[j].essence) : j \in 1 .. (i - 1)})

BodyOffsetsRight ==
  \A i \in DOMAIN partitions :
    partitions[i].offset # NoOffset => partitions[i].offset = EssenceBefore(i)

(* Essence is only written to partitions that were opened for it, in       *)
(* order, and a new one starts at the start of a GOP, although the packages*)
(* that decide it may have waited in the queue for a while.                *)
PartitionsStartAtGOPs ==
  \A i \in DOMAIN partitions :
    LET units == partitions[i].essence IN
    units # <<>> =>
      /\ partitions[i].offset # NoOffset
      /\ \A k \in DOMAIN units : units[k] = units[1] + k - 1
      /\ ~IsCBE => units[1] \in GOPStart

(* The segments in the file, in order; what a constant table or a repeated *)
(* one has in its last place is all of it.                                 *)
FileIndex ==
  IF RepeatIndexTable THEN partitions[Len(partitions)].index
  ELSE FlattenSeq([i \in DOMAIN partitions |-> partitions[i].index])

(* Index segments only describe essence that is before them in the file,   *)
(* and their entries are complete, unless their writer gave up on them.    *)
(* Nothing the index table refuses ever happens on the way: the queue of   *)
(* packages is full before the cache of entries is, and no entry is        *)
(* completed after its segment was flushed.                                *)
FlushedEntriesComplete ==
  /\ pc # "failed" => indexStatus = "ok"
  /\ \A i \in DOMAIN partitions : \A s \in DOMAIN partitions[i].index :
       LET segment == partitions[i].index[s] IN
       \A k \in DOMAIN segment.entries :
         LET p == segment.start + k - 1 IN
         /\ \E j \in 1 .. (i - 1) : p \in Range(partitions[j].essence)
         /\ p \notin ignored => Shown(segment.entries[k]) = Final[p]

(* A file that was closed holds every complete package, and its index      *)
(* describes each of them once.                                            *)
ClosedFileWhole ==
  pc = "closed" =>
    /\ ~HavePackages(1)
    /\ LET segs == FileIndex IN
       /\ \A i \in DOMAIN segs :
            segs[i].start = IF i = 1 THEN 0 ELSE segs[i - 1].start + segs[i - 1].duration
       /\ (IF segs = <<>> THEN 0 ELSE segs[Len(segs)].start + segs[Len(segs)].duration) = written

(* A table that is written again fits in its place. *)
RewriteFits ==
  [][Rewrites /\ pc = "rewrite" /\ pc' = "closed" =>
       Len(partitions'[cbePartition].index) = Len(partitions[cbePartition].index)]_vars

(* The footer is where the header of a single pass file said it would be,  *)
(* before any essence was written.                                         *)
FooterInPlace == pc # "misplaced"
=============================================================================
