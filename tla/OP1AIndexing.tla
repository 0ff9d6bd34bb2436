---------------------------- MODULE OP1AIndexing ----------------------------
(***************************************************************************)
(* The index table as the tracks, the content packages and the file use    *)
(* it: entries are added when a frame is written, completed while later    *)
(* frames arrive, taken by content packages in order, and flushed when the *)
(* file starts a partition.                                                *)
(***************************************************************************)
EXTENDS OP1AIndexTable

CONSTANT
  Picture        \* the element whose entries are completed late

(* Of a configuration, besides: the element sizes that a content package   *)
(* can have, "minimal", "body" or "separate" partitions for the index, and *)
(* whether the only element is one clip wrapped sound element. Bounds: the *)
(* edit units written, and the clip wrapped samples given in a call.  A    *)
(* variable table has the picture, and Final says what it shows there.     *)
ASSUME IndexingAssumption ==
  \A c \in Configs :
    /\ c.sizes # {} /\ c.partitions \in {"minimal", "body", "separate"}
    /\ c.clip \in BOOLEAN /\ c.editUnits \in Nat /\ c.samples \in Nat
    /\ c.clip => Len(c.elements) = 1 /\ c.cbe = Range(c.elements) /\ ~c.avci
    /\ c.cbe # Range(c.elements) =>
         /\ Picture \in Range(c.elements) \ c.cbe
         /\ \A p \in 0 .. (c.editUnits - 1) : Final[p] \in [temporal : Int, key : Nat]

(* A track is registered once. Clip wrapped samples are not empty; and two *)
(* AVC-Intra content packages of the same size do not differ in the sizes  *)
(* of their elements: only the first picture has its parameter sets.       *)
ASSUME SizesAssumption ==
  \A c \in Configs :
    /\ \A i, j \in DOMAIN c.elements : c.elements[i] = c.elements[j] => i = j
    /\ c.sizes \subseteq [DOMAIN c.elements -> Nat]
    /\ c.clip => \A sizes \in c.sizes : sizes[1] > 0
    /\ c.avci /\ c.cbe = Range(c.elements) =>
         \A s, t \in c.sizes : SumFunction(s) = SumFunction(t) => s = t

VARIABLES
  units,    \* the sizes of the edit units indexed, in order
  ignored,  \* positions whose entries the writer gave up completing
  inBody,   \* the segments in the header and body partitions of the file
  inFooter, \* the segments in the footer partition
  stage     \* where CompleteWrite is

vars == <<indexVars, units, ignored, inBody, inFooter, stage>>

-----------------------------------------------------------------------------
VBEElement == Element \ CBEElement

Running == indexStatus = "ok" /\ stage = "writing"

Init ==
  /\ InitIndexTable
  /\ units = <<>>
  /\ ignored = {}
  /\ inBody = <<>>
  /\ inFooter = <<>>
  /\ stage = "writing"

(* A data track writes a frame. *)
WriteDataFrame(e) ==
  LET p == lastAdded[e] + 1 IN
  /\ Running /\ e \in VBEElement \ {Picture} /\ p < config.editUnits
  /\ AddIndexEntry(e, p, [temporal |-> 0, key |-> DefaultKey], TRUE, FALSE)
  /\ UNCHANGED <<units, ignored, inBody, inFooter, stage>>

(* The picture track writes a frame, with a complete entry or one that is  *)
(* yet to be completed: an AVC one with its key or without.                *)
WritePictureFrame(complete, key) ==
  LET p == lastAdded[Picture] + 1
  IN /\ Running /\ Picture \in VBEElement /\ p < config.editUnits /\ ~GivesUpAt(Picture, p)
     /\ AddIndexEntry(Picture, p,
          IF complete THEN Final[p] ELSE IncompleteEntry(p, key),
          p \in GOPStart, ~complete)
     /\ UNCHANGED <<units, ignored, inBody, inFooter, stage>>

GiveUpPreviousGOP ==
  LET p == lastAdded[Picture] + 1 IN
  /\ Running /\ Picture \in VBEElement /\ p < config.editUnits /\ GivesUpAt(Picture, p)
  /\ ignored' = ignored \cup requireUpdates[Picture]
  /\ IgnoreRequiredUpdates({Picture})
  /\ UNCHANGED <<units, inBody, inFooter, stage>>

(* The picture track learns what is shown at an earlier position. *)
CompleteEntry(p) ==
  /\ Running /\ Picture \in VBEElement /\ p \in requireUpdates[Picture]
  /\ CompletePictureEntry(Picture, p)
  /\ UNCHANGED <<units, ignored, inBody, inFooter, stage>>

(* A complete content package is at the front of the queue. *)
HaveUnit ==
  /\ duration < config.editUnits
  /\ \A e \in VBEElement : lastAdded[e] >= duration

(* A content package is written. *)
WriteUnit(sizes) ==
  /\ Running /\ HaveUnit /\ ~config.clip
  /\ UpdateIndex(sizes)
  /\ units' = IF indexStatus' = "ok" THEN Append(units, sizes) ELSE units
  /\ UNCHANGED <<ignored, inBody, inFooter, stage>>

(* Samples of a clip wrapped element are written. *)
WriteClipSamples(sizes, n) ==
  /\ Running /\ config.clip /\ duration + n <= config.editUnits
  /\ UpdateIndexSamples(n * sizes[1], n)
  /\ units' = IF indexStatus' = "ok" THEN units \o [i \in 1 .. n |-> sizes] ELSE units
  /\ UNCHANGED <<ignored, inBody, inFooter, stage>>

(* Mutant: a partition starts while entries before it are incomplete. *)
CanFlush_Early == HaveUnit /\ HaveSegments /\ CanStartPartition
CanFlush ==
  /\ HaveUnit /\ HaveSegments /\ CanStartPartition
  /\ ~RequireUpdatesAtPos(duration - 1)

(* When a CBE table is written before the essence: its edit unit sizes are *)
(* known from the first content package, or two when there is a pair.      *)
CBETableKnown ==
  /\ duration > 0 /\ ~haveWritten
  /\ config.clip \/ duration <= 2
  /\ RequireIndexTableSegmentPair => duration = 2

(* The file starts a partition. *)
StartPartition ==
  /\ Running
  /\ IF IsCBE THEN CBETableKnown ELSE CanFlush
  /\ WriteSegments(FALSE, ~IsCBE)
  /\ inBody' = inBody \o output'
  /\ UNCHANGED <<units, ignored, inFooter, stage>>

-----------------------------------------------------------------------------
(* CompleteWrite of the file. *)

(* No more updates are expected. A duration given beforehand is checked.   *)
CompleteEntries ==
  /\ Running /\ duration > 0
  /\ IF InputDuration \in {duration, NoDuration}
       THEN /\ ignored' = ignored \cup UNION Range(requireUpdates)
            /\ IgnoreRequiredUpdates(Element)
            /\ stage' = "completing"
       ELSE IndexFails /\ UNCHANGED <<ignored, stage>>
  /\ UNCHANGED <<units, inBody, inFooter>>

NeedsIndexPartition ==
  /\ config.partitions # "minimal"
  /\ config.partitions = "separate" \/ (RepeatIndexTable /\ haveWritten)
  /\ IF IsCBE THEN ~haveWritten ELSE HaveSegments

(* What is left goes to an index partition of its own, ... *)
WriteIndexPartition ==
  /\ indexStatus = "ok" /\ stage = "completing" /\ NeedsIndexPartition
  /\ WriteSegments(FALSE, TRUE)
  /\ inBody' = inBody \o output'
  /\ stage' = "indexed"
  /\ UNCHANGED <<units, ignored, inFooter>>

(* ... or is written, or repeated, with the footer. *)
WriteFooter ==
  /\ indexStatus = "ok" /\ stage \in {"completing", "indexed"}
  /\ stage = "completing" => ~NeedsIndexPartition
  /\ IF HaveFooterSegments
       THEN WriteSegments(TRUE, TRUE) /\ inFooter' = output'
       ELSE UNCHANGED <<indexVars, inFooter>>
  /\ stage' = "footer"
  /\ UNCHANGED <<units, ignored, inBody>>

(* A CBE table in a header or body partition is written again, unless the  *)
(* file is written in a single pass.                                       *)
Rewrite ==
  /\ indexStatus = "ok" /\ stage = "footer"
  /\ IF IsCBE /\ InputDuration = NoDuration /\ inBody # <<>>
       THEN WriteSegments(FALSE, TRUE) /\ inBody' = output'
       ELSE UNCHANGED <<indexVars, inBody>>
  /\ stage' = "closed"
  /\ UNCHANGED <<units, ignored, inFooter>>

Done == (stage = "closed" \/ indexStatus # "ok") /\ UNCHANGED vars

Next ==
  \/ \E e \in Element : WriteDataFrame(e)
  \/ \E complete \in BOOLEAN, key \in {0, 1} : WritePictureFrame(complete, key)
  \/ GiveUpPreviousGOP
  \/ \E p \in 0 .. (config.editUnits - 1) : CompleteEntry(p)
  \/ \E sizes \in config.sizes : WriteUnit(sizes)
  \/ \E sizes \in config.sizes, n \in 1 .. config.samples : WriteClipSamples(sizes, n)
  \/ StartPartition
  \/ CompleteEntries
  \/ WriteIndexPartition
  \/ WriteFooter
  \/ Rewrite
  \/ Done

Spec == Init /\ [][Next]_vars

-----------------------------------------------------------------------------
(* Properties. *)

(* Every entry of the file that the writer did not give up on shows what   *)
(* the stream shows there, however late that became known.  None is        *)
(* completed after its segment has gone to the file and been freed: the    *)
(* walk back through the segments would leave the vector.                  *)
FlushedEntriesComplete ==
  /\ indexStatus # "undefined"
  /\ \A list \in {inBody, inFooter} : \A i \in DOMAIN list : \A k \in DOMAIN list[i].entries :
       LET p == list[i].start + k - 1 IN
       p \notin ignored => Shown(list[i].entries[k]) = Final[p]

(* The true place of element i of edit unit p in the essence stream. *)
Place(p, i) ==
  SumFunction([q \in 1 .. p |-> ContentPackageSize(units[q])]) + SizeOf(units[p + 1], 1 .. (i - 1))

(* A segment without delta entries has one element, at the start.          *)
DeltaOf(segment, i) ==
  IF segment.deltas = <<>> THEN [slice |-> 0, delta |-> 0] ELSE segment.deltas[i]

(* Where a reader of a segment that begins at base looks for it. *)
IndexedPlace(segment, base, p, i) ==
  IF IsCBE
    THEN base + (p - segment.start) * segment.byteCount + DeltaOf(segment, i).delta
    ELSE LET entry == segment.entries[p - segment.start + 1]
             slice == DeltaOf(segment, i).slice
         IN entry.offset + (IF slice = 0 THEN 0 ELSE entry.slices[slice])
              + DeltaOf(segment, i).delta

Base(list, i) == SumFunctionOnSet([j \in DOMAIN list |-> list[j].duration * list[j].byteCount], 1 .. (i - 1))

Locates(list) ==
  \A i \in DOMAIN list : \A p \in list[i].start .. (list[i].start + list[i].duration - 1) :
    p < Len(units) =>
      \A e \in DOMAIN Elements : IndexedPlace(list[i], Base(list, i), p, e) = Place(p, e)

(* The index leads to every element of every edit unit: entry, slice and   *)
(* delta together give its place in the essence, whatever the sizes of the *)
(* variable elements before it, in segments flushed at any time.           *)
ElementsLocated == Locates(inBody) /\ Locates(inFooter)

(* The completed file indexes every edit unit once, in order; the footer   *)
(* has the whole table if it is repeated there, and so has a partition in  *)
(* which a constant table was written before its duration was known.       *)
WholeTableWritten ==
  stage = "closed" /\ indexStatus = "ok" =>
    /\ Spans(IF RepeatIndexTable THEN inFooter ELSE inBody \o inFooter, 0, duration)
    /\ IsCBE /\ inBody # <<>> => Spans(inBody, 0, duration)

(* The array of a segment never outgrows its limit, and a table is cut at  *)
(* the starts of GOPs where that can be done: a segment that comes near    *)
(* its limit ends at the first GOP that may not fit, and one that ends     *)
(* earlier than that, or within a GOP, is full.                            *)
NearlyFull == MaxSegmentEntries - GOPSizeGuess

SegmentsCutAtGOPs ==
  ~IsCBE => \A i \in DOMAIN segments :
    /\ segments[i].duration <= MaxSegmentEntries
    /\ \A k \in NearlyFull .. (segments[i].duration - 1) : segments[i].start + k \notin GOPStart
    /\ i > 1 => \/ segments[i - 1].duration = MaxSegmentEntries
                \/ segments[i].start \in GOPStart /\ segments[i - 1].duration >= NearlyFull

(* "Fixed size content package element data size changed", which stops the *)
(* writing, is said only if a size did change.                             *)
SameSizeAccepted == Cardinality(config.sizes) = 1 => indexStatus # "failed"
=============================================================================
