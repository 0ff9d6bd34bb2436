--------------------------- MODULE OP1AFile_proof ---------------------------
(***************************************************************************)
(* Proof of how an OP-1a file is laid out, for every configuration, order  *)
(* in which the tracks write, and moment at which an entry becomes         *)
(* complete or the file ends: where its partitions start, that their body  *)
(* offsets are right, that the footer of a file written in a single pass   *)
(* is where the header said, that a table that is written again fits, that *)
(* the index of a closed file describes each of its packages once, and     *)
(* that entries are complete, and after their essence, when they are       *)
(* flushed, nothing being refused on the way.                              *)
(***************************************************************************)
EXTENDS OP1AFile, OP1AIndexTable_proof

Statuses == {"ok", "failed", "undefined"}
Places == {"idle", "track", "loop", "preindex", "partition", "essence", "completing",
           "end", "index", "footer", "rewrite", "closed", "failed", "misplaced"}

-----------------------------------------------------------------------------
(* The inductive invariant. *)

(* A constant table that is not after the essence is known for the first   *)
(* two content packages before they are written: no partition may start    *)
(* between them.                                                           *)
StartsApart(c) == c.cbe = Range(c.elements) /\ ~c.follows => c.interval # 1

IsPartition(x) == x \in [index : {x.index}, offset : {x.offset}, essence : Seq(Nat)]
IsFile(list) ==
  /\ list \in Seq(Range(list)) /\ list # <<>>
  /\ \A i \in 1 .. Len(list) : IsPartition(list[i])

FileTypeInv ==
  /\ config \in Configs /\ pc \in Places /\ indexStatus \in Statuses
  /\ written \in Nat /\ duration \in Nat /\ frameCount \in Nat /\ bodyOffset \in Nat
  /\ track \in Element /\ supplied \in [Element -> 0 .. config.frames]
  /\ firstWrite \in BOOLEAN /\ waiting \in BOOLEAN
  /\ memoryOpen \in BOOLEAN /\ endOfSamples \in BOOLEAN /\ haveWritten \in BOOLEAN
  /\ IsFile(partitions)

(* How far the tracks, the table and the file have come.                   *)
Starting == {"preindex", "partition", "essence"}
Ending == {"end", "index", "footer", "rewrite", "closed"}

Supplied(c, frames, n) == \A e \in Range(c.elements) : frames[e] >= n

ProgressInv ==
  /\ written <= duration /\ frameCount <= written
  /\ Supplied(config, supplied, duration)
  /\ duration = written \/ (IsCBE /\ ~config.follows /\ duration <= 2)
  /\ firstWrite => duration = 0 /\ pc \notin Starting
  /\ pc = "preindex" => written = 0 /\ IsCBE /\ ~config.follows
  /\ pc \in Starting => HavePackages(1)
  /\ ~firstWrite /\ pc \notin Starting => written > 0
  /\ endOfSamples => pc \notin {"idle", "track"}
  /\ pc = "track" => supplied[track] < config.frames
  /\ pc \in {"completing"} \cup Ending => endOfSamples
  /\ pc \in Ending => ~HavePackages(1)
  /\ streamOffset = SizeUpTo(config, duration)

(* The entries of the packages that wait.                                  *)
Waits(c, entries, first, frames) ==
  /\ DOMAIN entries = Range(c.elements)
  /\ \A e \in Range(c.elements) \ c.cbe :
       /\ DOMAIN entries[e] = first .. (frames[e] - 1)
       /\ \A p \in DOMAIN entries[e] : entries[e][p].canStart = (p \in GOPStart)
WaitingEntriesInv == Waits(config, cache, written, supplied)

(* Where the partition that is open, or about to be, starts.               *)
Filling == {"idle", "track", "loop", "completing", "end"}
Open == partitions[Len(partitions)]
MayStart == ~IsCBE => written \in GOPStart

OpenInv ==
  /\ pc = "partition" => ~MinPartitions /\ MayStart
  /\ waiting => /\ ~firstWrite /\ ~MinPartitions /\ MayStart /\ pc \notin Starting
                /\ StartsApart(config) => duration = written
  /\ pc \in {"preindex", "partition"} /\ StartsApart(config) => bodyOffset = SizeUpTo(config, written)
  /\ MinPartitions \/ ~firstWrite =>
       /\ pc \in Filling \cup {"essence"} => Open.offset # NoOffset
       /\ MinPartitions /\ pc = "preindex" => Open.offset # NoOffset
  /\ ~firstWrite /\ pc \in Filling => Open.essence # <<>>
  /\ pc = "essence" /\ Open.essence = <<>> => MayStart

(* The partitions of a file of n content packages.                         *)
UnitsBefore(list, i) == UNION {Range(list[j].essence) : j \in 1 .. (i - 1)}

RightUnits(c, list, n, i) ==
  LET units == list[i].essence IN
  units # <<>> =>
    /\ list[i].offset # NoOffset
    /\ \A k \in 1 .. Len(units) : units[k] = units[1] + k - 1
    /\ c.cbe # Range(c.elements) => units[1] \in GOPStart
    /\ i = Len(list) => units[1] + Len(units) = n

RightOffset(c, list, n, i) ==
  list[i].offset # NoOffset /\ StartsApart(c) =>
    \E k \in 0 .. n : /\ UnitsBefore(list, i) = 0 .. (k - 1)
                      /\ list[i].offset = SizeUpTo(c, k)

LaidOut(c, list, n) ==
  /\ \A i \in 1 .. Len(list) : RightUnits(c, list, n, i) /\ RightOffset(c, list, n, i)
  /\ UnitsBefore(list, Len(list) + 1) = 0 .. (n - 1)
PartitionsInv == LaidOut(config, partitions, written)

(* A constant table: the first edit unit may have a size of its own.       *)
IsUnits(s) ==
  s \in [start : {s.start}, duration : Nat, byteCount : Nat, deltas : {s.deltas},
         entries : {s.entries}]
NonFirstSize(segs) == segs[1].byteCount
FirstSize(segs, first) == IF first # <<>> THEN first[1].byteCount ELSE NonFirstSize(segs)
SizeByTable(segs, first, n) ==
  IF n = 0 THEN 0 ELSE FirstSize(segs, first) + (n - 1) * NonFirstSize(segs)

Sizes(c, segs, first, n) ==
  /\ segs = <<segs[1]>> /\ IsUnits(segs[1])
  /\ first # <<>> => first = <<first[1]>> /\ IsUnits(first[1]) /\ c.avci
  /\ n = 0 => FirstSize(segs, first) = 0 /\ NonFirstSize(segs) = 0
  /\ n > 0 => FirstSize(segs, first) > 0
  /\ NonFirstSize(segs) > 0 <=> n > Len(first)
  /\ SizeUpTo(c, n) = SizeByTable(segs, first, n)
SizesInv == Sizes(config, segments, firstSegment, duration)

(* The pair of a constant table is only left open at the end.              *)
PairSettled == firstSegment = <<>> \/ duration # 1 \/ (endOfSamples /\ ~Supplied(config, supplied, 2))

(* What the header of a single pass file says.                             *)
PromiseInv ==
  /\ memoryOpen => written = 0
  /\ IsCBE /\ ~config.follows =>
       /\ pc = "preindex" => endOfSamples \/ ~config.avci \/ Supplied(config, supplied, 2)
       /\ pc \in {"partition", "essence"} => duration > 0
       /\ pc # "preindex" => PairSettled
  /\ pc \in Ending \ {"end"} => ~memoryOpen
  /\ SinglePass /\ ~memoryOpen =>
       /\ footerOffset = SizeByTable(segments, firstSegment, InputDuration)
       /\ pc # "preindex"
       /\ duration = 0 => pc \notin Starting \cup Filling
  /\ SinglePass /\ pc = "index" => duration = InputDuration

(* Where a constant table is, and how long it is there.                    *)
TableLength == Len(firstSegment) + (IF WritesMainSegment THEN 1 ELSE 0)
PlacedInv ==
  /\ haveWritten =>
       /\ duration > 0 /\ cbePartition \in 1 .. Len(partitions)
       /\ PairSettled
       /\ Len(partitions[cbePartition].index) = TableLength
  /\ pc \in {"rewrite", "closed"} /\ duration > 0 => haveWritten
  /\ pc = "preindex" => ~haveWritten
  /\ haveWritten /\ config.follows => pc \in {"index", "footer", "rewrite", "closed"}

LayoutInv ==
  /\ FileTypeInv /\ PartitionsInv /\ pc # "misplaced"
  /\ indexStatus = "ok" => ProgressInv /\ WaitingEntriesInv /\ OpenInv
  /\ indexStatus = "ok" /\ IsCBE => SizesInv /\ PromiseInv /\ PlacedInv

-----------------------------------------------------------------------------
(* Files: lists of partitions.                                             *)

(* What a list of partitions is made of.                                   *)
LEMMA FileLen ==
  ASSUME NEW list, IsFile(list)
  PROVE  /\ Len(list) \in Nat \ {0} /\ DOMAIN list = 1 .. Len(list)
         /\ list[Len(list)] \in Range(list)
<1>1. list \in Seq(Range(list)) /\ list # <<>>
  BY DEF IsFile
<1>2. Len(list) \in Nat /\ DOMAIN list = 1 .. Len(list) /\ Len(list) # 0
  BY <1>1, LenProperties, EmptySeq
<1> QED BY <1>2 DEF Range

(* A sequence whose members are partitions is a file.                      *)
LEMMA FileOf ==
  ASSUME NEW S, NEW list \in Seq(S), Len(list) # 0, \A i \in 1 .. Len(list) : IsPartition(list[i])
  PROVE  IsFile(list)
<1>1. list \in Seq(Range(list))
  BY LenProperties, SeqOfRange
<1>2. list # <<>>
  BY EmptySeq
<1> QED BY <1>1, <1>2 DEF IsFile

(* Appending a partition.                                                  *)
LEMMA FileAppend ==
  ASSUME NEW list, IsFile(list), NEW p, IsPartition(p)
  PROVE  /\ IsFile(Append(list, p)) /\ Len(Append(list, p)) = Len(list) + 1
         /\ \A i \in 1 .. Len(list) : Append(list, p)[i] = list[i]
         /\ Append(list, p)[Len(list) + 1] = p
<1> DEFINE S == Range(list) \cup {p}
           t == Append(list, p)
<1>1. list \in Seq(S) /\ p \in S /\ Len(list) \in Nat
  <2>1. list \in Seq(Range(list)) /\ Range(list) \subseteq S
    BY DEF IsFile
  <2> HIDE DEF S
  <2> QED BY <2>1, SeqMonotonic, LenProperties DEF S
<1> HIDE DEF S
<1>2. /\ t \in Seq(S) /\ Len(t) = Len(list) + 1
      /\ \A i \in 1 .. Len(list) : t[i] = list[i]
      /\ t[Len(list) + 1] = p
  BY <1>1, AppendProperties
<1> HIDE DEF t
<1>3. \A i \in 1 .. Len(t) : i \in 1 .. Len(list) \/ i = Len(list) + 1
  BY <1>1, <1>2
<1>4. \A i \in 1 .. Len(t) : IsPartition(t[i])
  BY <1>2, <1>3 DEF IsFile
<1>5. IsFile(t)
  BY <1>1, <1>2, <1>4, FileOf
<1> QED BY <1>2, <1>5 DEF t

(* Changing a partition: all of it, its index, or its essence.             *)
WithPartition(list, i, p) == [list EXCEPT ![i] = p]
WithIndex(list, i, x) == [list EXCEPT ![i].index = x]
WithUnit(list, n) == [list EXCEPT ![Len(list)].essence = Append(@, n)]

LEMMA FileExcept ==
  ASSUME NEW list, IsFile(list), NEW n \in DOMAIN list, NEW p, IsPartition(p)
  PROVE  /\ IsFile(WithPartition(list, n, p)) /\ Len(WithPartition(list, n, p)) = Len(list)
         /\ \A i \in 1 .. Len(list) : WithPartition(list, n, p)[i] = IF i = n THEN p ELSE list[i]
<1> DEFINE S == Range(list) \cup {p}
           t == [list EXCEPT ![n] = p]
<1>1. list \in Seq(S) /\ p \in S /\ Len(list) \in Nat
  <2>1. list \in Seq(Range(list)) /\ Range(list) \subseteq S
    BY DEF IsFile
  <2> HIDE DEF S
  <2> QED BY <2>1, SeqMonotonic, LenProperties DEF S
<1> HIDE DEF S
<1>2. /\ t \in Seq(S) /\ Len(t) = Len(list)
      /\ \A i \in 1 .. Len(list) : t[i] = IF i = n THEN p ELSE list[i]
  BY <1>1, FileLen, ExceptSeq
<1> HIDE DEF t
<1>4. \A i \in 1 .. Len(t) : IsPartition(t[i])
  BY <1>2 DEF IsFile
<1>5. IsFile(t)
  BY <1>1, <1>2, <1>4, FileOf
<1>6. t = WithPartition(list, n, p)
  BY DEF t, WithPartition
<1> QED BY <1>2, <1>5, <1>6

-----------------------------------------------------------------------------
(* The parts of the invariant.                                             *)

(* What the assumptions say of a configuration.                            *)
LEMMA ConfigFacts ==
  ASSUME config \in Configs
  PROVE  /\ CBEElement \subseteq Element /\ Element # {} /\ Elements[1] \in Element
         /\ IsCBE <=> VBEElement = {}
         /\ config.partitions \in {"minimal", "body", "separate"}
         /\ config.frames \in Nat /\ PartitionInterval \in Nat
         /\ config.avci \in BOOLEAN /\ config.follows \in BOOLEAN
         /\ MinPartitions => PartitionInterval = 0
         /\ InputDuration \in Nat \cup {NoDuration}
         /\ SinglePass => InputDuration \in Nat /\ IsCBE /\ ~config.follows
                          /\ PartitionInterval = 0
         /\ IsCBE <=> config.cbe = Range(config.elements)
         /\ StartsApart(config) /\ IsCBE /\ ~config.follows => PartitionInterval # 1
<1>1. /\ config.elements \in Seq(Range(config.elements)) /\ config.elements # <<>>
      /\ config.cbe \subseteq Range(config.elements)
      /\ config.avci \in BOOLEAN /\ config.inputDuration \in Nat \cup {NoDuration}
  BY IndexTableAssumption
<1>2. 1 \in DOMAIN config.elements
  BY <1>1, LenProperties, EmptySeq
<1>3. Element # {} /\ Elements[1] \in Element
  BY <1>2 DEF Element, Elements, Range
<1> QED BY <1>1, <1>3, FileAssumption
        DEF Element, Elements, CBEElement, VBEElement, IsCBE, PartitionInterval, MinPartitions,
            InputDuration, SinglePass, StartsApart

(* The size of the essence grows by that of each content package.          *)
LEMMA SizeFacts ==
  ASSUME NEW c \in Configs
  PROVE  /\ SizeUpTo(c, 0) = 0
         /\ \A p \in 0 .. (c.frames - 1) :
              /\ UnitSizes(c)[p] = ContentPackageSize(c.sizes[p])
              /\ UnitSizes(c)[p] \in Nat /\ UnitSizes(c)[p] > 0
              /\ SizeUpTo(c, p) \in Nat
              /\ SizeUpTo(c, p + 1) = SizeUpTo(c, p) + UnitSizes(c)[p]
         /\ \A n \in 0 .. c.frames : SizeUpTo(c, n) \in Nat
<1>1. \A p \in 0 .. (c.frames - 1) : UnitSizes(c)[p] = ContentPackageSize(c.sizes[p])
  BY DEF UnitSizes
<1>2. c.frames \in Nat /\ \A p \in 0 .. (c.frames - 1) : UnitSizes(c)[p] \in Nat \ {0}
  BY SizeAssumption, FileAssumption
<1>3. SizeUpTo(c, 0) = 0
  <2>1. 0 .. (0 - 1) = {}
    OBVIOUS
  <2> QED BY <2>1, SumOfNone DEF SizeUpTo
<1>4. ASSUME NEW n \in 0 .. c.frames PROVE SizeUpTo(c, n) \in Nat
  <2>1. IsFiniteSet(0 .. (n - 1))
    BY <1>2, FS_Interval
  <2>2. \A x \in 0 .. (n - 1) : UnitSizes(c)[x] \in Nat
    BY <1>2
  <2> QED BY <2>1, <2>2, SumIsNumber DEF SizeUpTo
<1>5. ASSUME NEW p \in 0 .. (c.frames - 1)
      PROVE  SizeUpTo(c, p + 1) = SizeUpTo(c, p) + UnitSizes(c)[p]
  <2>1. 0 \in Int /\ p \in Int /\ 0 <= p /\ (p + 1) - 1 = p
    BY <1>2
  <2>2. \A x \in 0 .. p : UnitSizes(c)[x] \in Nat
    BY <1>2
  <2> QED BY <2>1, <2>2, SumOneMore DEF SizeUpTo
<1>6. \A p \in 0 .. (c.frames - 1) : p \in 0 .. c.frames /\ UnitSizes(c)[p] > 0
  BY <1>2
<1> QED BY <1>1, <1>2, <1>3, <1>4, <1>5, <1>6

(* What only depends on the configuration stays.                           *)
LEMMA SameConfig ==
  ASSUME config' = config
  PROVE  /\ Element' = Element /\ Elements' = Elements /\ CBEElement' = CBEElement
         /\ VBEElement' = VBEElement /\ IsCBE' = IsCBE
         /\ RepeatIndexTable' = RepeatIndexTable /\ InputDuration' = InputDuration
         /\ RequireIndexTableSegmentPair' = RequireIndexTableSegmentPair
         /\ MinPartitions' = MinPartitions /\ BodyPartitions' = BodyPartitions
         /\ PartitionInterval' = PartitionInterval /\ SinglePass' = SinglePass
         /\ \A n : EssenceSize(n)' = EssenceSize(n)
  BY DEF Element, Elements, CBEElement, VBEElement, IsCBE, RepeatIndexTable, InputDuration,
         RequireIndexTableSegmentPair, MinPartitions, BodyPartitions, PartitionInterval,
         SinglePass, EssenceSize

(* The content packages in the partitions before one.                      *)
LEMMA MoreUnits ==
  ASSUME NEW list, NEW i \in Nat \ {0}
  PROVE  UnitsBefore(list, i + 1) = UnitsBefore(list, i) \cup Range(list[i].essence)
<1>1. \A n, x : x \in UnitsBefore(list, n) <=> \E j \in 1 .. (n - 1) : x \in Range(list[j].essence)
  BY DEF UnitsBefore
<1>2. \A j : j \in 1 .. ((i + 1) - 1) <=> j \in 1 .. (i - 1) \/ j = i
  OBVIOUS
<1>3. ASSUME NEW x
      PROVE  x \in UnitsBefore(list, i + 1)
               <=> x \in UnitsBefore(list, i) \/ x \in Range(list[i].essence)
  BY <1>1, <1>2, Zenon
<1> QED BY <1>3

(* An empty partition is added; if it is for essence, at its offset.       *)
LEMMA EmptyAdded ==
  ASSUME NEW c, NEW list, IsFile(list), NEW n \in Nat, LaidOut(c, list, n),
         NEW p, IsPartition(p), p.essence = <<>>,
         p.offset # NoOffset /\ StartsApart(c) => p.offset = SizeUpTo(c, n)
  PROVE  IsFile(Append(list, p)) /\ LaidOut(c, Append(list, p), n)
<1>1. PICK t : t = Append(list, p)
  OBVIOUS
<1>2. /\ IsFile(t) /\ Len(t) = Len(list) + 1 /\ \A i \in 1 .. Len(list) : t[i] = list[i]
      /\ t[Len(list) + 1] = p
  BY <1>1, FileAppend
<1>3. Len(list) \in Nat \ {0}
  BY FileLen
<1>4. ASSUME NEW i \in 1 .. (Len(list) + 1) PROVE UnitsBefore(t, i) = UnitsBefore(list, i)
  <2>1. \A j \in 1 .. (i - 1) : t[j] = list[j]
    BY <1>2, <1>3
  <2> QED BY <2>1, Zenon DEF UnitsBefore
<1>5. UnitsBefore(t, Len(t) + 1) = 0 .. (n - 1)
  <2>1. UnitsBefore(t, Len(list) + 1) = 0 .. (n - 1)
    BY <1>3, <1>4 DEF LaidOut
  <2>2. Range(t[Len(list) + 1].essence) = {}
    BY <1>2, EmptySeq DEF Range
  <2>3. Len(list) + 1 \in Nat \ {0} /\ Len(t) + 1 = (Len(list) + 1) + 1
    BY <1>2, <1>3
  <2>4. UnitsBefore(t, Len(t) + 1)
          = UnitsBefore(t, Len(list) + 1) \cup Range(t[Len(list) + 1].essence)
    BY <2>3, MoreUnits
  <2> QED BY <2>1, <2>2, <2>4
<1>6. ASSUME NEW i \in 1 .. Len(t) PROVE RightUnits(c, t, n, i) /\ RightOffset(c, t, n, i)
  <2>1. CASE i \in 1 .. Len(list)
    <3>1. RightUnits(c, list, n, i) /\ RightOffset(c, list, n, i)
      BY <2>1 DEF LaidOut
    <3>2. t[i] = list[i] /\ i # Len(t) /\ UnitsBefore(t, i) = UnitsBefore(list, i)
      BY <1>2, <1>3, <1>4, <2>1
    <3> QED BY <3>1, <3>2 DEF RightUnits, RightOffset
  <2>2. CASE i = Len(list) + 1
    <3>1. UnitsBefore(t, i) = 0 .. (n - 1)
      BY <1>3, <1>4, <2>2 DEF LaidOut
    <3>2. t[i] = p
      BY <1>2, <2>2
    <3>3. RightOffset(c, t, n, i)
      BY <3>1, <3>2 DEF RightOffset
    <3> QED BY <3>2, <3>3 DEF RightUnits
  <2> QED BY <1>2, <1>3, <2>1, <2>2
<1> QED BY <1>1, <1>2, <1>5, <1>6 DEF LaidOut

(* The index of a partition is written, or written again.                  *)
LEMMA IndexWritten ==
  ASSUME NEW c, NEW list, IsFile(list), NEW n, LaidOut(c, list, n),
         NEW i \in DOMAIN list, NEW x, NEW new, new = WithIndex(list, i, x)
  PROVE  /\ IsFile(new) /\ LaidOut(c, new, n) /\ Len(new) = Len(list) /\ new[i].index = x
         /\ \A j \in 1 .. Len(list) : /\ new[j].offset = list[j].offset
                                      /\ new[j].essence = list[j].essence
<1>1. PICK p : p = [index |-> x, offset |-> list[i].offset, essence |-> list[i].essence]
  OBVIOUS
<1>2. IsPartition(list[i]) /\ i \in 1 .. Len(list)
  BY FileLen DEF IsFile
<1>3. [list[i] EXCEPT !.index = x] = p
  BY <1>1, <1>2 DEF IsPartition
<1>4. IsPartition(p)
  BY <1>1, <1>2 DEF IsPartition
<1>5. PICK t : t = WithPartition(list, i, p)
  OBVIOUS
<1>6. new = t
  BY <1>3, <1>5, Zenon DEF WithIndex, WithPartition
<1>7. /\ IsFile(t) /\ Len(t) = Len(list)
      /\ \A j \in 1 .. Len(list) : t[j] = IF j = i THEN p ELSE list[j]
  BY <1>4, <1>5, FileExcept
<1>8. \A j \in 1 .. Len(list) : t[j].offset = list[j].offset /\ t[j].essence = list[j].essence
  BY <1>1, <1>7
<1>9. Len(list) \in Nat
  BY FileLen
<1>10. ASSUME NEW j \in 1 .. (Len(list) + 1) PROVE UnitsBefore(t, j) = UnitsBefore(list, j)
  <2>1. \A k \in 1 .. (j - 1) : t[k].essence = list[k].essence
    BY <1>8, <1>9
  <2> QED BY <2>1, Zenon DEF UnitsBefore
<1>11. ASSUME NEW j \in 1 .. Len(t) PROVE RightUnits(c, t, n, j) /\ RightOffset(c, t, n, j)
  <2>1. RightUnits(c, list, n, j) /\ RightOffset(c, list, n, j)
    BY <1>7 DEF LaidOut
  <2>2. /\ t[j].offset = list[j].offset /\ t[j].essence = list[j].essence
        /\ Len(t) = Len(list) /\ UnitsBefore(t, j) = UnitsBefore(list, j)
    BY <1>7, <1>8, <1>9, <1>10
  <2> QED BY <2>1, <2>2 DEF RightUnits, RightOffset
<1>12. UnitsBefore(t, Len(t) + 1) = UnitsBefore(list, Len(list) + 1)
  BY <1>7, <1>9, <1>10
<1>13. LaidOut(c, t, n)
  BY <1>11, <1>12 DEF LaidOut
<1>14. t[i].index = x
  BY <1>1, <1>7
<1> QED BY <1>6, <1>7, <1>8, <1>13, <1>14

(* A content package is written to the partition that is open.             *)
TakesUnit(c, list, n) ==
  /\ list[Len(list)].offset # NoOffset
  /\ list[Len(list)].essence = <<>> /\ c.cbe # Range(c.elements) => n \in GOPStart

TookUnit(c, list, n, new) ==
  /\ IsFile(new) /\ LaidOut(c, new, n + 1) /\ Len(new) = Len(list)
  /\ \A j \in 1 .. Len(list) : /\ new[j].offset = list[j].offset
                               /\ new[j].index = list[j].index
  /\ new[Len(list)].essence # <<>>

LEMMA UnitWritten ==
  ASSUME NEW c, NEW list, IsFile(list), NEW n \in Nat, LaidOut(c, list, n), TakesUnit(c, list, n),
         NEW new, new = WithUnit(list, n)
  PROVE  TookUnit(c, list, n, new)
<1>0. /\ list[Len(list)].offset # NoOffset
      /\ list[Len(list)].essence = <<>> /\ c.cbe # Range(c.elements) => n \in GOPStart
  BY DEF TakesUnit
<1>1. PICK l : l = Len(list)
  OBVIOUS
<1>2. l \in Nat \ {0} /\ l \in 1 .. l
  BY <1>1, FileLen
<1>3. PICK u, v : u = list[l].essence /\ v = Append(u, n)
  OBVIOUS
<1>4. IsPartition(list[l]) /\ u \in Seq(Nat)
  BY <1>1, <1>2, <1>3 DEF IsFile, IsPartition
<1>5. /\ v \in Seq(Nat) /\ Len(v) = Len(u) + 1 /\ Len(u) \in Nat
      /\ \A k \in 1 .. Len(u) : v[k] = u[k]
      /\ v[Len(u) + 1] = n
  BY <1>3, <1>4, AppendProperties, LenProperties
<1>6. PICK p : p = [index |-> list[l].index, offset |-> list[l].offset, essence |-> v]
  OBVIOUS
<1>7. [list[l] EXCEPT !.essence = Append(@, n)] = p
  <2>1. Append(list[l].essence, n) = v
    BY <1>3
  <2>2. [list[l] EXCEPT !.essence = v] = p
    BY <1>4, <1>6 DEF IsPartition
  <2> QED BY <2>1, <2>2, Zenon
<1>8. IsPartition(p)
  BY <1>5, <1>6 DEF IsPartition
<1>9. PICK t : t = WithPartition(list, l, p)
  OBVIOUS
<1>10. l \in DOMAIN list
  BY <1>1, <1>2, FileLen
<1>11. new = t
  BY <1>1, <1>7, <1>9, Zenon DEF WithUnit, WithPartition
<1>12. /\ IsFile(t) /\ Len(t) = l
       /\ \A j \in 1 .. l : t[j] = IF j = l THEN p ELSE list[j]
  BY <1>1, <1>8, <1>9, <1>10, FileExcept
<1>13. \A j \in 1 .. l : t[j].offset = list[j].offset /\ t[j].index = list[j].index
  BY <1>6, <1>12
<1>14. t[l] = p /\ p.essence = v /\ \A j \in 1 .. (l - 1) : t[j] = list[j]
  BY <1>2, <1>6, <1>12
<1>15. ASSUME NEW i \in 1 .. l PROVE UnitsBefore(t, i) = UnitsBefore(list, i)
  <2>1. \A j \in 1 .. (i - 1) : t[j] = list[j]
    BY <1>2, <1>14
  <2> QED BY <2>1, Zenon DEF UnitsBefore
<1>16. UnitsBefore(t, l + 1) = 0 .. n
  <2>1. UnitsBefore(list, l + 1) = 0 .. (n - 1)
    BY <1>1 DEF LaidOut
  <2>2. /\ UnitsBefore(t, l + 1) = UnitsBefore(list, l) \cup Range(v)
        /\ UnitsBefore(list, l + 1) = UnitsBefore(list, l) \cup Range(u)
    BY <1>2, <1>3, <1>14, <1>15, MoreUnits
  <2>3. Range(v) = Range(u) \cup {n}
    <3>1. DOMAIN v = 1 .. (Len(u) + 1) /\ DOMAIN u = 1 .. Len(u)
      BY <1>4, <1>5, LenProperties
    <3>2. \A x : x \in Range(v) <=> \E k \in 1 .. (Len(u) + 1) : x = v[k]
      BY <3>1 DEF Range
    <3>3. \A x : x \in Range(u) <=> \E k \in 1 .. Len(u) : x = u[k]
      BY <3>1 DEF Range
    <3>4. \A k : k \in 1 .. (Len(u) + 1) <=> k \in 1 .. Len(u) \/ k = Len(u) + 1
      BY <1>5
    <3>5. ASSUME NEW x PROVE x \in Range(v) <=> x \in Range(u) \/ x = n
      <4>1. ASSUME x \in Range(v) PROVE x \in Range(u) \/ x = n
        <5>1. PICK k \in 1 .. (Len(u) + 1) : x = v[k]
          BY <3>2, <4>1
        <5> QED BY <1>5, <3>3, <3>4, <5>1
      <4>2. ASSUME x \in Range(u) PROVE x \in Range(v)
        <5>1. PICK k \in 1 .. Len(u) : x = u[k]
          BY <3>3, <4>2
        <5>2. k \in 1 .. (Len(u) + 1) /\ x = v[k]
          BY <1>5, <5>1
        <5> QED BY <3>2, <5>2
      <4>3. n \in Range(v)
        <5>1. Len(u) + 1 \in 1 .. (Len(u) + 1) /\ n = v[Len(u) + 1]
          BY <1>5
        <5> QED BY <3>2, <5>1
      <4> QED BY <4>1, <4>2, <4>3
    <3> QED BY <3>5
  <2>4. (0 .. (n - 1)) \cup {n} = 0 .. n
    OBVIOUS
  <2> QED BY <2>1, <2>2, <2>3, <2>4
<1>17. ASSUME NEW i \in 1 .. l PROVE RightUnits(c, t, n + 1, i) /\ RightOffset(c, t, n + 1, i)
  <2>1. RightUnits(c, list, n, i) /\ RightOffset(c, list, n, i)
    BY <1>1 DEF LaidOut
  <2>2. RightOffset(c, t, n + 1, i)
    <3>1. \A k \in 0 .. n : k \in 0 .. (n + 1)
      OBVIOUS
    <3> QED BY <2>1, <3>1, <1>13, <1>15, Zenon DEF RightOffset
  <2>3. CASE i # l
    <3>1. t[i] = list[i]
      BY <1>2, <1>14, <2>3
    <3> QED BY <1>1, <1>12, <2>1, <2>2, <2>3, <3>1 DEF RightUnits
  <2>4. CASE i = l
    <3>1. t[l].essence = v /\ t[l].offset # NoOffset
      BY <1>0, <1>1, <1>2, <1>13, <1>14
    <3>2. CASE u = <<>>
      <4>1. Len(u) = 0
        BY <3>2
      <4>2. Len(v) = 1 /\ v[1] = n
        BY <1>5, <4>1
      <4>3. \A k \in 1 .. Len(v) : v[k] = v[1] + k - 1
        BY <4>2
      <4>4. c.cbe # Range(c.elements) => v[1] \in GOPStart
        BY <1>0, <1>1, <1>3, <3>2, <4>2
      <4>5. v[1] + Len(v) = n + 1
        BY <4>2
      <4> QED BY <2>2, <2>4, <3>1, <4>3, <4>4, <4>5 DEF RightUnits
    <3>3. CASE u # <<>>
      <4>1. Len(u) \in Nat \ {0}
        BY <1>4, <1>5, <3>3, EmptySeq
      <4>2. /\ \A k \in 1 .. Len(u) : u[k] = u[1] + k - 1
            /\ c.cbe # Range(c.elements) => u[1] \in GOPStart
            /\ u[1] + Len(u) = n
        BY <1>1, <1>3, <2>1, <2>4, <3>3 DEF RightUnits
      <4>3. u[1] \in Nat /\ v[1] = u[1]
        BY <1>4, <1>5, <4>1, ElementOfSeq
      <4>4. \A k \in 1 .. Len(v) : k \in 1 .. Len(u) \/ k = Len(u) + 1
        BY <1>5
      <4>5. ASSUME NEW k \in 1 .. Len(v) PROVE v[k] = v[1] + k - 1
        <5>1. CASE k \in 1 .. Len(u)
          BY <1>5, <4>2, <4>3, <5>1
        <5>2. CASE k = Len(u) + 1
          BY <1>5, <4>2, <4>3, <5>2
        <5> QED BY <4>4, <5>1, <5>2
      <4>6. v[1] + Len(v) = n + 1
        BY <1>5, <4>2, <4>3
      <4> QED BY <2>2, <2>4, <3>1, <4>2, <4>3, <4>5, <4>6 DEF RightUnits
    <3> QED BY <3>2, <3>3
  <2> QED BY <2>3, <2>4
<1>18. LaidOut(c, t, n + 1)
  <2>1. UnitsBefore(t, Len(t) + 1) = 0 .. ((n + 1) - 1)
    BY <1>12, <1>16
  <2> QED BY <1>12, <1>17, <2>1 DEF LaidOut
<1>19. v # <<>>
  BY <1>5
<1>20. /\ \A j \in 1 .. Len(list) : /\ t[j].offset = list[j].offset
                                   /\ t[j].index = list[j].index
       /\ t[Len(list)].essence # <<>>
  BY <1>1, <1>2, <1>13, <1>14, <1>19
<1>21. IsFile(t) /\ LaidOut(c, t, n + 1) /\ Len(t) = Len(list) /\ new = t
  BY <1>1, <1>11, <1>12, <1>18
<1> QED BY ONLY <1>20, <1>21 DEF TookUnit

-----------------------------------------------------------------------------
(* Steps that only decide what comes next.                                 *)

(* Whether there are packages, by the frames that the tracks have written. *)
LEMMA HaveSupplied ==
  /\ HavePackages(1) <=> Supplied(config, supplied, written + 1)
  /\ HavePackages(2) <=> Supplied(config, supplied, written + 2)
  BY DEF HavePackages, Supplied, Element, Elements

(* Fewer frames are there when more are.                                   *)
LEMMA FewerSupplied ==
  ASSUME FileTypeInv, NEW m \in Nat, NEW n \in Nat, m <= n, Supplied(config, supplied, n)
  PROVE  Supplied(config, supplied, m)
<1>1. \A e \in Range(config.elements) : supplied[e] \in Nat
  BY ConfigFacts DEF FileTypeInv, Element, Elements
<1> QED BY <1>1 DEF Supplied

(* What a step that leaves the table and the file alone keeps.             *)
Decides ==
  UNCHANGED <<config, cache, segments, firstSegment, duration, streamOffset, haveWritten,
              indexStatus, supplied, written, partitions>>

LEMMA Decided ==
  ASSUME LayoutInv, Decides
  PROVE  /\ config' = config /\ indexStatus' = indexStatus /\ duration' = duration
         /\ supplied' = supplied /\ written' = written /\ partitions' = partitions
         /\ segments' = segments /\ firstSegment' = firstSegment
         /\ streamOffset' = streamOffset /\ haveWritten' = haveWritten
         /\ PartitionsInv' /\ WaitingEntriesInv' = WaitingEntriesInv /\ SizesInv' = SizesInv
         /\ Open' = Open /\ MayStart' = MayStart /\ TableLength' = TableLength
         /\ IsFile(partitions)' /\ (supplied \in [Element -> 0 .. config.frames])'
         /\ (HavePackages(1) <=> HavePackages(1)') /\ (HavePackages(2) <=> HavePackages(2)')
<1>1. /\ config' = config /\ indexStatus' = indexStatus /\ duration' = duration
      /\ supplied' = supplied /\ written' = written /\ partitions' = partitions
      /\ segments' = segments /\ firstSegment' = firstSegment /\ cache' = cache
      /\ streamOffset' = streamOffset /\ haveWritten' = haveWritten
  BY DEF Decides
<1>2. IsCBE' = IsCBE /\ Element' = Element
  BY <1>1, SameConfig
<1>3. PartitionsInv' = PartitionsInv /\ WaitingEntriesInv' = WaitingEntriesInv
      /\ SizesInv' = SizesInv
  BY <1>1, Zenon DEF PartitionsInv, WaitingEntriesInv, SizesInv
<1>4. Open' = Open /\ MayStart' = MayStart
  BY <1>1, <1>2, Zenon DEF Open, MayStart
<1>5. TableLength' = TableLength
  BY <1>1, Zenon DEF TableLength, WritesMainSegment
<1>6. IsFile(partitions)' /\ (supplied \in [Element -> 0 .. config.frames])'
  BY <1>1, <1>2 DEF LayoutInv, FileTypeInv
<1>7. (HavePackages(1) <=> HavePackages(1)') /\ (HavePackages(2) <=> HavePackages(2)')
  BY <1>1, <1>2, Zenon DEF HavePackages
<1> QED BY <1>1, <1>3, <1>4, <1>5, <1>6, <1>7 DEF LayoutInv

(* The parts of the invariant, where nothing has failed, ...               *)
LEMMA Known ==
  ASSUME LayoutInv, indexStatus = "ok"
  PROVE  /\ config \in Configs /\ FileTypeInv /\ PartitionsInv
         /\ ProgressInv /\ WaitingEntriesInv /\ OpenInv
         /\ IsCBE => SizesInv /\ PromiseInv /\ PlacedInv
  BY DEF LayoutInv, FileTypeInv

(* ... and those that a decision may disturb.                              *)
LEMMA DecidedInv ==
  ASSUME LayoutInv, Decides, indexStatus = "ok", FileTypeInv', pc' # "misplaced",
         ProgressInv', OpenInv', IsCBE => PromiseInv' /\ PlacedInv'
  PROVE  LayoutInv'
<1>1. IsCBE' = IsCBE
  BY Decided, SameConfig
<1>2. /\ PartitionsInv' /\ WaitingEntriesInv' = WaitingEntriesInv /\ SizesInv' = SizesInv
  BY Decided
<1>3. WaitingEntriesInv /\ (IsCBE => SizesInv)
  BY Known
<1> QED BY <1>1, <1>2, <1>3 DEF LayoutInv

LEMMA StartFrameInv ==
  ASSUME LayoutInv, NEW e \in Element, StartFrame(e)
  PROVE  LayoutInv'
<1>1. Decides
  BY DEF StartFrame, Decides, indexVars
<1>2. /\ pc = "idle" /\ indexStatus = "ok" /\ track' = e /\ pc' = "track"
      /\ supplied[e] < config.frames
      /\ UNCHANGED <<firstWrite, waiting, frameCount, cbePartition, memoryOpen, footerOffset,
                     bodyOffset, endOfSamples>>
  BY DEF StartFrame
<1> USE <1>1, <1>2, Known, Decided, SameConfig
<1>3. FileTypeInv'
  BY DEF FileTypeInv, Places
<1>4. ProgressInv'
  BY DEF ProgressInv, Starting, Ending
<1>5. OpenInv'
  BY DEF OpenInv, Starting, Filling
<1>6. IsCBE => PromiseInv' /\ PlacedInv'
  BY DEF PromiseInv, PlacedInv, PairSettled, Starting, Filling, Ending
<1> QED BY <1>3, <1>4, <1>5, <1>6, DecidedInv

LEMMA LeaveLoopInv ==
  ASSUME LayoutInv, LeaveLoop
  PROVE  LayoutInv'
<1>1. Decides
  BY DEF LeaveLoop, Decides, indexVars
<1>2. /\ pc = "loop" /\ indexStatus = "ok" /\ pc' = IF endOfSamples THEN "end" ELSE "idle"
      /\ UNCHANGED <<firstWrite, waiting, frameCount, cbePartition, memoryOpen, footerOffset,
                     bodyOffset, track, endOfSamples>>
  BY DEF LeaveLoop
<1>3. endOfSamples => ~HavePackages(1)
  BY DEF LeaveLoop, Looping, WaitsForPair
<1> USE <1>1, <1>2, Known, Decided, SameConfig
<1>4. FileTypeInv'
  BY DEF FileTypeInv, Places
<1>5. ProgressInv'
  BY <1>3 DEF ProgressInv, Starting, Ending
<1>6. OpenInv'
  BY DEF OpenInv, Starting, Filling
<1>7. IsCBE => PromiseInv' /\ PlacedInv'
  BY <1>3 DEF PromiseInv, PlacedInv, PairSettled, Starting, Filling, Ending
<1> QED BY <1>4, <1>5, <1>6, <1>7, DecidedInv

(* Offsets in the essence are numbers.                                     *)
LEMMA StreamOffsetType ==
  ASSUME LayoutInv, indexStatus = "ok"
  PROVE  /\ streamOffset \in Nat /\ written \in 0 .. config.frames
         /\ SizeUpTo(config, written) \in Nat
<1>1. PICK e : e \in Element
  BY Known, ConfigFacts
<1>2. duration <= supplied[e] /\ supplied[e] \in 0 .. config.frames
  BY <1>1, Known DEF ProgressInv, Supplied, FileTypeInv, Element, Elements
<1>3. duration \in Nat /\ written \in Nat /\ written <= duration /\ config.frames \in Nat
  BY Known, ConfigFacts DEF FileTypeInv, ProgressInv
<1>4. duration \in 0 .. config.frames /\ written \in 0 .. config.frames
  BY <1>2, <1>3
<1> QED BY <1>4, Known, SizeFacts DEF ProgressInv

LEMMA FirstPackageInv ==
  ASSUME LayoutInv, FirstPackage
  PROVE  LayoutInv'
<1>1. Decides
  BY DEF FirstPackage, Decides, indexVars
<1>2. /\ pc = "loop" /\ indexStatus = "ok" /\ firstWrite /\ HavePackages(1) /\ ~WaitsForPair
      /\ firstWrite' = FALSE /\ bodyOffset' = streamOffset
      /\ pc' = IF IsCBE /\ ~config.follows THEN "preindex"
               ELSE IF MinPartitions THEN "essence" ELSE "partition"
      /\ UNCHANGED <<waiting, frameCount, cbePartition, memoryOpen, footerOffset, track,
                     endOfSamples>>
  BY DEF FirstPackage, Looping
<1> USE <1>1, <1>2, Known, Decided, SameConfig, ConfigFacts
<1>3. duration = 0 /\ written = 0 /\ streamOffset = SizeUpTo(config, 0) /\ streamOffset = 0
  BY SizeFacts DEF ProgressInv, FileTypeInv
<1>4. FileTypeInv'
  BY <1>3 DEF FileTypeInv, Places
<1>5. ProgressInv'
  BY <1>3 DEF ProgressInv, Starting, Ending
<1>6. MayStart
  BY <1>3, FileAssumption DEF MayStart
<1>7. OpenInv'
  BY <1>3, <1>6 DEF OpenInv, Starting, Filling
<1>8. endOfSamples \/ ~config.avci \/ ~IsCBE \/ Supplied(config, supplied, 2)
  BY <1>3, HaveSupplied DEF WaitsForPair, RequireIndexTableSegmentPair
<1>9. IsCBE => PromiseInv' /\ PlacedInv'
  BY <1>3, <1>8 DEF PromiseInv, PlacedInv, PairSettled, Starting, Filling, Ending
<1> QED BY <1>4, <1>5, <1>7, <1>9, DecidedInv

LEMMA WhileWaitingInv ==
  ASSUME LayoutInv, WhileWaiting
  PROVE  LayoutInv'
<1>1. Decides
  BY DEF WhileWaiting, Decides, indexVars
<1>2. /\ pc = "loop" /\ indexStatus = "ok" /\ ~firstWrite /\ waiting /\ HavePackages(1)
      /\ bodyOffset' = streamOffset
      /\ \/ waiting' = FALSE /\ pc' = "partition"
         \/ endOfSamples /\ waiting' = FALSE /\ pc' = "essence"
         \/ ~endOfSamples /\ waiting' = waiting /\ pc' \in {"failed", "idle"}
      /\ UNCHANGED <<firstWrite, frameCount, cbePartition, memoryOpen, footerOffset, track,
                     endOfSamples>>
  BY DEF WhileWaiting, Looping
<1> USE <1>1, <1>2, Known, Decided, SameConfig, ConfigFacts
<1>3. streamOffset \in Nat /\ (StartsApart(config) => streamOffset = SizeUpTo(config, written))
  BY StreamOffsetType DEF OpenInv, ProgressInv
<1>4. FileTypeInv'
  BY <1>3 DEF FileTypeInv, Places
<1>5. ProgressInv'
  BY DEF ProgressInv, Starting, Ending
<1>6. OpenInv'
  <2>1. CASE waiting' = FALSE /\ pc' = "partition"
    BY <1>3, <2>1 DEF OpenInv, Starting, Filling
  <2>2. CASE waiting' = FALSE /\ pc' = "essence"
    BY <1>3, <2>2 DEF OpenInv, Starting, Filling
  <2>3. CASE waiting' = waiting /\ pc' \in {"failed", "idle"}
    BY <1>3, <2>3 DEF OpenInv, Starting, Filling
  <2> QED BY <2>1, <2>2, <2>3
<1>7. written > 0 /\ duration > 0
  BY DEF ProgressInv, FileTypeInv, Starting
<1>8. IsCBE => PromiseInv' /\ PlacedInv'
  BY <1>7 DEF PromiseInv, PlacedInv, PairSettled, Starting, Filling, Ending
<1> QED BY <1>4, <1>5, <1>6, <1>8, DecidedInv

(* The entry that decides whether a partition may start is that of the     *)
(* next content package.                                                   *)
LEMMA CanStart ==
  ASSUME LayoutInv, indexStatus = "ok", HavePackages(1), duration = written, CanStartPartition
  PROVE  MayStart
<1> SUFFICES ASSUME ~IsCBE PROVE written \in GOPStart
  BY DEF MayStart
<1>1. PICK e \in Element : e \notin CBEElement
  BY Known, ConfigFacts DEF VBEElement
<1>2. cache[e][duration].canStart
  BY <1>1 DEF CanStartPartition
<1>3. supplied[e] >= written + 1 /\ supplied[e] \in Nat /\ written \in Nat
  BY <1>1, Known, ConfigFacts DEF HavePackages, FileTypeInv
<1>4. /\ DOMAIN cache[e] = written .. (supplied[e] - 1)
      /\ \A p \in DOMAIN cache[e] : cache[e][p].canStart = (p \in GOPStart)
  BY <1>1, Known DEF WaitingEntriesInv, Waits, Element, Elements, CBEElement
<1>5. written \in DOMAIN cache[e]
  BY <1>3, <1>4
<1> QED BY <1>2, <1>4, <1>5

LEMMA NextPackageInv ==
  ASSUME LayoutInv, NextPackage
  PROVE  LayoutInv'
<1>1. Decides
  BY DEF NextPackage, Decides, indexVars
<1>2. /\ pc = "loop" /\ indexStatus = "ok" /\ ~firstWrite /\ ~waiting /\ HavePackages(1)
      /\ bodyOffset' = streamOffset
      /\ \/ /\ StartsPartition /\ frameCount' = 0
            /\ \/ pc' = "partition" /\ waiting' = waiting
               \/ endOfSamples /\ pc' = "essence" /\ waiting' = waiting
               \/ ~endOfSamples /\ pc' = "idle" /\ waiting' = TRUE
         \/ pc' = "essence" /\ frameCount' = frameCount /\ waiting' = waiting
      /\ UNCHANGED <<firstWrite, cbePartition, memoryOpen, footerOffset, track, endOfSamples>>
  BY DEF NextPackage, Looping
<1> USE <1>1, <1>2, Known, Decided, SameConfig, ConfigFacts
<1>3. streamOffset \in Nat
  BY StreamOffsetType
<1>4. written > 0 /\ duration > 0
  BY DEF ProgressInv, FileTypeInv, Starting
<1>5. StartsPartition => ~MinPartitions /\ (StartsApart(config) => duration = written)
  <2> SUFFICES ASSUME StartsPartition
               PROVE  ~MinPartitions /\ (StartsApart(config) => duration = written)
    OBVIOUS
  <2>1. PartitionInterval > 0 /\ frameCount >= PartitionInterval
    BY DEF StartsPartition
  <2>2. IsCBE /\ ~config.follows /\ StartsApart(config) => written >= 2
    BY <2>1 DEF ProgressInv, FileTypeInv
  <2> QED BY <2>1, <2>2 DEF ProgressInv, FileTypeInv
<1>6. StartsPartition => MayStart
  <2>1. CASE IsCBE
    BY <2>1 DEF MayStart
  <2>2. CASE ~IsCBE
    <3>1. duration = written
      BY <2>2 DEF ProgressInv
    <3> QED BY <3>1, CanStart DEF StartsPartition
  <2> QED BY <2>1, <2>2
<1>7. FileTypeInv'
  <2>1. pc' \in {"partition", "essence", "idle"}
    BY ONLY <1>2
  <2>2. waiting' \in BOOLEAN
    <3>1. waiting \in BOOLEAN /\ waiting' \in {waiting, TRUE}
      BY <1>2, Zenon DEF FileTypeInv
    <3> QED BY ONLY <3>1, Zenon
  <2>3. frameCount' \in Nat
    <3>1. frameCount \in Nat /\ frameCount' \in {frameCount, 0}
      BY <1>2, Zenon DEF FileTypeInv
    <3> QED BY ONLY <3>1
  <2> QED BY <1>3, <2>1, <2>2, <2>3 DEF FileTypeInv, Places
<1>8. ProgressInv'
  BY DEF ProgressInv, Starting, Ending, FileTypeInv
<1>9. StartsApart(config) /\ duration = written => streamOffset = SizeUpTo(config, written)
  BY DEF ProgressInv
<1>10. OpenInv'
  <2>1. CASE StartsPartition /\ pc' = "partition" /\ waiting' = waiting
    BY <1>5, <1>6, <1>9, <2>1 DEF OpenInv, Starting, Filling
  <2>2. CASE pc' = "essence" /\ waiting' = waiting
    BY <1>9, <2>2 DEF OpenInv, Starting, Filling
  <2>3. CASE StartsPartition /\ pc' = "idle" /\ waiting' = TRUE
    BY <1>5, <1>6, <1>9, <2>3 DEF OpenInv, Starting, Filling
  <2> QED BY <2>1, <2>2, <2>3
<1>11. IsCBE => PromiseInv' /\ PlacedInv'
  BY <1>4 DEF PromiseInv, PlacedInv, PairSettled, Starting, Filling, Ending
<1> QED BY <1>7, <1>8, <1>10, <1>11, DecidedInv

LEMMA CompleteWriteInv ==
  ASSUME LayoutInv, CompleteWrite
  PROVE  LayoutInv'
<1>1. Decides
  BY DEF CompleteWrite, Decides, indexVars
<1>2. /\ pc = "idle" /\ indexStatus = "ok" /\ endOfSamples' = TRUE /\ pc' = "completing"
      /\ UNCHANGED <<firstWrite, waiting, frameCount, cbePartition, memoryOpen, footerOffset,
                     bodyOffset>>
  BY DEF CompleteWrite
<1> USE <1>1, <1>2, Known, Decided, SameConfig, ConfigFacts
<1>3. track' \in Element
  BY DEF CompleteWrite, FileTypeInv, VBEElement
<1>4. FileTypeInv'
  BY <1>3 DEF FileTypeInv, Places
<1>5. ProgressInv'
  BY DEF ProgressInv, Starting, Ending
<1>6. OpenInv'
  BY DEF OpenInv, Starting, Filling
<1>7. IsCBE => PromiseInv' /\ PlacedInv'
  BY DEF PromiseInv, PlacedInv, PairSettled, Starting, Filling, Ending, ProgressInv
<1> QED BY <1>4, <1>5, <1>6, <1>7, DecidedInv

LEMMA IgnoreEntriesInv ==
  ASSUME LayoutInv, IgnoreEntries
  PROVE  LayoutInv'
<1>1. Decides
  BY DEF IgnoreEntries, IgnoreRequiredUpdates, Decides
<1>2. /\ pc = "completing" /\ indexStatus = "ok" /\ pc' = "loop"
      /\ UNCHANGED <<firstWrite, waiting, frameCount, cbePartition, memoryOpen, footerOffset,
                     bodyOffset, track, endOfSamples>>
  BY DEF IgnoreEntries
<1> USE <1>1, <1>2, Known, Decided, SameConfig
<1>3. FileTypeInv'
  BY DEF FileTypeInv, Places
<1>4. ProgressInv'
  BY DEF ProgressInv, Starting, Ending
<1>5. OpenInv'
  BY DEF OpenInv, Starting, Filling
<1>6. IsCBE => PromiseInv' /\ PlacedInv'
  BY DEF PromiseInv, PlacedInv, PairSettled, Starting, Filling, Ending
<1> QED BY <1>3, <1>4, <1>5, <1>6, DecidedInv

LEMMA GiveUpPreviousGOPInv ==
  ASSUME LayoutInv, GiveUpPreviousGOP
  PROVE  LayoutInv'
<1>1. Decides
  BY DEF GiveUpPreviousGOP, IgnoreRequiredUpdates, Decides
<1>2. /\ pc = "track" /\ indexStatus = "ok"
      /\ UNCHANGED <<firstWrite, waiting, frameCount, cbePartition, memoryOpen, footerOffset,
                     bodyOffset, track, endOfSamples, pc>>
  BY DEF GiveUpPreviousGOP
<1> USE <1>1, <1>2, Known, Decided, SameConfig
<1>3. FileTypeInv'
  BY DEF FileTypeInv, Places
<1>4. ProgressInv'
  BY DEF ProgressInv, Starting, Ending
<1>5. OpenInv'
  BY DEF OpenInv, Starting, Filling
<1>6. IsCBE => PromiseInv' /\ PlacedInv'
  BY DEF PromiseInv, PlacedInv, PairSettled, Starting, Filling, Ending
<1> QED BY <1>3, <1>4, <1>5, <1>6, DecidedInv

(* The offset of the footer is that of all the edit units, while none has  *)
(* been written.                                                           *)
LEMMA FooterPromised ==
  ASSUME LayoutInv, indexStatus = "ok", SinglePass, memoryOpen
  PROVE  FooterOffset = SizeByTable(segments, firstSegment, InputDuration)
<1>1. /\ written = 0 /\ InputDuration \in Nat /\ IsCBE
      /\ config \in Configs
  BY Known, ConfigFacts DEF PromiseInv
<1>2. EssenceSize(written) = 0
  BY <1>1, SizeFacts DEF EssenceSize
<1>3. SizesInv
  BY <1>1, Known
<1>4. /\ segments[1].byteCount \in Nat
      /\ firstSegment # <<>> => firstSegment[1].byteCount \in Nat
  BY <1>3 DEF SizesInv, Sizes, IsUnits
<1> QED BY <1>1, <1>2, <1>4 DEF FooterOffset, SizeByTable, FirstSize, NonFirstSize

LEMMA EndSamplesInv ==
  ASSUME LayoutInv, EndSamples
  PROVE  LayoutInv'
<1>1. Decides
  BY DEF EndSamples, Decides, indexVars
<1>2. /\ pc = "end"
      /\ memoryOpen' = FALSE
      /\ footerOffset' = IF memoryOpen /\ SinglePass THEN FooterOffset ELSE footerOffset
      /\ pc' = IF SinglePass /\ duration # InputDuration THEN "failed" ELSE "index"
      /\ UNCHANGED <<firstWrite, waiting, frameCount, cbePartition, bodyOffset, track,
                     endOfSamples>>
  BY DEF EndSamples, CloseMemory
<1>3. FileTypeInv'
  <2>1. FileTypeInv
    BY DEF LayoutInv
  <2> QED BY <1>1, <1>2, <2>1, Decided DEF FileTypeInv, Places
<1>4. CASE indexStatus # "ok"
  BY <1>1, <1>2, <1>3, <1>4, Decided DEF LayoutInv
<1>5. CASE indexStatus = "ok"
  <2> USE <1>1, <1>2, <1>5, Known, Decided, SameConfig, ConfigFacts
  <2>1. ProgressInv'
    BY DEF ProgressInv, Starting, Ending
  <2>2. OpenInv'
    BY DEF OpenInv, Starting, Filling
  <2>3. SinglePass => footerOffset' = SizeByTable(segments, firstSegment, InputDuration)
    BY FooterPromised DEF PromiseInv
  <2>4. IsCBE => PromiseInv' /\ PlacedInv'
    BY <2>3 DEF PromiseInv, PlacedInv, PairSettled, Starting, Filling, Ending
  <2> QED BY <1>3, <2>1, <2>2, <2>4, DecidedInv
<1> QED BY <1>4, <1>5

-----------------------------------------------------------------------------
(* Steps of the tracks.                                                    *)

(* When the index table fails, nothing more is promised than how the file  *)
(* is laid out.                                                            *)
LEMMA FailedInv ==
  ASSUME indexStatus' # "ok", FileTypeInv', PartitionsInv', pc' # "misplaced"
  PROVE  LayoutInv'
  BY DEF LayoutInv

(* What a step leaves that only changes the entries, or their segments.    *)
Completes == UNCHANGED <<config, duration, streamOffset, haveWritten, fileVars>>

LEMMA CompletedFails ==
  ASSUME LayoutInv, Completes, indexStatus' \in {"failed", "undefined"}
  PROVE  LayoutInv'
<1>1. FileTypeInv /\ PartitionsInv /\ pc # "misplaced"
  BY DEF LayoutInv
<1>2. PartitionsInv'
  BY <1>1, Zenon DEF Completes, fileVars, PartitionsInv
<1>3. FileTypeInv'
  BY <1>1, SameConfig DEF Completes, fileVars, FileTypeInv, Statuses
<1>4. pc' # "misplaced"
  BY <1>1 DEF Completes, fileVars
<1> QED BY <1>2, <1>3, <1>4, FailedInv

LEMMA CompletedInv ==
  ASSUME LayoutInv, Completes, indexStatus = "ok", indexStatus' = "ok", ~IsCBE,
         WaitingEntriesInv'
  PROVE  LayoutInv'
<1> USE Known, SameConfig
<1>1. /\ config' = config /\ duration' = duration /\ streamOffset' = streamOffset
      /\ haveWritten' = haveWritten /\ supplied' = supplied /\ written' = written
      /\ partitions' = partitions /\ firstWrite' = firstWrite /\ waiting' = waiting
      /\ frameCount' = frameCount /\ cbePartition' = cbePartition /\ memoryOpen' = memoryOpen
      /\ footerOffset' = footerOffset /\ bodyOffset' = bodyOffset /\ track' = track
      /\ endOfSamples' = endOfSamples /\ pc' = pc
  BY DEF Completes, fileVars
<1>2. PartitionsInv'
  BY <1>1, Zenon DEF PartitionsInv
<1>3. FileTypeInv'
  BY <1>1 DEF FileTypeInv
<1>4. Open' = Open /\ MayStart' = MayStart
  <2>1. IsCBE' = IsCBE
    BY <1>1
  <2> QED BY <1>1, <2>1, Zenon DEF Open, MayStart
<1>5. HavePackages(1)' <=> HavePackages(1)
  BY <1>1, Zenon DEF HavePackages
<1>6. ProgressInv'
  BY <1>1, <1>5 DEF ProgressInv
<1>7. OpenInv'
  BY <1>1, <1>4 DEF OpenInv
<1>8. IsCBE' = IsCBE /\ pc' # "misplaced"
  BY <1>1 DEF LayoutInv
<1> QED BY <1>2, <1>3, <1>6, <1>7, <1>8 DEF LayoutInv

(* Whatever a track knows of an entry, it is one that is completed.         *)
LEMMA SomeEntryCompleted ==
  ASSUME NEW e, NEW p, CompletePictureEntry(e, p)
  PROVE  \E shown : UpdateIndexEntry(e, p, shown)
  BY DEF CompletePictureEntry, UpdateTemporalOffset

LEMMA CompleteEntryInv ==
  ASSUME LayoutInv, NEW p \in 0 .. (config.frames - 1), CompleteEntry(p)
  PROVE  LayoutInv'
<1>0. /\ pc \in {"track", "completing"} /\ indexStatus = "ok" /\ UNCHANGED fileVars
      /\ \E shown : UpdateIndexEntry(track, p, shown)
  BY SomeEntryCompleted DEF CompleteEntry
<1>1. PICK shown :
        /\ pc \in {"track", "completing"} /\ indexStatus = "ok" /\ UNCHANGED fileVars
        /\ UpdateIndexEntry(track, p, shown)
  BY <1>0
<1>2. Completes
  BY <1>1 DEF UpdateIndexEntry, IndexFails, Completes
<1>3. CASE indexStatus' \in {"failed", "undefined"}
  BY <1>2, <1>3, CompletedFails
<1>4. CASE indexStatus' \notin {"failed", "undefined"}
  <2>1. ~IsCBE /\ indexStatus' = indexStatus
    BY <1>1, <1>4 DEF UpdateIndexEntry, IndexFails
  <2>2. \/ cache' = cache
        \/ /\ p \in DOMAIN cache[track]
           /\ cache' = [cache EXCEPT ![track][p] = CacheEntry(shown, @.canStart)]
    BY <1>1, <1>4 DEF UpdateIndexEntry, IndexFails
  <2>3. config' = config /\ written' = written /\ supplied' = supplied
    BY <1>2 DEF Completes, fileVars
  <2>4. WaitingEntriesInv
    BY <1>1, Known
  <2>5. CASE cache' = cache
    <3>1. WaitingEntriesInv'
      BY <2>3, <2>4, <2>5, Zenon DEF WaitingEntriesInv
    <3> QED BY <1>1, <1>2, <2>1, <3>1, CompletedInv
  <2>6. CASE /\ p \in DOMAIN cache[track]
             /\ cache' = [cache EXCEPT ![track][p] = CacheEntry(shown, @.canStart)]
    <3>1. track \in DOMAIN cache /\ DOMAIN cache = Range(config.elements)
      BY <1>1, <2>4, Known DEF WaitingEntriesInv, Waits, FileTypeInv, Element, Elements
    <3>2. PICK c : c = CacheEntry(shown, cache[track][p].canStart)
      OBVIOUS
    <3>3. c.canStart = cache[track][p].canStart
      BY <3>2 DEF CacheEntry
    <3>4. cache' = [cache EXCEPT ![track] = [cache[track] EXCEPT ![p] = c]]
      BY <2>6, <3>2, Zenon
    <3>5. /\ DOMAIN cache' = DOMAIN cache
          /\ \A e \in DOMAIN cache :
               /\ DOMAIN cache'[e] = DOMAIN cache[e]
               /\ \A q \in DOMAIN cache[e] : cache'[e][q].canStart = cache[e][q].canStart
      BY <2>6, <3>1, <3>3, <3>4
    <3>6. Waits(config, cache', written, supplied)
      BY <2>4, <3>1, <3>5 DEF WaitingEntriesInv, Waits
    <3>7. WaitingEntriesInv'
      BY <2>3, <3>6, Zenon DEF WaitingEntriesInv
    <3> QED BY <1>1, <1>2, <2>1, <3>7, CompletedInv
  <2> QED BY <2>2, <2>5, <2>6
<1> QED BY <1>3, <1>4

LEMMA WriteFrameInv ==
  ASSUME LayoutInv, NEW complete \in BOOLEAN, WriteFrame(complete)
  PROVE  LayoutInv'
<1>1. /\ pc = "track" /\ indexStatus = "ok"
      /\ UNCHANGED <<written, partitions, firstWrite, waiting, frameCount, cbePartition,
                     memoryOpen, footerOffset, bodyOffset, track, endOfSamples>>
  BY DEF WriteFrame
<1> USE <1>1, Known, ConfigFacts
<1>2. config' = config /\ duration' = duration /\ streamOffset' = streamOffset
      /\ haveWritten' = haveWritten /\ indexStatus' \in {"ok", "failed"}
  BY DEF WriteFrame, IndexFails, AddIndexEntry, indexVars
<1>3. IsCBE' = IsCBE /\ Element' = Element /\ MinPartitions' = MinPartitions
      /\ SinglePass' = SinglePass /\ InputDuration' = InputDuration
  BY <1>2, SameConfig
<1>4. PartitionsInv'
  BY <1>2, Zenon DEF PartitionsInv
<1>5. CASE NoRoom(track)
  <2>1. indexStatus' = "failed" /\ pc' = "failed" /\ supplied' = supplied
    BY <1>5 DEF WriteFrame, IndexFails
  <2>2. FileTypeInv'
    BY <1>2, <1>3, <2>1 DEF FileTypeInv, Statuses, Places
  <2> QED BY <1>4, <2>1, <2>2, FailedInv
<1>6. CASE ~NoRoom(track)
  <2>1. /\ supplied' = [supplied EXCEPT ![track] = @ + 1] /\ pc' = "loop"
        /\ IF track \in VBEElement
             THEN AddIndexEntry(track, supplied[track],
                    IF complete THEN Final[supplied[track]]
                                ELSE IncompleteEntry(supplied[track], DefaultKey),
                    supplied[track] \in GOPStart, ~complete)
             ELSE UNCHANGED indexVars
    BY <1>6 DEF WriteFrame
  <2>2. /\ supplied \in [Element -> 0 .. config.frames] /\ track \in Element
        /\ supplied[track] < config.frames /\ config.frames \in Nat
    BY DEF FileTypeInv, ProgressInv
  <2>3. /\ supplied' \in [Element -> 0 .. config.frames]
        /\ \A e \in Element : supplied'[e] >= supplied[e] /\ supplied'[e] \in Nat
        /\ \A e \in Element : e # track => supplied'[e] = supplied[e]
        /\ supplied'[track] = supplied[track] + 1
    BY <2>1, <2>2
  <2>4. FileTypeInv'
    BY <1>2, <1>3, <2>1, <2>3 DEF FileTypeInv, Statuses, Places
  <2>5. CASE indexStatus' = "failed"
    BY <1>4, <2>1, <2>4, <2>5, FailedInv
  <2>6. CASE indexStatus' = "ok"
    <3>1. Supplied(config, supplied', duration)
      <4>1. \A e \in Element : supplied[e] >= duration /\ supplied[e] \in Nat /\ duration \in Nat
        BY DEF ProgressInv, Supplied, FileTypeInv, Element, Elements
      <4>2. \A e \in Element : supplied'[e] >= duration
        BY <2>3, <4>1
      <4> QED BY <4>2 DEF Supplied, Element, Elements
    <3>2. ProgressInv'
      BY <1>2, <1>3, <2>1, <3>1 DEF ProgressInv, Starting, Ending
    <3>3. Open' = Open /\ MayStart' = MayStart
      BY <1>3, Zenon DEF Open, MayStart
    <3>4. OpenInv'
      BY <1>2, <1>3, <2>1, <3>3 DEF OpenInv, Starting, Filling
    <3>5. DOMAIN cache = Element /\ written <= supplied[track] /\ written \in Nat
      BY DEF WaitingEntriesInv, Waits, ProgressInv, Supplied, FileTypeInv, Element, Elements
    <3>6. WaitingEntriesInv'
      <4>1. /\ DOMAIN cache' = Element
            /\ \A e \in Element \ {track} : cache'[e] = cache[e]
            /\ track \in VBEElement =>
                 \E entry : /\ cache'[track] = CacheWith(track, supplied[track], entry)
                           /\ entry.canStart = (supplied[track] \in GOPStart)
        <5>1. CASE track \notin VBEElement
          BY <2>1, <3>5, <5>1 DEF indexVars
        <5>2. CASE track \in VBEElement
          <6>1. PICK shown : shown = IF complete THEN Final[supplied[track]]
                                     ELSE IncompleteEntry(supplied[track], DefaultKey)
            OBVIOUS
          <6>2. PICK entry : entry = CacheEntry(shown, supplied[track] \in GOPStart)
            OBVIOUS
          <6>3. cache' = [cache EXCEPT ![track] = CacheWith(track, supplied[track], entry)]
            BY <2>1, <2>6, <5>2, <6>1, <6>2 DEF AddIndexEntry, IndexFails
          <6>4. entry.canStart = (supplied[track] \in GOPStart)
            BY <6>2 DEF CacheEntry
          <6>5. DOMAIN cache' = Element /\ \A e \in Element \ {track} : cache'[e] = cache[e]
            BY <3>5, <6>3
          <6>6. cache'[track] = CacheWith(track, supplied[track], entry)
            BY <2>2, <3>5, <6>3
          <6> QED BY <6>4, <6>5, <6>6, Zenon
        <5> QED BY <5>1, <5>2
      <4>2. ASSUME NEW e \in Range(config.elements) \ config.cbe
            PROVE  /\ DOMAIN cache'[e] = written .. (supplied'[e] - 1)
                   /\ \A p \in DOMAIN cache'[e] : cache'[e][p].canStart = (p \in GOPStart)
        <5>1. e \in VBEElement /\ e \in Element
          BY DEF VBEElement, Element, Elements, CBEElement
        <5>2. /\ DOMAIN cache[e] = written .. (supplied[e] - 1)
              /\ \A p \in DOMAIN cache[e] : cache[e][p].canStart = (p \in GOPStart)
          BY DEF WaitingEntriesInv, Waits
        <5>3. CASE e # track
          BY <2>3, <4>1, <5>1, <5>2, <5>3
        <5>4. CASE e = track
          <6>1. PICK entry : /\ cache'[e] = CacheWith(e, supplied[e], entry)
                             /\ entry.canStart = (supplied[e] \in GOPStart)
            BY <4>1, <5>1, <5>4
          <6>2. /\ DOMAIN cache'[e] = DOMAIN cache[e] \cup {supplied[e]}
                /\ \A p \in DOMAIN cache'[e] :
                     cache'[e][p] = IF p = supplied[e] THEN entry ELSE cache[e][p]
            BY <6>1 DEF CacheWith
          <6>3. (written .. (supplied[e] - 1)) \cup {supplied[e]} = written .. (supplied'[e] - 1)
            <7>1. PICK s, n : s = supplied[e] /\ n = supplied'[e]
              OBVIOUS
            <7>2. s \in Nat /\ n = s + 1 /\ written \in Nat /\ written <= s
              BY <2>2, <2>3, <3>5, <5>4, <7>1
            <7>3. (written .. (s - 1)) \cup {s} = written .. (n - 1)
              BY ONLY <7>2
            <7> QED BY <7>1, <7>3
          <6>4. DOMAIN cache'[e] = written .. (supplied'[e] - 1)
            <7>1. DOMAIN cache'[e] = (written .. (supplied[e] - 1)) \cup {supplied[e]}
              BY <5>2, <6>2, Zenon
            <7> QED BY ONLY <6>3, <7>1, Zenon
          <6>5. ASSUME NEW p \in DOMAIN cache'[e]
                PROVE  cache'[e][p].canStart = (p \in GOPStart)
            BY <5>2, <6>1, <6>2, <6>5, Zenon
          <6> QED BY <6>4, <6>5
        <5> QED BY <5>3, <5>4
      <4>3. Waits(config, cache', written, supplied')
        BY <4>1, <4>2 DEF Waits, Element, Elements
      <4> QED BY <1>2, <4>3, Zenon DEF WaitingEntriesInv
    <3>7. CASE ~IsCBE
      BY <1>3, <1>4, <2>1, <2>4, <3>2, <3>4, <3>6, <3>7 DEF LayoutInv
    <3>8. CASE IsCBE
      <4>1. UNCHANGED indexVars
        BY <2>1, <3>8
      <4>2. segments' = segments /\ firstSegment' = firstSegment
        BY <4>1 DEF indexVars
      <4>3. SizesInv'
        BY <1>2, <3>8, <4>2, Zenon DEF SizesInv
      <4>4. TableLength' = TableLength
        BY <1>2, <4>2, Zenon DEF TableLength, WritesMainSegment
      <4>5. PairSettled => PairSettled'
        BY <1>2, <3>2, <4>2 DEF PairSettled, ProgressInv
      <4>6. PromiseInv'
        BY <1>2, <1>3, <2>1, <3>8, <4>2, <4>5 DEF PromiseInv, Starting, Filling, Ending
      <4>7. PlacedInv'
        BY <1>2, <1>3, <2>1, <3>8, <4>2, <4>4, <4>5 DEF PlacedInv, Ending
      <4> QED BY <1>3, <1>4, <2>1, <2>4, <3>2, <3>4, <3>6, <4>3, <4>6, <4>7 DEF LayoutInv
    <3> QED BY <3>7, <3>8
  <2> QED BY <1>2, <2>5, <2>6
<1> QED BY <1>5, <1>6

-----------------------------------------------------------------------------
(* Edit units of a constant table.                                         *)

(* What Extend, WithDeltas and a new start make of a segment.              *)
LEMMA UnitsExtended ==
  ASSUME NEW s, IsUnits(s), NEW size \in Nat, NEW n \in Nat
  PROVE  IsUnits(Extend(s, size, n)) /\ Extend(s, size, n).byteCount = size
<1>1. PICK d \in Nat : d = s.duration
  BY DEF IsUnits
<1>2. PICK start, ds, es : start = s.start /\ ds = s.deltas /\ es = s.entries
  OBVIOUS
<1>3. PICK e \in Nat : e = d + n
  OBVIOUS
<1>4. PICK x : x = [s EXCEPT !.byteCount = size]
  OBVIOUS
<1>5. x = [start |-> start, duration |-> d, byteCount |-> size, deltas |-> ds, entries |-> es]
  BY <1>1, <1>2, <1>4 DEF IsUnits
<1>6. [x EXCEPT !.duration = e]
        = [start |-> start, duration |-> e, byteCount |-> size, deltas |-> ds, entries |-> es]
  BY <1>5
<1>7. Extend(s, size, n)
        = [start |-> start, duration |-> e, byteCount |-> size, deltas |-> ds, entries |-> es]
  BY <1>1, <1>3, <1>4, <1>6, Zenon DEF Extend
<1> QED BY <1>7 DEF IsUnits

LEMMA UnitsWithDeltas ==
  ASSUME NEW s, IsUnits(s), NEW sizes
  PROVE  IsUnits(WithDeltas(s, sizes)) /\ WithDeltas(s, sizes).byteCount = s.byteCount
<1>1. PICK t : t = WithDeltas(s, sizes)
  OBVIOUS
<1>2. PICK ds : t = [s EXCEPT !.deltas = ds]
  <2>1. s = [s EXCEPT !.deltas = s.deltas]
    BY DEF IsUnits
  <2> QED BY <1>1, <2>1 DEF WithDeltas
<1>3. t = [start |-> s.start, duration |-> s.duration, byteCount |-> s.byteCount,
           deltas |-> ds, entries |-> s.entries]
  BY <1>2 DEF IsUnits
<1>4. s.byteCount \in Nat /\ s.duration \in Nat
  BY DEF IsUnits
<1> QED BY <1>1, <1>3, <1>4 DEF IsUnits

LEMMA UnitsMoved ==
  ASSUME NEW s, IsUnits(s), NEW start
  PROVE  IsUnits([s EXCEPT !.start = start]) /\ [s EXCEPT !.start = start].byteCount = s.byteCount
<1>1. [s EXCEPT !.start = start]
        = [start |-> start, duration |-> s.duration, byteCount |-> s.byteCount,
           deltas |-> s.deltas, entries |-> s.entries]
  BY DEF IsUnits
<1>2. s.byteCount \in Nat /\ s.duration \in Nat
  BY DEF IsUnits
<1> QED BY <1>1, <1>2 DEF IsUnits

(* What the size of the essence is for one edit unit more.                 *)
LEMMA OneUnitMore ==
  ASSUME NEW c \in Configs, NEW segs, NEW first, NEW n \in 0 .. (c.frames - 1),
         Sizes(c, segs, first, n), NEW size, size = ContentPackageSize(c.sizes[n]),
         NEW s, IsUnits(s), NEW newFirst,
         \/ /\ n = 0 /\ first # <<>> /\ s.byteCount = segs[1].byteCount
            /\ \E f : newFirst = <<f>> /\ IsUnits(f) /\ f.byteCount = size
         \/ /\ ~(n = 0 /\ first # <<>>) /\ s.byteCount = size /\ segs[1].byteCount \in {0, size}
            /\ \/ newFirst = first
               \/ n = 1 /\ first # <<>> /\ first[1].byteCount = size /\ newFirst = <<>>
  PROVE  Sizes(c, <<s>>, newFirst, n + 1) /\ SizeUpTo(c, n + 1) = SizeUpTo(c, n) + size
<1>1. /\ size \in Nat /\ size > 0 /\ SizeUpTo(c, n) \in Nat
      /\ SizeUpTo(c, n + 1) = SizeUpTo(c, n) + size
      /\ SizeUpTo(c, 0) = 0
  BY SizeFacts
<1>2. n \in Nat /\ c.frames \in Nat
  <2>1. c.frames \in Nat
    BY FileAssumption
  <2> QED BY <2>1
<1>3. PICK b : b = segs[1].byteCount
  OBVIOUS
<1>4. b \in Nat
  BY <1>3 DEF Sizes, IsUnits
<1>5. /\ <<s>>[1] = s /\ <<s>> = <<<<s>>[1]>> /\ IsUnits(<<s>>[1])
  OBVIOUS
<1>6. first # <<>> => Len(first) = 1 /\ IsUnits(first[1]) /\ c.avci
  <2> SUFFICES ASSUME first # <<>> PROVE Len(first) = 1 /\ IsUnits(first[1]) /\ c.avci
    OBVIOUS
  <2>1. first = <<first[1]>> /\ IsUnits(first[1]) /\ c.avci
    BY DEF Sizes
  <2>2. Len(<<first[1]>>) = 1
    OBVIOUS
  <2> QED BY <2>1, <2>2
<1>7. Len(<<>>) = 0
  OBVIOUS
<1>8. /\ n = 0 => b = 0 /\ (first # <<>> => first[1].byteCount = 0)
      /\ n > 0 => IF first # <<>> THEN first[1].byteCount > 0 ELSE b > 0
      /\ b > 0 <=> n > Len(first)
      /\ SizeUpTo(c, n) = IF n = 0 THEN 0
                          ELSE (IF first # <<>> THEN first[1].byteCount ELSE b) + (n - 1) * b
  BY <1>3, Zenon DEF Sizes, FirstSize, NonFirstSize, SizeByTable
<1>9. CASE n = 0 /\ first # <<>>
  <2>1. PICK f : newFirst = <<f>> /\ IsUnits(f) /\ f.byteCount = size
    BY <1>9
  <2>2. s.byteCount = 0
    BY <1>3, <1>8, <1>9
  <2>3. newFirst # <<>> /\ newFirst[1] = f /\ Len(newFirst) = 1 /\ newFirst = <<newFirst[1]>>
    BY <2>1
  <2>4. FirstSize(<<s>>, newFirst) = size /\ NonFirstSize(<<s>>) = 0
    BY <1>5, <2>1, <2>2, <2>3 DEF FirstSize, NonFirstSize
  <2>5. SizeByTable(<<s>>, newFirst, 1) = size /\ SizeUpTo(c, 1) = size
    BY <1>1, <1>9, <2>4 DEF SizeByTable
  <2>6. ~(NonFirstSize(<<s>>) > 0) /\ ~(1 > Len(newFirst)) /\ n + 1 = 1
    BY <1>9, <2>3, <2>4
  <2>7. newFirst # <<>> => newFirst = <<newFirst[1]>> /\ IsUnits(newFirst[1]) /\ c.avci
    BY <1>6, <1>9, <2>1, <2>3
  <2>8. 1 > 0 /\ 1 # 0 /\ FirstSize(<<s>>, newFirst) > 0
    BY <1>1, <2>4
  <2> QED BY <1>1, <1>5, <2>5, <2>6, <2>7, <2>8, Zenon DEF Sizes
<1>10. CASE ~(n = 0 /\ first # <<>>)
  <2>1. /\ s.byteCount = size /\ b \in {0, size}
        /\ \/ newFirst = first
           \/ n = 1 /\ first # <<>> /\ first[1].byteCount = size /\ newFirst = <<>>
    BY <1>3, <1>10
  <2>2. newFirst # <<>> => newFirst = <<newFirst[1]>> /\ IsUnits(newFirst[1]) /\ c.avci
    <3> SUFFICES ASSUME newFirst # <<>>
                 PROVE  newFirst = <<newFirst[1]>> /\ IsUnits(newFirst[1]) /\ c.avci
      OBVIOUS
    <3>1. newFirst = first
      BY <2>1
    <3> QED BY <3>1, Zenon DEF Sizes
  <2>3. NonFirstSize(<<s>>) = size
    BY <1>5, <2>1 DEF NonFirstSize
  <2>4. n + 1 > Len(newFirst)
    <3>1. CASE newFirst = <<>>
      BY <1>2, <1>7, <3>1
    <3>2. CASE newFirst # <<>>
      <4>1. newFirst = first /\ first # <<>>
        BY <2>1, <3>2
      <4>2. Len(newFirst) = 1 /\ n # 0
        BY <1>6, <1>10, <4>1
      <4> QED BY <1>2, <4>2
    <3> QED BY <3>1, <3>2
  <2>5. PICK g : g = FirstSize(<<s>>, newFirst)
    OBVIOUS
  <2>6. g \in Nat /\ g > 0 /\ SizeUpTo(c, n + 1) = g + n * size
    <3>1. CASE newFirst = <<>>
      <4>1. g = size
        BY <2>3, <2>5, <3>1 DEF FirstSize
      <4>2. CASE first = <<>>
        <5>1. n > 0 => b = size
          BY <1>1, <1>2, <1>4, <1>7, <1>8, <2>1, <4>2
        <5>2. CASE n = 0
          BY <1>1, <1>8, <4>1, <5>2
        <5>3. CASE n > 0
          <6>1. SizeUpTo(c, n) = size + (n - 1) * size
            BY <1>8, <4>2, <5>1, <5>3
          <6>2. size + (n - 1) * size + size = size + n * size
            BY <1>1, <1>2, <5>3
          <6> QED BY <1>1, <4>1, <6>1, <6>2
        <5> QED BY <1>2, <5>2, <5>3
      <4>3. CASE first # <<>>
        <5>1. n = 1 /\ first[1].byteCount = size
          BY <2>1, <3>1, <4>3
        <5>2. SizeUpTo(c, n) = size + (1 - 1) * b
          BY <1>8, <4>3, <5>1
        <5> QED BY <1>1, <1>4, <4>1, <5>1, <5>2
      <4> QED BY <4>2, <4>3
    <3>2. CASE newFirst # <<>>
      <4>1. newFirst = first /\ first # <<>>
        BY <2>1, <3>2
      <4>2. n > 0 /\ Len(first) = 1
        BY <1>2, <1>6, <1>10, <4>1
      <4>3. g = first[1].byteCount /\ g \in Nat /\ g > 0
        BY <1>6, <1>8, <2>5, <4>1, <4>2 DEF FirstSize, IsUnits
      <4>4. SizeUpTo(c, n) = g + (n - 1) * b
        BY <1>8, <4>1, <4>2, <4>3
      <4>5. (n - 1) * b = (n - 1) * size
        <5>1. CASE n = 1
          BY <1>1, <1>4, <5>1
        <5>2. CASE n > 1
          BY <1>4, <1>8, <2>1, <4>2, <5>2
        <5> QED BY <1>2, <4>2, <5>1, <5>2
      <4>6. (n - 1) * size + size = n * size
        BY <1>1, <1>2
      <4>7. PICK m, k : m = (n - 1) * size /\ k = n * size
        OBVIOUS
      <4>8. m \in Int /\ k \in Int /\ m + size = k /\ SizeUpTo(c, n) = g + m
        <5>1. m \in Int /\ k \in Int
          BY ONLY <1>1, <1>2, <4>7
        <5>2. SizeUpTo(c, n) = g + m
          BY ONLY <4>4, <4>5, <4>7, Zenon
        <5> QED BY <4>6, <4>7, <5>1, <5>2
      <4>9. SizeUpTo(c, n + 1) = g + k
        BY ONLY <1>1, <4>3, <4>8
      <4> QED BY <4>3, <4>7, <4>9
    <3> QED BY <3>1, <3>2
  <2>7. SizeByTable(<<s>>, newFirst, n + 1) = g + n * size
    <3>1. n + 1 # 0 /\ (n + 1) - 1 = n
      BY <1>2
    <3> QED BY <2>3, <2>5, <3>1 DEF SizeByTable
  <2>8. n + 1 # 0 /\ (NonFirstSize(<<s>>) > 0 <=> n + 1 > Len(newFirst))
    BY <1>1, <1>2, <2>3, <2>4
  <2> QED BY <1>1, <1>5, <2>2, <2>5, <2>6, <2>7, <2>8, Zenon DEF Sizes
<1> QED BY <1>9, <1>10

(* UpdateIndex for the next edit unit of a constant table.                 *)
LEMMA ConstantUnitSized ==
  ASSUME LayoutInv, indexStatus = "ok", IsCBE, indexStatus' = "ok",
         Supplied(config, supplied, duration + 1), UpdateIndex(config.sizes[duration])
  PROVE  /\ config' = config /\ cache' = cache /\ haveWritten' = haveWritten
         /\ duration' = duration + 1 /\ streamOffset' = SizeUpTo(config, duration + 1)
         /\ SizesInv'
         /\ firstSegment = <<>> => firstSegment' = <<>>
         /\ duration > 1 => firstSegment' = firstSegment
         /\ duration > 1 \/ (duration = 1 /\ firstSegment = <<>>) =>
              \A n : SizeByTable(segments', firstSegment', n) = SizeByTable(segments, firstSegment, n)
<1>1. PICK sizes, size : sizes = config.sizes[duration] /\ size = ContentPackageSize(sizes)
  OBVIOUS
<1>2. /\ ~(indexStatus' = "failed")
      /\ UpdateIndex(sizes)
  BY <1>1
<1>3. /\ ~CBEIndexFails(sizes)
      /\ UpdateCBEIndex(sizes) /\ cache' = cache
      /\ duration' = duration + 1 /\ streamOffset' = streamOffset + size
      /\ config' = config /\ haveWritten' = haveWritten
  BY <1>1, <1>2 DEF UpdateIndex, IndexFails
<1>4. config \in Configs /\ SizesInv /\ streamOffset = SizeUpTo(config, duration)
  BY Known DEF ProgressInv
<1>5. duration \in 0 .. (config.frames - 1)
  <2>1. PICK e : e \in Element
    BY <1>4, ConfigFacts
  <2>2. supplied[e] >= duration + 1 /\ supplied[e] \in 0 .. config.frames
    BY <2>1, Known DEF Supplied, FileTypeInv, Element, Elements
  <2>3. duration \in Nat /\ config.frames \in Nat
    BY <1>4, Known, ConfigFacts DEF FileTypeInv
  <2> QED BY <2>2, <2>3
<1>6. size \in Nat /\ size > 0
  BY <1>1, <1>4, <1>5, SizeFacts
<1>7. /\ IsUnits(segments[1])
      /\ firstSegment # <<>> => IsUnits(firstSegment[1])
  BY <1>4 DEF SizesInv, Sizes
<1>8. PICK d : d = duration
  OBVIOUS
<1>9. CASE duration = 0 /\ firstSegment # <<>>
  <2>1. PICK f, s : /\ f = Extend(WithDeltas(firstSegment[1], sizes), size, 1)
                    /\ s = [segments[1] EXCEPT !.start = 1]
    OBVIOUS
  <2>2. firstSegment' = <<f>> /\ segments' = <<s>>
    BY <1>1, <1>3, <1>9, <2>1, Zenon DEF UpdateCBEIndex
  <2>3. IsUnits(f) /\ f.byteCount = size
    <3>1. PICK x : x = WithDeltas(firstSegment[1], sizes)
      OBVIOUS
    <3>2. IsUnits(x)
      BY <1>7, <1>9, <3>1, UnitsWithDeltas
    <3> QED BY <1>6, <2>1, <3>1, <3>2, UnitsExtended
  <2>4. IsUnits(s) /\ s.byteCount = segments[1].byteCount
    BY <1>7, <2>1, UnitsMoved
  <2>5. /\ Sizes(config, <<s>>, <<f>>, d + 1)
        /\ SizeUpTo(config, d + 1) = SizeUpTo(config, d) + size
    <3>1. d = 0 /\ firstSegment # <<>> /\ s.byteCount = segments[1].byteCount
      BY <1>8, <1>9, <2>4
    <3>2. PICK nf : nf = <<f>>
      OBVIOUS
    <3>3. \E x : nf = <<x>> /\ IsUnits(x) /\ x.byteCount = size
      BY <2>3, <3>2
    <3>4. Sizes(config, segments, firstSegment, d) /\ d \in 0 .. (config.frames - 1)
          /\ size = ContentPackageSize(config.sizes[d])
      BY <1>1, <1>4, <1>5, <1>8 DEF SizesInv
    <3> QED BY <1>4, <2>4, <3>1, <3>2, <3>3, <3>4, OneUnitMore
  <2>6. SizesInv'
    BY <1>3, <1>8, <2>2, <2>5, Zenon DEF SizesInv
  <2> QED BY <1>3, <1>4, <1>8, <1>9, <2>5, <2>6
<1>10. CASE ~(duration = 0 /\ firstSegment # <<>>)
  <2>1. PICK k, start : /\ k = MergedUnits(sizes)
                        /\ start = IF DropsFirst(sizes) THEN 0 ELSE segments[1].start
    OBVIOUS
  <2>2. k \in Nat
    BY <2>1 DEF MergedUnits
  <2>3. PICK x : x = WithDeltas(segments[1], sizes)
    OBVIOUS
  <2>4. PICK r : r = Extend(x, size, k)
    OBVIOUS
  <2>5. PICK s : s = [r EXCEPT !.start = IF DropsFirst(sizes) THEN 0 ELSE r.start]
    OBVIOUS
  <2>6. segments' = <<s>>
    BY <1>1, <1>3, <1>10, <2>1, <2>3, <2>4, <2>5, Zenon DEF UpdateCBEIndex
  <2>7. firstSegment' = IF DropsFirst(sizes) THEN <<>> ELSE firstSegment
    BY <1>3, <1>10, Zenon DEF UpdateCBEIndex
  <2>8. IsUnits(s) /\ s.byteCount = size
    <3>1. IsUnits(x)
      BY <1>7, <2>3, UnitsWithDeltas
    <3>2. IsUnits(r) /\ r.byteCount = size
      BY <1>6, <2>2, <2>4, <3>1, UnitsExtended
    <3>3. PICK v : v = IF DropsFirst(sizes) THEN 0 ELSE r.start
      OBVIOUS
    <3>4. s = [r EXCEPT !.start = v]
      BY <2>5, <3>3
    <3> QED BY <3>2, <3>4, UnitsMoved
  <2>9. segments[1].byteCount \in {0, size}
    BY <1>1, <1>3, <1>10 DEF CBEIndexFails, CannotExtend
  <2>10. /\ DropsFirst(sizes) <=> /\ duration = 1 /\ firstSegment # <<>>
                                  /\ firstSegment[1].byteCount = size
    BY <1>1 DEF DropsFirst
  <2>11. PICK nf : nf = firstSegment'
    OBVIOUS
  <2>12. nf = firstSegment \/ (/\ d = 1 /\ firstSegment # <<>>
                               /\ firstSegment[1].byteCount = size /\ nf = <<>>)
    BY <1>8, <2>7, <2>10, <2>11
  <2>13. /\ Sizes(config, <<s>>, nf, d + 1)
         /\ SizeUpTo(config, d + 1) = SizeUpTo(config, d) + size
    <3>1. Sizes(config, segments, firstSegment, d) /\ d \in 0 .. (config.frames - 1)
          /\ size = ContentPackageSize(config.sizes[d])
      BY <1>1, <1>4, <1>5, <1>8 DEF SizesInv
    <3>2. ~(d = 0 /\ firstSegment # <<>>)
      BY <1>8, <1>10
    <3>3. PICK c, ss, fs : c = config /\ ss = segments /\ fs = firstSegment
      OBVIOUS
    <3>4. /\ c \in Configs /\ d \in 0 .. (c.frames - 1) /\ Sizes(c, ss, fs, d)
          /\ size = ContentPackageSize(c.sizes[d])
      BY <1>4, <3>1, <3>3
    <3>5. /\ ~(d = 0 /\ fs # <<>>) /\ s.byteCount = size /\ ss[1].byteCount \in {0, size}
          /\ nf = fs \/ (d = 1 /\ fs # <<>> /\ fs[1].byteCount = size /\ nf = <<>>)
      BY <2>8, <2>9, <2>12, <3>2, <3>3
    <3>6. /\ Sizes(c, <<s>>, nf, d + 1)
          /\ SizeUpTo(c, d + 1) = SizeUpTo(c, d) + size
      BY ONLY <2>8, <3>4, <3>5, OneUnitMore
    <3> QED BY <3>3, <3>6
  <2>14. SizesInv'
    BY <1>3, <1>8, <2>6, <2>11, <2>13, Zenon DEF SizesInv
  <2>15. ASSUME duration > 1 \/ (duration = 1 /\ firstSegment = <<>>), NEW n
         PROVE  SizeByTable(segments', firstSegment', n) = SizeByTable(segments, firstSegment, n)
    <3>1. firstSegment' = firstSegment
      BY <1>5, <2>7, <2>10, <2>15
    <3>2. segments[1].byteCount > 0
      <4>1. firstSegment # <<>> => Len(firstSegment) = 1
        <5>1. firstSegment # <<>> => firstSegment = <<firstSegment[1]>>
          BY <1>4 DEF SizesInv, Sizes
        <5>2. Len(<<firstSegment[1]>>) = 1
          OBVIOUS
        <5> QED BY <5>1, <5>2
      <4>2. Len(<<>>) = 0
        OBVIOUS
      <4>3. duration > Len(firstSegment)
        <5>1. CASE firstSegment = <<>>
          <6>1. Len(firstSegment) = 0
            BY <4>2, <5>1
          <6> QED BY <1>5, <2>15, <6>1
        <5>2. CASE firstSegment # <<>>
          BY <1>5, <2>15, <4>1, <5>2
        <5> QED BY <5>1, <5>2
      <4> QED BY <1>4, <4>3, Zenon DEF SizesInv, Sizes, NonFirstSize
    <3>3. segments[1].byteCount = size
      BY <1>6, <2>9, <3>2
    <3>4. segments'[1].byteCount = segments[1].byteCount
      BY <2>6, <2>8, <3>3
    <3>5. NonFirstSize(segments') = NonFirstSize(segments)
      BY <3>4, Zenon DEF NonFirstSize
    <3>6. FirstSize(segments', firstSegment') = FirstSize(segments, firstSegment)
      BY <3>1, <3>5, Zenon DEF FirstSize
    <3> QED BY <3>5, <3>6, Zenon DEF SizeByTable
  <2>16. /\ firstSegment = <<>> => firstSegment' = <<>>
         /\ duration > 1 => firstSegment' = firstSegment
    BY <2>7, <2>10
  <2> QED BY <1>3, <1>4, <1>8, <2>13, <2>14, <2>15, <2>16
<1> QED BY <1>9, <1>10

(* The first packages of a constant table are indexed before it is written.*)
LEMMA PreIndexInv ==
  ASSUME LayoutInv, PreIndex
  PROVE  LayoutInv'
<1>1. /\ pc = "preindex" /\ indexStatus = "ok" /\ duration < PreIndexed
      /\ UpdateIndex(config.sizes[duration]) /\ UNCHANGED fileVars
  BY DEF PreIndex
<1> USE <1>1, Known, ConfigFacts
<1>2. /\ supplied' = supplied /\ written' = written
      /\ partitions' = partitions /\ firstWrite' = firstWrite /\ waiting' = waiting
      /\ frameCount' = frameCount /\ cbePartition' = cbePartition /\ memoryOpen' = memoryOpen
      /\ footerOffset' = footerOffset /\ bodyOffset' = bodyOffset /\ track' = track
      /\ endOfSamples' = endOfSamples /\ pc' = pc
  BY DEF fileVars
<1>3. /\ config' = config /\ duration' \in Nat /\ haveWritten' = haveWritten
      /\ indexStatus' \in {"ok", "failed"}
  BY DEF UpdateIndex, IndexFails, FileTypeInv
<1>4. PartitionsInv'
  BY <1>2, <1>3, Zenon DEF PartitionsInv
<1>5. FileTypeInv'
  BY <1>2, <1>3, SameConfig DEF FileTypeInv, Statuses
<1>6. CASE indexStatus' = "failed"
  BY <1>2, <1>4, <1>5, <1>6, FailedInv
<1>7. CASE indexStatus' = "ok"
  <2>1. /\ IsCBE /\ ~config.follows /\ written = 0 /\ HavePackages(1) /\ ~haveWritten
        /\ ~firstWrite
    BY DEF ProgressInv, PlacedInv, Starting
  <2>2. duration \in {0, 1} /\ (duration = 1 => HavePackages(2))
    BY DEF PreIndexed, FileTypeInv
  <2>3. Supplied(config, supplied, duration + 1)
    <3>1. Supplied(config, supplied, 0 + 1) /\ (duration = 1 => Supplied(config, supplied, 0 + 2))
      BY <2>1, <2>2, HaveSupplied
    <3>2. duration = 0 => duration + 1 = 0 + 1
      OBVIOUS
    <3>3. duration = 1 => duration + 1 = 0 + 2
      OBVIOUS
    <3> QED BY ONLY <2>2, <3>1, <3>2, <3>3
  <2>4. /\ cache' = cache /\ duration' = duration + 1
        /\ streamOffset' = SizeUpTo(config, duration + 1) /\ SizesInv'
    BY <1>7, <2>1, <2>3, ConstantUnitSized
  <2>5. IsCBE' = IsCBE /\ MinPartitions' = MinPartitions /\ SinglePass' = SinglePass
    BY <1>3, SameConfig
  <2>6. WaitingEntriesInv'
    BY <1>2, <1>3, <2>4, Zenon DEF WaitingEntriesInv
  <2>7. Open' = Open /\ MayStart' = MayStart
    BY <1>2, <2>5, Zenon DEF Open, MayStart
  <2>8. HavePackages(1)' <=> HavePackages(1)
    <3>1. Element' = Element
      BY <1>3, SameConfig
    <3> QED BY <1>2, <3>1, Zenon DEF HavePackages
  <2>9. ProgressInv'
    <3>1. Supplied(config', supplied', duration')
      BY <1>2, <1>3, <2>3, <2>4
    <3>2. streamOffset' = SizeUpTo(config', duration')
      BY <1>3, <2>4
    <3>3. duration' \in {1, 2} /\ written' = 0 /\ frameCount' = 0
      BY <1>2, <2>1, <2>2, <2>4 DEF ProgressInv, FileTypeInv
    <3> QED BY <1>2, <1>3, <2>1, <2>5, <2>8, <3>1, <3>2, <3>3
            DEF ProgressInv, Starting, Ending
  <2>10. OpenInv'
    BY <1>2, <1>3, <2>1, <2>5, <2>7 DEF OpenInv, Starting, Filling
  <2>11. PromiseInv'
    BY <1>2, <1>3, <2>1, <2>5 DEF PromiseInv, Starting, Filling, Ending
  <2>12. PlacedInv'
    BY <1>2, <1>3, <2>1, <2>5 DEF PlacedInv
  <2> QED BY <1>2, <1>4, <1>5, <2>4, <2>6, <2>9, <2>10, <2>11, <2>12 DEF LayoutInv
<1> QED BY <1>3, <1>6, <1>7

-----------------------------------------------------------------------------
(* Steps that write segments and partitions.                               *)

LEMMA NewPartition ==
  ASSUME NEW x, NEW offset
  PROVE  /\ IsPartition(Partition(x, offset)) /\ Partition(x, offset).index = x
         /\ Partition(x, offset).offset = offset /\ Partition(x, offset).essence = <<>>
  BY EmptySeq DEF Partition, IsPartition

(* What writing the segments leaves, and when it fails.                    *)
LEMMA SegmentsWritten ==
  ASSUME NEW isFooter \in BOOLEAN, NEW final \in BOOLEAN, WriteSegments(isFooter, final)
  PROVE  /\ config' = config /\ cache' = cache /\ duration' = duration
         /\ streamOffset' = streamOffset /\ firstSegment' = firstSegment
         /\ IsCBE => segments' = segments
         /\ \/ /\ indexStatus' = "failed" /\ haveWritten' = haveWritten
               /\ duration = 0 \/ DurationFails
            \/ /\ indexStatus' = indexStatus /\ haveWritten' = TRUE /\ duration # 0
               /\ IsCBE => output' = CBESegments(final)
<1>1. CASE duration = 0 \/ DurationFails
  <2>1. IndexFails
    BY <1>1 DEF WriteSegments
  <2> QED BY <1>1, <2>1, Zenon DEF IndexFails
<1>2. CASE ~(duration = 0 \/ DurationFails)
  BY <1>2, Zenon DEF WriteSegments
<1> QED BY <1>1, <1>2

(* How many segments a constant table has.                                 *)
LEMMA LengthOfTable ==
  ASSUME SizesInv, NEW final \in BOOLEAN
  PROVE  Len(CBESegments(final)) = TableLength
<1>1. PICK a, m : a = firstSegment /\ m = [segments[1] EXCEPT !.duration = WrittenDuration(final)]
  OBVIOUS
<1>2. PICK S : S = {a[1], m}
  OBVIOUS
<1>3. a = <<>> \/ a = <<a[1]>>
  BY <1>1 DEF SizesInv, Sizes
<1>4. a \in Seq(S) /\ Len(a) \in Nat
  <2>1. <<>> \in Seq(S) /\ <<a[1]>> \in Seq(S)
    BY <1>2
  <2> QED BY <1>3, <2>1, LenProperties
<1>5. <<m>> \in Seq(S) /\ <<>> \in Seq(S) /\ Len(<<m>>) = 1 /\ Len(<<>>) = 0
  BY <1>2
<1>6. Len(a \o <<m>>) = Len(a) + 1 /\ Len(a \o <<>>) = Len(a) + 0
  BY <1>4, <1>5, ConcatProperties
<1>7. CBESegments(final) = a \o (IF WritesMainSegment THEN <<m>> ELSE <<>>)
  BY <1>1, Zenon DEF CBESegments
<1>8. TableLength = Len(a) + (IF WritesMainSegment THEN 1 ELSE 0)
  BY <1>1, Zenon DEF TableLength
<1> QED BY <1>6, <1>7, <1>8

(* A partition is added that is empty yet.                                 *)
LEMMA PartitionAdded ==
  ASSUME FileTypeInv, PartitionsInv, config' = config, written' = written,
         NEW x, NEW offset, partitions' = Append(partitions, Partition(x, offset)),
         offset # NoOffset /\ StartsApart(config) => offset = SizeUpTo(config, written)
  PROVE  /\ IsFile(partitions') /\ PartitionsInv'
         /\ Len(partitions) \in Nat \ {0} /\ Len(partitions') = Len(partitions) + 1
         /\ \A i \in 1 .. Len(partitions) : partitions'[i] = partitions[i]
         /\ partitions'[Len(partitions) + 1].index = x
         /\ Open'.offset = offset /\ Open'.essence = <<>>
<1>1. PICK c, n, list, p : /\ c = config /\ n = written /\ list = partitions
                           /\ p = Partition(x, offset)
  OBVIOUS
<1>2. /\ IsPartition(p) /\ p.index = x /\ p.offset = offset /\ p.essence = <<>>
  BY <1>1, NewPartition
<1>3. IsFile(list) /\ n \in Nat /\ LaidOut(c, list, n)
  BY <1>1 DEF FileTypeInv, PartitionsInv
<1>4. p.offset # NoOffset /\ StartsApart(c) => p.offset = SizeUpTo(c, n)
  BY <1>1, <1>2
<1>5. IsFile(Append(list, p)) /\ LaidOut(c, Append(list, p), n)
  BY ONLY <1>2, <1>3, <1>4, EmptyAdded
<1>6. /\ Len(Append(list, p)) = Len(list) + 1
      /\ \A i \in 1 .. Len(list) : Append(list, p)[i] = list[i]
      /\ Append(list, p)[Len(list) + 1] = p
  BY ONLY <1>2, <1>3, FileAppend
<1>7. Len(list) \in Nat \ {0}
  BY <1>3, FileLen
<1>8. partitions' = Append(list, p) /\ config' = c /\ written' = n
  BY <1>1
<1>9. PartitionsInv'
  BY <1>5, <1>8, Zenon DEF PartitionsInv
<1>10. Open' = p
  <2>1. Open' = partitions'[Len(partitions')]
    BY DEF Open
  <2> QED BY <1>6, <1>8, <2>1
<1> QED BY <1>1, <1>2, <1>5, <1>6, <1>7, <1>8, <1>9, <1>10

(* The index of a partition is written, or written again.                  *)
LEMMA PartitionIndexed ==
  ASSUME FileTypeInv, PartitionsInv, config' = config, written' = written,
         NEW x, NEW i \in DOMAIN partitions, partitions' = [partitions EXCEPT ![i].index = x]
  PROVE  /\ IsFile(partitions') /\ PartitionsInv' /\ Len(partitions') = Len(partitions)
         /\ partitions'[i].index = x
         /\ Open'.offset = Open.offset /\ Open'.essence = Open.essence
<1>1. PICK c, n, list : c = config /\ n = written /\ list = partitions
  OBVIOUS
<1>2. IsFile(list) /\ LaidOut(c, list, n) /\ i \in DOMAIN list
  BY <1>1, FileLen DEF FileTypeInv, PartitionsInv
<1>3. PICK new : new = WithIndex(list, i, x)
  OBVIOUS
<1>4. /\ IsFile(new) /\ LaidOut(c, new, n)
      /\ Len(new) = Len(list) /\ new[i].index = x
      /\ \A j \in 1 .. Len(list) : /\ new[j].offset = list[j].offset
                                   /\ new[j].essence = list[j].essence
  BY ONLY <1>2, <1>3, IndexWritten
<1>5. partitions' = new /\ config' = c /\ written' = n
  BY <1>1, <1>3, Zenon DEF WithIndex
<1>6. PartitionsInv'
  BY <1>4, <1>5, Zenon DEF PartitionsInv
<1>7. Open'.offset = Open.offset /\ Open'.essence = Open.essence
  <2>1. Len(list) \in 1 .. Len(list)
    BY <1>2, FileLen
  <2> QED BY <1>1, <1>4, <1>5, <2>1 DEF Open
<1> QED BY <1>1, <1>4, <1>5, <1>6, <1>7

(* What all of these steps leave.                                          *)
Writes ==
  /\ UNCHANGED <<config, cache, duration, streamOffset, firstSegment, supplied, written,
                 firstWrite, waiting, frameCount, memoryOpen, footerOffset, bodyOffset,
                 track, endOfSamples>>
  /\ IsCBE => segments' = segments
  /\ indexStatus' \in {"ok", "failed"} /\ haveWritten' \in BOOLEAN

LEMMA Wrote ==
  ASSUME LayoutInv, indexStatus = "ok", Writes
  PROVE  /\ config' = config /\ duration' = duration /\ streamOffset' = streamOffset
         /\ firstSegment' = firstSegment /\ supplied' = supplied /\ written' = written
         /\ firstWrite' = firstWrite /\ waiting' = waiting /\ frameCount' = frameCount
         /\ memoryOpen' = memoryOpen /\ footerOffset' = footerOffset
         /\ bodyOffset' = bodyOffset /\ track' = track /\ endOfSamples' = endOfSamples
         /\ IsCBE => segments' = segments /\ SizesInv'
         /\ IsCBE' = IsCBE /\ MinPartitions' = MinPartitions /\ SinglePass' = SinglePass
         /\ InputDuration' = InputDuration
         /\ WaitingEntriesInv' /\ MayStart' = MayStart /\ TableLength' = TableLength
         /\ PairSettled' = PairSettled /\ (HavePackages(1) <=> HavePackages(1)')
<1>1. /\ config' = config /\ duration' = duration /\ streamOffset' = streamOffset
      /\ firstSegment' = firstSegment /\ supplied' = supplied /\ written' = written
      /\ firstWrite' = firstWrite /\ waiting' = waiting /\ frameCount' = frameCount
      /\ memoryOpen' = memoryOpen /\ footerOffset' = footerOffset
      /\ bodyOffset' = bodyOffset /\ track' = track /\ endOfSamples' = endOfSamples
      /\ cache' = cache /\ (IsCBE => segments' = segments)
  BY DEF Writes
<1>2. /\ IsCBE' = IsCBE /\ MinPartitions' = MinPartitions /\ SinglePass' = SinglePass
      /\ Element' = Element /\ InputDuration' = InputDuration
  BY <1>1, SameConfig
<1>3. IsCBE => SizesInv'
  BY <1>1, Known, Zenon DEF SizesInv
<1>4. WaitingEntriesInv'
  BY <1>1, Known, Zenon DEF WaitingEntriesInv
<1>5. MayStart' = MayStart
  BY <1>1, <1>2, Zenon DEF MayStart
<1>6. TableLength' = TableLength
  BY <1>1, Zenon DEF TableLength, WritesMainSegment
<1>7. PairSettled' = PairSettled
  BY <1>1, Zenon DEF PairSettled
<1>8. HavePackages(1) <=> HavePackages(1)'
  BY <1>1, <1>2, Zenon DEF HavePackages
<1> QED BY <1>1, <1>2, <1>3, <1>4, <1>5, <1>6, <1>7, <1>8

LEMMA WroteInv ==
  ASSUME LayoutInv, indexStatus = "ok", Writes,
         pc' \in Places \ {"misplaced"}, IsFile(partitions'), PartitionsInv',
         indexStatus' = "ok" => ProgressInv' /\ OpenInv',
         indexStatus' = "ok" /\ IsCBE => PromiseInv' /\ PlacedInv'
  PROVE  LayoutInv'
<1>1. FileTypeInv'
  <2>1. Element' = Element
    BY Wrote, SameConfig
  <2>2. indexStatus' \in Statuses /\ haveWritten' \in BOOLEAN
    BY DEF Writes, Statuses
  <2>3. pc' \in Places
    OBVIOUS
  <2> QED BY <2>1, <2>2, <2>3, Known, Wrote DEF FileTypeInv
<1>2. pc' # "misplaced"
  BY DEF Places
<1>3. indexStatus' \in {"ok", "failed"}
  BY DEF Writes
<1> QED BY <1>1, <1>2, <1>3, Wrote DEF LayoutInv

LEMMA WriteCBEIndexInv ==
  ASSUME LayoutInv, WriteCBEIndex
  PROVE  LayoutInv'
<1>1. /\ pc = "preindex" /\ indexStatus = "ok" /\ duration >= PreIndexed
      /\ WriteSegments(FALSE, FALSE)
      /\ \/ /\ MinPartitions \/ BodyPartitions
            /\ cbePartition' = 1 /\ partitions' = [partitions EXCEPT ![1].index = output']
         \/ /\ ~(MinPartitions \/ BodyPartitions)
            /\ cbePartition' = Len(partitions) + 1
            /\ partitions' = Append(partitions, Partition(output', NoOffset))
      /\ pc' = IF MinPartitions THEN "essence" ELSE "partition"
      /\ UNCHANGED <<supplied, written, firstWrite, waiting, frameCount, memoryOpen,
                     footerOffset, bodyOffset, track, endOfSamples>>
  BY DEF WriteCBEIndex
<1> USE <1>1, Known, ConfigFacts
<1>2. /\ IsCBE /\ ~config.follows /\ written = 0 /\ HavePackages(1) /\ ~haveWritten
      /\ ~firstWrite
  BY DEF ProgressInv, PlacedInv, Starting
<1>3. Writes
  BY <1>2, SegmentsWritten, Zenon DEF Writes, FileTypeInv
<1>4. \/ indexStatus' = "failed"
      \/ /\ indexStatus' = "ok" /\ haveWritten' = TRUE /\ duration # 0
         /\ output' = CBESegments(FALSE)
  BY <1>2, SegmentsWritten
<1>5. /\ IsFile(partitions') /\ PartitionsInv' /\ cbePartition' \in 1 .. Len(partitions')
      /\ partitions'[cbePartition'].index = output'
      /\ MinPartitions => Open'.offset = Open.offset
  <2>1. PICK x : x = output'
    OBVIOUS
  <2>2. Len(partitions) \in Nat \ {0} /\ DOMAIN partitions = 1 .. Len(partitions)
    BY FileLen DEF FileTypeInv
  <2>3. config' = config /\ written' = written
    BY <1>3, Wrote
  <2>4. CASE MinPartitions \/ BodyPartitions
    <3>1. 1 \in DOMAIN partitions
      BY <2>2
    <3>2. cbePartition' = 1 /\ partitions' = [partitions EXCEPT ![1].index = x]
      BY <2>1, <2>4
    <3>3. /\ IsFile(partitions') /\ PartitionsInv' /\ Len(partitions') = Len(partitions)
          /\ partitions'[1].index = x /\ Open'.offset = Open.offset
      BY <2>3, <3>1, <3>2, PartitionIndexed
    <3>4. cbePartition' \in 1 .. Len(partitions')
      BY ONLY <2>2, <3>2, <3>3
    <3> QED BY ONLY <2>1, <3>2, <3>3, <3>4
  <2>5. CASE ~(MinPartitions \/ BodyPartitions)
    <3>1. cbePartition' = Len(partitions) + 1
          /\ partitions' = Append(partitions, Partition(x, NoOffset))
      BY <2>1, <2>5
    <3>2. PICK o : o = NoOffset
      OBVIOUS
    <3>3. /\ partitions' = Append(partitions, Partition(x, o))
          /\ o # NoOffset /\ StartsApart(config) => o = SizeUpTo(config, written)
      BY <3>1, <3>2
    <3>4. /\ IsFile(partitions') /\ PartitionsInv' /\ Len(partitions') = Len(partitions) + 1
          /\ partitions'[Len(partitions) + 1].index = x
      BY <2>3, <3>3, PartitionAdded
    <3>5. cbePartition' \in 1 .. Len(partitions')
      BY ONLY <2>2, <3>1, <3>4
    <3> QED BY ONLY <2>1, <2>5, <3>1, <3>4, <3>5
  <2> QED BY <2>4, <2>5
<1>6. pc' \in Places \ {"misplaced"}
  BY DEF Places
<1>7. ASSUME indexStatus' = "ok" PROVE ProgressInv' /\ OpenInv' /\ PromiseInv' /\ PlacedInv'
  <2>1. haveWritten' = TRUE /\ duration # 0 /\ output' = CBESegments(FALSE)
    BY <1>4, <1>7
  <2>2. Len(partitions'[cbePartition'].index) = TableLength
    BY <1>2, <1>5, <2>1, LengthOfTable
  <2>3. PairSettled
    <3>1. firstSegment = <<>> \/ config.avci
      BY <1>2 DEF SizesInv, Sizes
    <3>2. HavePackages(2) <=> Supplied(config, supplied, 0 + 2)
      BY <1>2, HaveSupplied
    <3>3. 0 + 2 = 2
      OBVIOUS
    <3>4. HavePackages(2) => duration # 1
      BY DEF PreIndexed, FileTypeInv
    <3>5. endOfSamples \/ ~config.avci \/ Supplied(config, supplied, 2)
      BY <1>2 DEF PromiseInv
    <3> QED BY <3>1, <3>2, <3>3, <3>4, <3>5, Zenon DEF PairSettled
  <2>4. ProgressInv'
    BY <1>2, <1>3, Wrote DEF ProgressInv, Starting, Ending
  <2>5. OpenInv'
    <3>1. MayStart
      BY <1>2 DEF MayStart
    <3>2. ~firstWrite' /\ MayStart' /\ pc' \in {"essence", "partition"}
          /\ (pc' = "partition" <=> ~MinPartitions')
      BY <1>2, <1>3, <3>1, Wrote
    <3>3. /\ waiting' = waiting /\ bodyOffset' = bodyOffset /\ written' = written
          /\ config' = config
      BY <1>3, Wrote
    <3>4. ~waiting
      BY DEF OpenInv, Starting
    <3>5. StartsApart(config) => bodyOffset = SizeUpTo(config, written)
      BY DEF OpenInv
    <3>6. MinPartitions' => Open'.offset # NoOffset
      <4>1. MinPartitions' = MinPartitions
        BY <1>3, Wrote
      <4> QED BY <1>5, <4>1 DEF OpenInv
    <3> QED BY ONLY <3>2, <3>3, <3>4, <3>5, <3>6 DEF OpenInv, Starting, Filling
  <2>6. PromiseInv'
    BY <1>2, <1>3, <2>1, <2>3, Wrote DEF PromiseInv, Starting, Filling, Ending, FileTypeInv
  <2>7. PlacedInv'
    <3>1. PairSettled' /\ duration' = duration /\ config' = config /\ TableLength' = TableLength
      BY <1>3, <2>3, Wrote
    <3>2. duration' > 0
      BY <2>1, <3>1 DEF FileTypeInv
    <3>3. pc' \in {"essence", "partition"} /\ ~config'.follows
      BY <1>2, <3>1
    <3>4. Len(partitions'[cbePartition'].index) = TableLength'
      BY <2>2, <3>1
    <3> QED BY ONLY <1>5, <2>1, <3>1, <3>2, <3>3, <3>4 DEF PlacedInv
  <2> QED BY <2>4, <2>5, <2>6, <2>7
<1> QED BY <1>3, <1>5, <1>6, <1>7, WroteInv

(* One or two partitions at the end.                                       *)
LEMMA ConcatOneTwo ==
  ASSUME NEW list, IsFile(list), NEW p, NEW q
  PROVE  list \o <<p>> = Append(list, p) /\ list \o <<p, q>> = Append(Append(list, p), q)
<1>1. PICK S : S = Range(list) \cup {p, q}
  OBVIOUS
<1>2. list \in Seq(S) /\ p \in S /\ q \in S
  <2>1. list \in Seq(Range(list)) /\ Range(list) \subseteq S
    BY <1>1 DEF IsFile
  <2> QED BY <1>1, <2>1, SeqMonotonic, LenProperties
<1>3. list \o <<p>> = Append(list, p)
  BY ONLY <1>2, AppendIsConcat
<1>4. PICK t : t = Append(list, p)
  OBVIOUS
<1>5. t \in Seq(S)
  BY <1>2, <1>4, AppendProperties
<1>6. Append(t, q) = t \o <<q>>
  BY ONLY <1>2, <1>5, AppendIsConcat
<1>7. <<p>> \in Seq(S) /\ <<q>> \in Seq(S)
  BY <1>2
<1>8. (list \o <<p>>) \o <<q>> = list \o (<<p>> \o <<q>>)
  BY ONLY <1>2, <1>7, ConcatAssociative
<1>9. <<p>> \o <<q>> = <<p, q>>
  <2>1. PICK u, v : u = <<p>> \o <<q>> /\ v = <<p, q>>
    OBVIOUS
  <2>2. Len(<<p>>) = 1 /\ Len(<<q>>) = 1 /\ <<p>>[1] = p /\ <<q>>[1] = q
    OBVIOUS
  <2>3. u \in Seq(S) /\ Len(u) = 2 /\ u[1] = p /\ u[2] = q
    BY ONLY <1>7, <2>1, <2>2, ConcatProperties
  <2>4. v \in Seq(S) /\ Len(v) = 2 /\ v[1] = p /\ v[2] = q
    BY <1>2, <2>1
  <2>5. \A i \in 1 .. Len(u) : u[i] = v[i]
    BY ONLY <2>3, <2>4
  <2>6. u = v
    BY ONLY <2>3, <2>4, <2>5, SeqEqual
  <2> QED BY <2>1, <2>6
<1> QED BY <1>3, <1>4, <1>6, <1>8, <1>9

(* Partitions are added of which the last is for the essence.              *)
LEMMA EssencePartitions ==
  ASSUME FileTypeInv, PartitionsInv, config' = config, written' = written, NEW x,
         \/ partitions' = partitions \o NewPartitions(x)
         \/ partitions' = Append(partitions, Partition(x, bodyOffset)),
         StartsApart(config) => bodyOffset = SizeUpTo(config, written)
  PROVE  /\ IsFile(partitions') /\ PartitionsInv'
         /\ Len(partitions') \in Nat /\ Len(partitions') >= Len(partitions)
         /\ Len(partitions) \in Nat
         /\ \A i \in 1 .. Len(partitions) : partitions'[i] = partitions[i]
         /\ Open'.offset = bodyOffset /\ Open'.essence = <<>>
<1>1. PICK c, n, list, b, p, q, r :
        /\ c = config /\ n = written /\ list = partitions /\ b = bodyOffset
        /\ p = Partition(x, b) /\ q = Partition(x, NoOffset) /\ r = Partition(<<>>, b)
  OBVIOUS
<1>2. /\ IsPartition(p) /\ p.offset = b /\ p.essence = <<>>
      /\ IsPartition(q) /\ q.offset = NoOffset /\ q.essence = <<>>
      /\ IsPartition(r) /\ r.offset = b /\ r.essence = <<>>
  BY <1>1, NewPartition
<1>3. IsFile(list) /\ n \in Nat /\ LaidOut(c, list, n)
  BY <1>1 DEF FileTypeInv, PartitionsInv
<1>4. /\ p.offset # NoOffset /\ StartsApart(c) => p.offset = SizeUpTo(c, n)
      /\ q.offset # NoOffset /\ StartsApart(c) => q.offset = SizeUpTo(c, n)
      /\ r.offset # NoOffset /\ StartsApart(c) => r.offset = SizeUpTo(c, n)
  BY <1>1, <1>2
<1>5. partitions' = Append(list, p) \/ partitions' = Append(Append(list, q), r)
  <2>1. list \o <<p>> = Append(list, p) /\ list \o <<q, r>> = Append(Append(list, q), r)
    BY ONLY <1>3, ConcatOneTwo
  <2> QED BY <1>1, <2>1 DEF NewPartitions
<1>6. ASSUME NEW new, IsFile(new), LaidOut(c, new, n), partitions' = new,
             Len(new) \in Nat, Len(new) >= Len(list),
             \A i \in 1 .. Len(list) : new[i] = list[i],
             new[Len(new)].offset = b, new[Len(new)].essence = <<>>
      PROVE  /\ PartitionsInv' /\ IsFile(partitions')
             /\ Len(partitions') \in Nat /\ Len(partitions') >= Len(partitions)
             /\ \A i \in 1 .. Len(partitions) : partitions'[i] = partitions[i]
             /\ Open'.offset = bodyOffset /\ Open'.essence = <<>>
  <2>1. PartitionsInv'
    BY <1>1, <1>6, Zenon DEF PartitionsInv
  <2>2. Open' = new[Len(new)]
    BY <1>6, Zenon DEF Open
  <2> QED BY <1>1, <1>6, <2>1, <2>2
<1>7. Len(list) \in Nat
  BY <1>3, FileLen
<1>8. CASE partitions' = Append(list, p)
  <2>1. PICK new : new = Append(list, p)
    OBVIOUS
  <2>2. IsFile(new) /\ LaidOut(c, new, n)
    BY ONLY <1>2, <1>3, <1>4, <2>1, EmptyAdded
  <2>3. /\ Len(new) = Len(list) + 1 /\ \A i \in 1 .. Len(list) : new[i] = list[i]
        /\ new[Len(list) + 1] = p
    BY ONLY <1>2, <1>3, <2>1, FileAppend
  <2>4. Len(new) \in Nat /\ Len(new) >= Len(list)
    BY ONLY <1>7, <2>3
  <2>5. partitions' = new /\ new[Len(new)].offset = b /\ new[Len(new)].essence = <<>>
    BY <1>2, <1>8, <2>1, <2>3
  <2>6. \A i \in 1 .. Len(list) : new[i] = list[i]
    BY <2>3
  <2>7. Len(partitions) \in Nat
    BY <1>1, <1>7
  <2> QED BY ONLY <1>6, <2>2, <2>4, <2>5, <2>6, <2>7
<1>9. CASE partitions' = Append(Append(list, q), r)
  <2>1. PICK mid : mid = Append(list, q)
    OBVIOUS
  <2>2. PICK new : new = Append(mid, r)
    OBVIOUS
  <2>3. IsFile(mid) /\ LaidOut(c, mid, n)
    BY ONLY <1>2, <1>3, <1>4, <2>1, EmptyAdded
  <2>4. IsFile(new) /\ LaidOut(c, new, n)
    BY ONLY <1>2, <1>3, <1>4, <2>2, <2>3, EmptyAdded
  <2>5. Len(mid) = Len(list) + 1 /\ \A i \in 1 .. Len(list) : mid[i] = list[i]
    BY ONLY <1>2, <1>3, <2>1, FileAppend
  <2>6. /\ Len(new) = Len(mid) + 1 /\ \A i \in 1 .. Len(mid) : new[i] = mid[i]
        /\ new[Len(mid) + 1] = r
    BY ONLY <1>2, <2>2, <2>3, FileAppend
  <2>7. Len(new) \in Nat /\ Len(new) >= Len(list)
    BY ONLY <1>7, <2>5, <2>6
  <2>8. \A i \in 1 .. Len(list) : i \in 1 .. Len(mid)
    BY ONLY <1>7, <2>5
  <2>9. \A i \in 1 .. Len(list) : new[i] = list[i]
    BY ONLY <2>5, <2>6, <2>8
  <2>10. new[Len(new)] = r
    BY <2>6
  <2>11. partitions' = new /\ new[Len(new)].offset = b /\ new[Len(new)].essence = <<>>
    BY <1>2, <1>9, <2>1, <2>2, <2>10
  <2>12. Len(partitions) \in Nat
    BY <1>1, <1>7
  <2> QED BY ONLY <1>6, <2>4, <2>7, <2>9, <2>11, <2>12
<1> QED BY <1>1, <1>5, <1>7, <1>8, <1>9

LEMMA StartPartitionInv ==
  ASSUME LayoutInv, StartPartition
  PROVE  LayoutInv'
<1>1. /\ pc = "partition" /\ indexStatus = "ok" /\ pc' = "essence"
      /\ \/ ~IsCBE /\ WriteSegments(FALSE, TRUE)
            /\ partitions' = partitions \o NewPartitions(output')
         \/ UNCHANGED indexVars /\ partitions' = Append(partitions, Partition(<<>>, bodyOffset))
      /\ UNCHANGED <<supplied, written, firstWrite, waiting, frameCount, cbePartition,
                     memoryOpen, footerOffset, bodyOffset, track, endOfSamples>>
  BY DEF StartPartition
<1> USE <1>1, Known, ConfigFacts
<1>2. Writes /\ (IsCBE => haveWritten' = haveWritten)
  <2>1. CASE ~IsCBE /\ WriteSegments(FALSE, TRUE)
    BY <2>1, SegmentsWritten, Zenon DEF Writes, FileTypeInv
  <2>2. CASE UNCHANGED indexVars
    BY <2>2 DEF indexVars, Writes, FileTypeInv
  <2> QED BY <2>1, <2>2
<1>3. StartsApart(config) => bodyOffset = SizeUpTo(config, written)
  BY DEF OpenInv
<1>4. PICK x : \/ partitions' = partitions \o NewPartitions(x)
               \/ partitions' = Append(partitions, Partition(x, bodyOffset))
  OBVIOUS
<1>5. config' = config /\ written' = written
  BY <1>2, Wrote
<1>6. /\ IsFile(partitions') /\ PartitionsInv'
      /\ Len(partitions') \in Nat /\ Len(partitions') >= Len(partitions)
      /\ Len(partitions) \in Nat
      /\ \A i \in 1 .. Len(partitions) : partitions'[i] = partitions[i]
      /\ Open'.offset = bodyOffset /\ Open'.essence = <<>>
  BY <1>3, <1>4, <1>5, EssencePartitions
<1>7. pc' \in Places \ {"misplaced"}
  BY DEF Places
<1>8. ~MinPartitions /\ MayStart /\ HavePackages(1) /\ ~firstWrite /\ ~waiting
  BY DEF OpenInv, ProgressInv, Starting
<1>9. bodyOffset # NoOffset
  BY FileAssumption DEF FileTypeInv
<1>10. ProgressInv'
  BY <1>2, <1>8, Wrote DEF ProgressInv, Starting, Ending
<1>11. OpenInv'
  <2>1. ~firstWrite' /\ MayStart' /\ ~waiting' /\ Open'.offset # NoOffset
    BY <1>2, <1>6, <1>8, <1>9, Wrote
  <2> QED BY ONLY <1>1, <2>1 DEF OpenInv, Starting, Filling
<1>12. ASSUME IsCBE PROVE PromiseInv' /\ PlacedInv'
  <2>1. PromiseInv'
    BY <1>2, <1>12, Wrote DEF PromiseInv, Starting, Filling, Ending
  <2>2. PlacedInv'
    <3>1. /\ PairSettled' = PairSettled /\ duration' = duration /\ config' = config
          /\ TableLength' = TableLength /\ haveWritten' = haveWritten
      BY <1>2, <1>12, Wrote
    <3>2. cbePartition' = cbePartition
      OBVIOUS
    <3>3. PlacedInv
      BY <1>12
    <3>4. haveWritten => /\ cbePartition \in 1 .. Len(partitions')
                         /\ partitions'[cbePartition] = partitions[cbePartition]
      <4>1. haveWritten => cbePartition \in 1 .. Len(partitions)
        BY <3>3 DEF PlacedInv
      <4>2. cbePartition \in 1 .. Len(partitions) => cbePartition \in 1 .. Len(partitions')
        BY ONLY <1>6
      <4> QED BY ONLY <1>6, <4>1, <4>2
    <3> QED BY ONLY <1>1, <3>1, <3>2, <3>3, <3>4 DEF PlacedInv
  <2> QED BY <2>1, <2>2
<1> QED BY <1>2, <1>6, <1>7, <1>10, <1>11, <1>12, WroteInv

-----------------------------------------------------------------------------
(* A content package is written.                                           *)

LEMMA EssenceAppended ==
  ASSUME LayoutInv, indexStatus = "ok", pc = "essence", config' = config,
         written' = written + 1,
         partitions' = [partitions EXCEPT ![Len(partitions)].essence = Append(@, written)]
  PROVE  /\ IsFile(partitions') /\ PartitionsInv' /\ Len(partitions') = Len(partitions)
         /\ \A i \in 1 .. Len(partitions) : partitions'[i].index = partitions[i].index
         /\ Open'.offset # NoOffset /\ Open'.essence # <<>>
<1>1. PICK c, n, list : c = config /\ n = written /\ list = partitions
  OBVIOUS
<1>2. IsFile(list) /\ n \in Nat /\ LaidOut(c, list, n)
  BY <1>1, Known DEF FileTypeInv, PartitionsInv
<1>3. list[Len(list)].offset # NoOffset
  <2>1. ~firstWrite
    BY Known DEF ProgressInv, Starting
  <2> QED BY <1>1, <2>1, Known DEF OpenInv, Open
<1>4. list[Len(list)].essence = <<>> /\ c.cbe # Range(c.elements) => n \in GOPStart
  BY <1>1, Known, ConfigFacts DEF OpenInv, Open, MayStart
<1>5. PICK new : new = WithUnit(list, n)
  OBVIOUS
<1>6. /\ IsFile(new) /\ LaidOut(c, new, n + 1) /\ Len(new) = Len(list)
      /\ \A j \in 1 .. Len(list) : /\ new[j].offset = list[j].offset
                                   /\ new[j].index = list[j].index
      /\ new[Len(list)].essence # <<>>
  <2>1. TakesUnit(c, list, n)
    BY <1>3, <1>4 DEF TakesUnit
  <2>2. TookUnit(c, list, n, new)
    BY ONLY <1>2, <1>5, <2>1, UnitWritten
  <2> QED BY <2>2 DEF TookUnit
<1>7. partitions' = new /\ config' = c /\ written' = n + 1
  BY <1>1, <1>5, Zenon DEF WithUnit
<1>8. PartitionsInv'
  BY <1>6, <1>7, Zenon DEF PartitionsInv
<1>9. Open' = new[Len(list)]
  BY <1>6, <1>7, Zenon DEF Open
<1>10. new[Len(list)].offset # NoOffset
  <2>1. Len(list) \in 1 .. Len(list)
    BY <1>2, FileLen
  <2> QED BY <1>3, <1>6, <2>1
<1> QED BY <1>1, <1>6, <1>7, <1>8, <1>9, <1>10

(* The table after a content package of a constant table ...               *)
IndexesUnit == IF IsIndexed THEN UNCHANGED indexVars ELSE UpdateIndex(config.sizes[written])

LEMMA ConstantUnitWritten ==
  ASSUME LayoutInv, indexStatus = "ok", pc = "essence", IsCBE, IndexesUnit, indexStatus' = "ok",
         supplied' = supplied, endOfSamples' = endOfSamples, written' = written + 1
  PROVE  /\ config' = config /\ haveWritten' = haveWritten
         /\ \/ duration' = duration /\ written < duration
            \/ duration' = duration + 1 /\ duration = written
         /\ Supplied(config, supplied, duration')
         /\ streamOffset' = SizeUpTo(config, duration')
         /\ SizesInv' /\ WaitingEntriesInv'
         /\ ~config.follows => PairSettled' /\ TableLength' = TableLength
         /\ SinglePass => SizeByTable(segments', firstSegment', InputDuration)
                            = SizeByTable(segments, firstSegment, InputDuration)
<1> USE Known, ConfigFacts
<1>1. /\ written <= duration /\ written \in Nat /\ duration \in Nat
      /\ Supplied(config, supplied, written + 1)
      /\ Supplied(config, supplied, duration) /\ streamOffset = SizeUpTo(config, duration)
      /\ ~config.follows => duration > 0 /\ PairSettled
  BY HaveSupplied DEF ProgressInv, Starting, FileTypeInv, PromiseInv
<1>2. DOMAIN cache = Range(config.elements) /\ Range(config.elements) \ config.cbe = {}
  BY DEF WaitingEntriesInv, Waits, IsCBE, CBEElement, Element, Elements
<1>3. ASSUME config' = config, cache' = cache PROVE WaitingEntriesInv'
  BY <1>2, <1>3 DEF WaitingEntriesInv, Waits
<1>4. CASE written < duration
  <2>1. UNCHANGED indexVars
    BY <1>4 DEF IndexesUnit, IsIndexed
  <2>2. /\ config' = config /\ haveWritten' = haveWritten /\ duration' = duration
        /\ cache' = cache /\ segments' = segments /\ firstSegment' = firstSegment
        /\ streamOffset' = streamOffset
    BY <2>1 DEF indexVars
  <2>3. SizesInv'
    BY <2>2, Zenon DEF SizesInv
  <2>4. PairSettled' = PairSettled
    BY <2>2, Zenon DEF PairSettled
  <2>5. TableLength' = TableLength
    BY <2>2, Zenon DEF TableLength, WritesMainSegment
  <2> QED BY <1>1, <1>3, <1>4, <2>2, <2>3, <2>4, <2>5
<1>5. CASE ~(written < duration)
  <2>1. duration = written
    BY <1>1, <1>5
  <2>2. UpdateIndex(config.sizes[duration]) /\ Supplied(config, supplied, duration + 1)
    BY <1>1, <1>5, <2>1 DEF IndexesUnit, IsIndexed
  <2>3. /\ config' = config /\ cache' = cache /\ haveWritten' = haveWritten
        /\ duration' = duration + 1 /\ streamOffset' = SizeUpTo(config, duration + 1)
        /\ SizesInv'
        /\ firstSegment = <<>> => firstSegment' = <<>>
        /\ duration > 1 => firstSegment' = firstSegment
        /\ duration > 1 \/ (duration = 1 /\ firstSegment = <<>>) =>
             \A n : SizeByTable(segments', firstSegment', n) = SizeByTable(segments, firstSegment, n)
    BY <2>2, ConstantUnitSized
  <2>4. ASSUME ~config.follows
        PROVE  duration > 1 \/ (duration = 1 /\ firstSegment = <<>>)
    <3>1. duration = 1 => Supplied(config, supplied, 2)
      <4>1. duration = 1 => duration + 1 = 2
        OBVIOUS
      <4> QED BY ONLY <2>2, <4>1
    <3>2. duration = 1 => firstSegment = <<>>
      BY <1>1, <2>4, <3>1, Zenon DEF PairSettled
    <3>3. duration > 1 \/ duration = 1
      BY ONLY <1>1, <2>4
    <3> QED BY <3>2, <3>3
  <2>5. ASSUME ~config.follows PROVE PairSettled' /\ TableLength' = TableLength
    <3>1. CASE duration > 1
      <4>1. duration' # 1 /\ duration' > 1
        BY ONLY <1>1, <2>3, <3>1
      <4>2. PairSettled'
        BY <4>1 DEF PairSettled
      <4>3. WritesMainSegment /\ WritesMainSegment'
        BY <3>1, <4>1 DEF WritesMainSegment
      <4> QED BY <2>3, <3>1, <4>2, <4>3, Zenon DEF TableLength
    <3>2. CASE firstSegment = <<>>
      <4>1. firstSegment' = <<>>
        BY <2>3, <3>2
      <4>2. PairSettled'
        BY <4>1 DEF PairSettled
      <4>3. WritesMainSegment /\ WritesMainSegment'
        BY <3>2, <4>1 DEF WritesMainSegment
      <4> QED BY <3>2, <4>1, <4>2, <4>3, Zenon DEF TableLength
    <3> QED BY <2>4, <2>5, <3>1, <3>2
  <2>6. SinglePass => SizeByTable(segments', firstSegment', InputDuration)
                        = SizeByTable(segments, firstSegment, InputDuration)
    BY <2>3, <2>4
  <2>7. Supplied(config, supplied, duration')
    BY <2>2, <2>3
  <2>8. streamOffset' = SizeUpTo(config, duration')
    BY <2>3
  <2> QED BY <1>3, <2>1, <2>3, <2>5, <2>6, <2>7, <2>8
<1> QED BY <1>4, <1>5

(* ... and of a variable one.                                              *)
LEMMA VariableUnitWritten ==
  ASSUME LayoutInv, indexStatus = "ok", pc = "essence", ~IsCBE, IndexesUnit, indexStatus' = "ok",
         supplied' = supplied, written' = written + 1
  PROVE  /\ config' = config /\ haveWritten' = haveWritten
         /\ duration' = duration + 1 /\ duration = written
         /\ Supplied(config, supplied, duration')
         /\ streamOffset' = SizeUpTo(config, duration') /\ WaitingEntriesInv'
<1> USE Known, ConfigFacts
<1>1. /\ written = duration /\ written \in Nat /\ Supplied(config, supplied, written + 1)
      /\ streamOffset = SizeUpTo(config, duration)
  BY HaveSupplied DEF ProgressInv, Starting, FileTypeInv
<1>2. UpdateIndex(config.sizes[duration])
  <2>1. ~(written < duration)
    BY <1>1
  <2> QED BY <1>1, <2>1 DEF IndexesUnit, IsIndexed
<1>3. /\ config' = config /\ haveWritten' = haveWritten /\ duration' = duration + 1
      /\ streamOffset' = streamOffset + ContentPackageSize(config.sizes[duration])
      /\ cache' = [e \in Element |-> [p \in NotTaken(e) |-> cache[e][p]]]
  BY <1>2 DEF UpdateIndex, UpdateVBEIndex, IndexFails
<1>4. duration \in 0 .. (config.frames - 1)
  <2>1. PICK e : e \in Element
    BY ConfigFacts
  <2>2. supplied[e] >= written + 1 /\ supplied[e] \in 0 .. config.frames /\ config.frames \in Nat
    BY <1>1, <2>1 DEF Supplied, Element, Elements, FileTypeInv
  <2> QED BY ONLY <1>1, <2>2
<1>5. streamOffset' = SizeUpTo(config, duration')
  <2>1. /\ SizeUpTo(config, duration + 1) = SizeUpTo(config, duration) + UnitSizes(config)[duration]
        /\ UnitSizes(config)[duration] = ContentPackageSize(config.sizes[duration])
    BY <1>4, SizeFacts
  <2> QED BY <1>1, <1>3, <2>1
<1>6. WaitingEntriesInv'
  <2>1. DOMAIN cache' = Range(config.elements)
    BY <1>3 DEF Element, Elements
  <2>2. ASSUME NEW e \in Range(config.elements) \ config.cbe
        PROVE  /\ DOMAIN cache'[e] = (written + 1) .. (supplied[e] - 1)
               /\ \A p \in DOMAIN cache'[e] : cache'[e][p].canStart = (p \in GOPStart)
    <3>1. e \in Element
      BY DEF Element, Elements
    <3>2. DOMAIN cache[e] = written .. (supplied[e] - 1)
          /\ \A p \in DOMAIN cache[e] : cache[e][p].canStart = (p \in GOPStart)
      BY DEF WaitingEntriesInv, Waits
    <3>3. cache'[e] = [p \in NotTaken(e) |-> cache[e][p]]
      BY <1>3, <3>1
    <3>4. NotTaken(e) = (written + 1) .. (supplied[e] - 1)
      <4>1. supplied[e] \in Nat
        BY <3>1 DEF FileTypeInv
      <4> QED BY ONLY <1>1, <3>2, <4>1 DEF NotTaken
    <3>5. NotTaken(e) \subseteq DOMAIN cache[e]
      BY DEF NotTaken
    <3> QED BY <3>2, <3>3, <3>4, <3>5
  <2>3. config' = config /\ supplied' = supplied /\ written' = written + 1
    BY <1>3
  <2> QED BY ONLY <2>1, <2>2, <2>3 DEF WaitingEntriesInv, Waits
<1>7. Supplied(config, supplied, duration')
  BY <1>1, <1>3
<1> QED BY <1>1, <1>3, <1>5, <1>6, <1>7

LEMMA WriteEssenceInv ==
  ASSUME LayoutInv, WriteEssence
  PROVE  LayoutInv'
<1>1. /\ pc = "essence" /\ indexStatus = "ok" /\ IndexesUnit
      /\ memoryOpen' = FALSE
      /\ footerOffset' = IF memoryOpen /\ SinglePass THEN FooterOffset ELSE footerOffset
      /\ \/ /\ indexStatus' = "ok" /\ written' = written + 1 /\ pc' = "loop"
            /\ partitions' = [partitions EXCEPT ![Len(partitions)].essence = Append(@, written)]
            /\ frameCount' = IF PartitionInterval > 0 THEN frameCount + 1 ELSE frameCount
         \/ /\ indexStatus' # "ok" /\ UNCHANGED <<partitions, written, frameCount, pc>>
      /\ UNCHANGED <<supplied, firstWrite, waiting, cbePartition, bodyOffset, track,
                     endOfSamples>>
  BY DEF WriteEssence, CloseMemory, IndexesUnit
<1> USE <1>1, Known, ConfigFacts
<1>2. config' = config /\ haveWritten' = haveWritten /\ indexStatus' \in {"ok", "failed"}
      /\ duration' \in Nat
  BY DEF IndexesUnit, IsIndexed, indexVars, UpdateIndex, IndexFails, FileTypeInv
<1>3. /\ Element' = Element /\ IsCBE' = IsCBE /\ MinPartitions' = MinPartitions
      /\ SinglePass' = SinglePass /\ InputDuration' = InputDuration
  BY <1>2, SameConfig
<1>4. ASSUME written' \in Nat, frameCount' \in Nat, pc' \in Places, IsFile(partitions')
      PROVE  FileTypeInv'
  BY <1>2, <1>3, <1>4 DEF FileTypeInv, Statuses
<1>5. CASE indexStatus' # "ok"
  <2>1. PartitionsInv'
    BY <1>2, <1>5, Zenon DEF PartitionsInv
  <2>2. FileTypeInv'
    BY <1>4, <1>5 DEF FileTypeInv
  <2>3. pc' # "misplaced"
    BY <1>5
  <2> QED BY <1>5, <2>1, <2>2, <2>3, FailedInv
<1>6. CASE indexStatus' = "ok"
  <2>1. /\ written' = written + 1 /\ pc' = "loop"
        /\ partitions' = [partitions EXCEPT ![Len(partitions)].essence = Append(@, written)]
        /\ frameCount' = IF PartitionInterval > 0 THEN frameCount + 1 ELSE frameCount
    BY <1>6
  <2>2. /\ IsFile(partitions') /\ PartitionsInv' /\ Len(partitions') = Len(partitions)
        /\ \A i \in 1 .. Len(partitions) : partitions'[i].index = partitions[i].index
        /\ Open'.offset # NoOffset /\ Open'.essence # <<>>
    BY <1>2, <2>1, EssenceAppended
  <2>3. /\ written \in Nat /\ frameCount \in Nat /\ duration \in Nat /\ frameCount <= written
        /\ written <= duration /\ ~firstWrite /\ ~waiting /\ HavePackages(1)
        /\ duration = written \/ (IsCBE /\ ~config.follows /\ duration <= 2)
    BY DEF FileTypeInv, ProgressInv, Starting, OpenInv
  <2>4. written' \in Nat /\ frameCount' \in Nat /\ frameCount' <= written' /\ written' > 0
    BY ONLY <2>1, <2>3
  <2>5. FileTypeInv'
    BY <1>4, <2>1, <2>2, <2>4 DEF Places
  <2>6. /\ \/ duration' = duration /\ written < duration
           \/ duration' = duration + 1 /\ duration = written
        /\ Supplied(config, supplied, duration')
        /\ streamOffset' = SizeUpTo(config, duration') /\ WaitingEntriesInv'
    BY <1>6, <2>1, ConstantUnitWritten, VariableUnitWritten
  <2>7. written' <= duration' /\ duration' > 0
        /\ (duration' = written' \/ (IsCBE /\ ~config.follows /\ duration' <= 2))
    BY ONLY <2>1, <2>3, <2>6
  <2>8. ProgressInv'
    <3>1. ~firstWrite' /\ (endOfSamples => pc' \notin {"idle", "track"})
      BY <2>1, <2>3
    <3>2. Supplied(config', supplied', duration') /\ streamOffset' = SizeUpTo(config', duration')
      BY <1>2, <2>6
    <3>3. duration' = written' \/ (IsCBE' /\ ~config'.follows /\ duration' <= 2)
      BY <1>2, <1>3, <2>7
    <3> QED BY ONLY <1>1, <2>1, <2>4, <2>7, <3>1, <3>2, <3>3 DEF ProgressInv, Starting, Ending
  <2>9. OpenInv'
    BY <2>1, <2>2, <2>3 DEF OpenInv, Starting, Filling
  <2>10. ASSUME IsCBE PROVE SizesInv' /\ PromiseInv' /\ PlacedInv'
    <3>1. /\ SizesInv' /\ (~config.follows => PairSettled' /\ TableLength' = TableLength)
          /\ SinglePass => SizeByTable(segments', firstSegment', InputDuration)
                             = SizeByTable(segments, firstSegment, InputDuration)
      BY <1>6, <2>1, <2>10, ConstantUnitWritten
    <3>2. SinglePass => footerOffset' = SizeByTable(segments, firstSegment, InputDuration)
      BY <2>10, FooterPromised DEF PromiseInv
    <3>3. SinglePass' => footerOffset' = SizeByTable(segments', firstSegment', InputDuration')
      BY <1>3, <3>1, <3>2
    <3>4. ~config'.follows => PairSettled'
      BY <1>2, <3>1
    <3>5. PromiseInv'
      BY ONLY <1>1, <2>1, <2>7, <3>3, <3>4 DEF PromiseInv, Starting, Filling, Ending
    <3>6. haveWritten => ~config.follows /\ cbePartition \in 1 .. Len(partitions)
                         /\ Len(partitions[cbePartition].index) = TableLength
      BY <2>10 DEF PlacedInv
    <3>7. haveWritten' => ~config'.follows /\ cbePartition' \in 1 .. Len(partitions')
                          /\ Len(partitions'[cbePartition'].index) = TableLength'
      <4>1. cbePartition' = cbePartition
        OBVIOUS
      <4> QED BY ONLY <1>2, <2>2, <3>1, <3>6, <4>1
    <3>8. PlacedInv'
      BY ONLY <2>1, <2>7, <3>4, <3>7 DEF PlacedInv
    <3> QED BY <3>1, <3>5, <3>8
  <2>11. pc' # "misplaced"
    BY <2>1
  <2> QED BY <1>3, <2>2, <2>5, <2>6, <2>8, <2>9, <2>10, <2>11 DEF LayoutInv
<1> QED BY <1>2, <1>5, <1>6

-----------------------------------------------------------------------------
(* The file is completed.                                                  *)

Completing == {"index", "footer", "rewrite"}

(* All packages that are indexed have been written.                        *)
LEMMA AllWritten ==
  ASSUME LayoutInv, indexStatus = "ok", pc \in Completing \cup {"closed"}
  PROVE  /\ endOfSamples /\ ~HavePackages(1) /\ duration = written /\ written \in Nat
         /\ IsCBE => PairSettled /\ ~memoryOpen
<1> USE Known, ConfigFacts
<1>1. pc \in Ending /\ pc # "end" /\ pc # "preindex"
  BY DEF Completing, Ending
<1>2. endOfSamples /\ ~HavePackages(1) /\ written <= duration
      /\ Supplied(config, supplied, duration)
  BY <1>1 DEF ProgressInv
<1>3. written \in Nat /\ duration \in Nat
  BY DEF FileTypeInv
<1>4. duration = written
  <2> SUFFICES ASSUME duration # written PROVE FALSE
    OBVIOUS
  <2>1. PICK m : m = written + 1
    OBVIOUS
  <2>2. m \in Nat /\ m <= duration
    BY ONLY <1>2, <1>3, <2>1, duration # written
  <2>3. Supplied(config, supplied, m)
    BY ONLY <1>2, <1>3, <2>2, FewerSupplied, Known, LayoutInv, indexStatus = "ok"
  <2> QED BY <1>2, <2>1, <2>3, HaveSupplied
<1>5. ~Supplied(config, supplied, written + 1)
  BY <1>2, HaveSupplied
<1>6. ASSUME IsCBE PROVE PairSettled /\ ~memoryOpen
  <2>1. ~memoryOpen
    BY <1>1, <1>6 DEF PromiseInv
  <2>2. CASE ~config.follows
    BY <1>1, <1>6, <2>1, <2>2 DEF PromiseInv
  <2>3. CASE config.follows
    <3>1. duration = 1 => written + 1 = 2
      BY ONLY <1>4
    <3> QED BY <1>2, <1>5, <2>1, <3>1 DEF PairSettled
  <2> QED BY <2>2, <2>3
<1> QED BY <1>2, <1>3, <1>4, <1>6

(* What steps of the completion have to show.                              *)
LEMMA EndingInv ==
  ASSUME LayoutInv, indexStatus = "ok", Writes, pc \in Completing,
         pc' \in {"footer", "rewrite", "closed"}, IsFile(partitions'), PartitionsInv',
         indexStatus' = "ok" /\ IsCBE /\ haveWritten' =>
           /\ duration > 0 /\ cbePartition' \in 1 .. Len(partitions')
           /\ Len(partitions'[cbePartition'].index) = TableLength,
         indexStatus' = "ok" /\ IsCBE /\ pc' \in {"rewrite", "closed"} /\ duration > 0 => haveWritten'
  PROVE  LayoutInv'
<1> USE Known, ConfigFacts
<1>1. pc' \in Places \ {"misplaced"} /\ pc' \in Ending \ {"end"}
      /\ pc' \notin Starting \cup Filling \cup {"track", "index"}
  BY DEF Places, Ending, Starting, Filling
<1>2. pc \in Ending /\ pc # "end" /\ pc \notin Starting
  BY DEF Completing, Ending, Starting
<1>3. ProgressInv'
  <2>1. ~firstWrite => written > 0
    BY <1>2 DEF ProgressInv
  <2>2. endOfSamples /\ ~HavePackages(1)
    BY AllWritten
  <2>3. /\ written' = written /\ duration' = duration /\ frameCount' = frameCount
        /\ config' = config /\ supplied' = supplied /\ streamOffset' = streamOffset
        /\ firstWrite' = firstWrite /\ endOfSamples' = endOfSamples /\ IsCBE' = IsCBE
        /\ (HavePackages(1) <=> HavePackages(1)')
    BY Wrote
  <2> QED BY <1>1, <2>1, <2>2, <2>3 DEF ProgressInv, Filling, Starting
<1>4. OpenInv'
  <2>1. pc' \notin {"partition", "preindex", "essence"} /\ pc' \notin Filling
    BY <1>1 DEF Starting
  <2>2. /\ waiting' = waiting /\ firstWrite' = firstWrite /\ MinPartitions' = MinPartitions
        /\ MayStart' = MayStart /\ config' = config /\ written' = written
        /\ duration' = duration
    BY Wrote
  <2>3. waiting => /\ ~firstWrite /\ ~MinPartitions /\ MayStart
                   /\ StartsApart(config) => duration = written
    BY DEF OpenInv
  <2> QED BY ONLY <2>1, <2>2, <2>3 DEF OpenInv, Starting
<1>5. ASSUME indexStatus' = "ok", IsCBE PROVE PromiseInv' /\ PlacedInv'
  <2>1. PairSettled /\ ~memoryOpen
    BY <1>5, AllWritten
  <2>2. /\ PairSettled' /\ ~memoryOpen' /\ footerOffset' = footerOffset /\ duration' = duration
        /\ config' = config /\ SinglePass' = SinglePass /\ InputDuration' = InputDuration
        /\ segments' = segments /\ firstSegment' = firstSegment /\ TableLength' = TableLength
    BY <1>5, <2>1, Wrote
  <2>3. SinglePass => footerOffset = SizeByTable(segments, firstSegment, InputDuration)
    BY <1>5, <2>1 DEF PromiseInv
  <2>4. SinglePass' => footerOffset' = SizeByTable(segments', firstSegment', InputDuration')
    BY <2>2, <2>3
  <2>5. PromiseInv'
    BY ONLY <1>1, <2>2, <2>4, pc' \in {"footer", "rewrite", "closed"}
       DEF PromiseInv, Starting, Filling, Ending
  <2>6. pc' # "preindex" /\ pc' \in {"index", "footer", "rewrite", "closed"}
    OBVIOUS
  <2>7. haveWritten' => /\ duration' > 0 /\ cbePartition' \in 1 .. Len(partitions')
                        /\ Len(partitions'[cbePartition'].index) = TableLength'
    BY <1>5, <2>2
  <2>8. pc' \in {"rewrite", "closed"} /\ duration' > 0 => haveWritten'
    BY <1>5, <2>2
  <2>9. PlacedInv'
    BY ONLY <2>2, <2>6, <2>7, <2>8 DEF PlacedInv
  <2> QED BY <2>5, <2>9
<1> QED BY <1>1, <1>3, <1>4, <1>5, WroteInv

LEMMA WriteIndexPartitionInv ==
  ASSUME LayoutInv, WriteIndexPartition
  PROVE  LayoutInv'
<1>1. /\ pc = "index" /\ indexStatus = "ok"
      /\ \/ /\ IsCBE => ~haveWritten /\ duration > 0
            /\ WriteSegments(FALSE, TRUE)
            /\ partitions' = Append(partitions, Partition(output', NoOffset))
            /\ cbePartition' = IF IsCBE THEN Len(partitions) + 1 ELSE cbePartition
         \/ UNCHANGED <<indexVars, partitions, cbePartition>>
      /\ pc' = IF SinglePass /\ footerOffset # EssenceSize(written) THEN "misplaced" ELSE "footer"
      /\ UNCHANGED <<supplied, written, firstWrite, waiting, frameCount, memoryOpen,
                     footerOffset, bodyOffset, track, endOfSamples>>
  BY DEF WriteIndexPartition, NeedsIndexPartition
<1> USE <1>1, Known, ConfigFacts
<1>2. pc \in Completing
  BY DEF Completing
<1>3. duration = written /\ (IsCBE => PairSettled /\ ~memoryOpen)
  BY <1>2, AllWritten
<1>4. pc' = "footer"
  <2>1. SinglePass => footerOffset = EssenceSize(written)
    <3> SUFFICES ASSUME SinglePass PROVE footerOffset = EssenceSize(written)
      OBVIOUS
    <3>1. IsCBE /\ ~memoryOpen
      BY <1>3
    <3>2. footerOffset = SizeByTable(segments, firstSegment, InputDuration)
          /\ duration = InputDuration
      BY <3>1 DEF PromiseInv
    <3>3. SizeUpTo(config, duration) = SizeByTable(segments, firstSegment, duration)
      BY <3>1 DEF SizesInv, Sizes
    <3> QED BY <1>3, <3>2, <3>3 DEF EssenceSize
  <2> QED BY <2>1
<1>5. CASE WriteSegments(FALSE, TRUE)
           /\ partitions' = Append(partitions, Partition(output', NoOffset))
           /\ (IsCBE => ~haveWritten /\ duration > 0 /\ cbePartition' = Len(partitions) + 1)
  <2>1. Writes
    BY <1>5, SegmentsWritten, Zenon DEF Writes, FileTypeInv
  <2>2. config' = config /\ written' = written
    BY <2>1, Wrote
  <2>3. PICK x, o : x = output' /\ o = NoOffset
    OBVIOUS
  <2>4. /\ partitions' = Append(partitions, Partition(x, o))
        /\ o # NoOffset /\ StartsApart(config) => o = SizeUpTo(config, written)
    BY <1>5, <2>3
  <2>5. /\ IsFile(partitions') /\ PartitionsInv'
        /\ Len(partitions) \in Nat \ {0} /\ Len(partitions') = Len(partitions) + 1
        /\ partitions'[Len(partitions) + 1].index = x
    BY <2>2, <2>4, PartitionAdded
  <2>6. ASSUME indexStatus' = "ok", IsCBE
        PROVE  /\ duration > 0 /\ cbePartition' \in 1 .. Len(partitions')
               /\ Len(partitions'[cbePartition'].index) = TableLength
    <3>1. output' = CBESegments(TRUE)
      BY <1>5, <2>6, SegmentsWritten
    <3>2. Len(CBESegments(TRUE)) = TableLength
      BY <2>6, LengthOfTable
    <3>3. cbePartition' = Len(partitions) + 1 /\ duration > 0
      BY <1>5, <2>6
    <3>4. cbePartition' \in 1 .. Len(partitions')
      BY ONLY <2>5, <3>3
    <3> QED BY ONLY <2>3, <2>5, <3>1, <3>2, <3>3, <3>4
  <2> QED BY <1>2, <1>4, <2>1, <2>5, <2>6, EndingInv
<1>6. CASE UNCHANGED <<indexVars, partitions, cbePartition>>
  <2>1. Writes /\ haveWritten' = haveWritten
    BY <1>6 DEF Writes, indexVars, FileTypeInv
  <2>2. partitions' = partitions /\ cbePartition' = cbePartition
    BY <1>6
  <2>3. config' = config /\ written' = written
    BY <2>1, Wrote
  <2>4. IsFile(partitions') /\ PartitionsInv'
    <3>1. IsFile(partitions')
      BY <2>2 DEF FileTypeInv
    <3>2. PartitionsInv'
      BY <2>2, <2>3, Zenon DEF PartitionsInv
    <3> QED BY <3>1, <3>2
  <2>5. IsCBE /\ haveWritten' =>
          /\ duration > 0 /\ cbePartition' \in 1 .. Len(partitions')
          /\ Len(partitions'[cbePartition'].index) = TableLength
    BY <2>1, <2>2 DEF PlacedInv
  <2> QED BY <1>2, <1>4, <2>1, <2>4, <2>5, EndingInv
<1> QED BY <1>5, <1>6

LEMMA WriteFooterInv ==
  ASSUME LayoutInv, WriteFooter
  PROVE  LayoutInv'
<1>1. /\ pc = "footer" /\ indexStatus = "ok" /\ pc' = "rewrite"
      /\ \/ /\ WriteSegments(TRUE, TRUE)
            /\ partitions' = Append(partitions, Partition(output', NoOffset))
            /\ cbePartition' = IF IsCBE /\ ~haveWritten THEN Len(partitions) + 1
                                                        ELSE cbePartition
         \/ /\ IsCBE => duration = 0 \/ haveWritten
            /\ partitions' = Append(partitions, Partition(<<>>, NoOffset))
            /\ UNCHANGED <<indexVars, cbePartition>>
      /\ UNCHANGED <<supplied, written, firstWrite, waiting, frameCount, memoryOpen,
                     footerOffset, bodyOffset, track, endOfSamples>>
  <2>1. ~HaveFooterSegments => (IsCBE => ~(duration > 0) \/ haveWritten)
    BY DEF HaveFooterSegments
  <2>2. duration \in Nat
    BY DEF LayoutInv, FileTypeInv
  <2>3. ~HaveFooterSegments => (IsCBE => duration = 0 \/ haveWritten)
    BY ONLY <2>1, <2>2
  <2> QED BY <2>3 DEF WriteFooter
<1> USE <1>1, Known, ConfigFacts
<1>2. pc \in Completing
  BY DEF Completing
<1>3. IsCBE /\ haveWritten => /\ duration > 0 /\ cbePartition \in 1 .. Len(partitions)
                              /\ Len(partitions[cbePartition].index) = TableLength
  BY DEF PlacedInv
<1>4. ASSUME config' = config, written' = written, NEW x,
             partitions' = Append(partitions, Partition(x, NoOffset))
      PROVE  /\ IsFile(partitions') /\ PartitionsInv'
             /\ Len(partitions) \in Nat \ {0} /\ Len(partitions') = Len(partitions) + 1
             /\ \A i \in 1 .. Len(partitions) : partitions'[i] = partitions[i]
             /\ partitions'[Len(partitions) + 1].index = x
             /\ \A i \in 1 .. Len(partitions) : i \in 1 .. Len(partitions')
             /\ Len(partitions) + 1 \in 1 .. Len(partitions')
  <2>1. PICK o : o = NoOffset
    OBVIOUS
  <2>2. /\ partitions' = Append(partitions, Partition(x, o))
        /\ o # NoOffset /\ StartsApart(config) => o = SizeUpTo(config, written)
    BY <1>4, <2>1
  <2>3. /\ IsFile(partitions') /\ PartitionsInv'
        /\ Len(partitions) \in Nat \ {0} /\ Len(partitions') = Len(partitions) + 1
        /\ \A i \in 1 .. Len(partitions) : partitions'[i] = partitions[i]
        /\ partitions'[Len(partitions) + 1].index = x
    BY <1>4, <2>2, PartitionAdded
  <2>4. /\ \A i \in 1 .. Len(partitions) : i \in 1 .. Len(partitions')
        /\ Len(partitions) + 1 \in 1 .. Len(partitions')
    BY ONLY <2>3
  <2> QED BY <2>3, <2>4
<1>5. CASE /\ WriteSegments(TRUE, TRUE)
           /\ partitions' = Append(partitions, Partition(output', NoOffset))
           /\ cbePartition' = IF IsCBE /\ ~haveWritten THEN Len(partitions) + 1 ELSE cbePartition
  <2>1. Writes
    BY <1>5, SegmentsWritten, Zenon DEF Writes, FileTypeInv
  <2>2. PICK x : x = output'
    OBVIOUS
  <2>3. /\ IsFile(partitions') /\ PartitionsInv'
        /\ \A i \in 1 .. Len(partitions) : partitions'[i] = partitions[i]
        /\ partitions'[Len(partitions) + 1].index = x
        /\ \A i \in 1 .. Len(partitions) : i \in 1 .. Len(partitions')
        /\ Len(partitions) + 1 \in 1 .. Len(partitions')
    <3>1. config' = config /\ written' = written
      BY <2>1, Wrote
    <3>2. partitions' = Append(partitions, Partition(x, NoOffset))
      BY <1>5, <2>2
    <3> QED BY <1>4, <3>1, <3>2
  <2>4. indexStatus' = "ok" =>
          haveWritten' = TRUE /\ duration # 0 /\ (IsCBE => output' = CBESegments(TRUE))
    BY <1>5, SegmentsWritten
  <2>5. ASSUME indexStatus' = "ok", IsCBE
        PROVE  /\ duration > 0 /\ cbePartition' \in 1 .. Len(partitions')
               /\ Len(partitions'[cbePartition'].index) = TableLength
    <3>1. duration > 0
      BY <2>4, <2>5 DEF FileTypeInv
    <3>2. CASE haveWritten
      <4>1. cbePartition' = cbePartition
        BY <1>5, <3>2
      <4> QED BY ONLY <1>3, <2>3, <2>5, <3>1, <3>2, <4>1
    <3>3. CASE ~haveWritten
      <4>1. cbePartition' = Len(partitions) + 1
        BY <1>5, <2>5, <3>3
      <4>2. Len(CBESegments(TRUE)) = TableLength /\ output' = CBESegments(TRUE)
        BY <2>4, <2>5, LengthOfTable
      <4> QED BY ONLY <2>2, <2>3, <3>1, <4>1, <4>2
    <3> QED BY <3>2, <3>3
  <2> QED BY <1>2, <2>1, <2>3, <2>4, <2>5, EndingInv
<1>6. CASE /\ IsCBE => duration = 0 \/ haveWritten
           /\ partitions' = Append(partitions, Partition(<<>>, NoOffset))
           /\ UNCHANGED <<indexVars, cbePartition>>
  <2>1. Writes /\ haveWritten' = haveWritten /\ cbePartition' = cbePartition
    BY <1>6 DEF Writes, indexVars, FileTypeInv
  <2>2. PICK x : x = <<>>
    OBVIOUS
  <2>3. /\ IsFile(partitions') /\ PartitionsInv'
        /\ \A i \in 1 .. Len(partitions) : partitions'[i] = partitions[i]
        /\ \A i \in 1 .. Len(partitions) : i \in 1 .. Len(partitions')
    <3>1. config' = config /\ written' = written
      BY <2>1, Wrote
    <3>2. partitions' = Append(partitions, Partition(x, NoOffset))
      BY <1>6, <2>2
    <3> QED BY <1>4, <3>1, <3>2
  <2>4. IsCBE /\ haveWritten' =>
          /\ duration > 0 /\ cbePartition' \in 1 .. Len(partitions')
          /\ Len(partitions'[cbePartition'].index) = TableLength
    BY ONLY <1>3, <2>1, <2>3
  <2>5. IsCBE /\ duration > 0 => haveWritten'
    BY <1>6, <2>1 DEF FileTypeInv
  <2> QED BY <1>2, <2>1, <2>3, <2>4, <2>5, EndingInv
<1> QED BY <1>5, <1>6

(* What is written again is a table of the same length.                    *)
LEMMA Rewritten ==
  ASSUME LayoutInv, Rewrite, Rewrites
  PROVE  /\ IsCBE /\ haveWritten /\ duration > 0 /\ indexStatus' = "ok"
         /\ cbePartition \in DOMAIN partitions
         /\ Len(partitions[cbePartition].index) = TableLength
         /\ partitions' = [partitions EXCEPT ![cbePartition].index = output']
         /\ Len(output') = TableLength
<1>1. /\ pc = "rewrite" /\ indexStatus = "ok" /\ WriteSegments(FALSE, TRUE)
      /\ partitions' = [partitions EXCEPT ![cbePartition].index = output']
      /\ ~SinglePass /\ ~firstWrite /\ IsCBE
  BY DEF Rewrite, Rewrites
<1> USE <1>1, Known, ConfigFacts
<1>2. written > 0 /\ written <= duration /\ written \in Nat /\ duration \in Nat
  BY DEF ProgressInv, Starting, FileTypeInv
<1>3. duration > 0 /\ duration # 0
  BY ONLY <1>2
<1>4. haveWritten /\ cbePartition \in 1 .. Len(partitions)
      /\ Len(partitions[cbePartition].index) = TableLength
  BY <1>3 DEF PlacedInv
<1>5. cbePartition \in DOMAIN partitions
  BY <1>4, FileLen DEF FileTypeInv
<1>6. ~DurationFails
  BY DEF DurationFails, SinglePass
<1>7. indexStatus' = "ok" /\ output' = CBESegments(TRUE)
  BY <1>3, <1>6, SegmentsWritten
<1>8. Len(output') = TableLength
  BY <1>7, LengthOfTable
<1> QED BY <1>3, <1>4, <1>5, <1>7, <1>8

LEMMA RewriteInv ==
  ASSUME LayoutInv, Rewrite
  PROVE  LayoutInv'
<1>1. /\ pc = "rewrite" /\ indexStatus = "ok" /\ pc' = "closed"
      /\ IF Rewrites
           THEN /\ WriteSegments(FALSE, TRUE)
                /\ partitions' = [partitions EXCEPT ![cbePartition].index = output']
           ELSE UNCHANGED <<indexVars, partitions>>
      /\ UNCHANGED <<supplied, written, firstWrite, waiting, frameCount, cbePartition,
                     memoryOpen, footerOffset, bodyOffset, track, endOfSamples>>
  BY DEF Rewrite
<1> USE <1>1, Known, ConfigFacts
<1>2. pc \in Completing
  BY DEF Completing
<1>3. CASE Rewrites
  <2>1. /\ IsCBE /\ haveWritten /\ duration > 0 /\ indexStatus' = "ok"
        /\ cbePartition \in DOMAIN partitions
        /\ partitions' = [partitions EXCEPT ![cbePartition].index = output']
        /\ Len(output') = TableLength
    BY <1>3, Rewritten
  <2>2. Writes /\ haveWritten' = TRUE
    <3>1. WriteSegments(FALSE, TRUE)
      BY <1>3
    <3>2. Writes
      BY <3>1, SegmentsWritten, Zenon DEF Writes, FileTypeInv
    <3>3. haveWritten' = TRUE
      BY <2>1, <3>1, SegmentsWritten
    <3> QED BY <3>2, <3>3
  <2>3. config' = config /\ written' = written
    BY <2>2, Wrote
  <2>4. PICK x, i : x = output' /\ i = cbePartition
    OBVIOUS
  <2>5. i \in DOMAIN partitions /\ partitions' = [partitions EXCEPT ![i].index = x]
    BY <2>1, <2>4
  <2>6. /\ IsFile(partitions') /\ PartitionsInv' /\ Len(partitions') = Len(partitions)
        /\ partitions'[i].index = x
    BY <2>3, <2>5, PartitionIndexed
  <2>7. cbePartition' \in 1 .. Len(partitions')
        /\ Len(partitions'[cbePartition'].index) = TableLength
    <3>1. DOMAIN partitions = 1 .. Len(partitions)
      BY FileLen DEF FileTypeInv
    <3> QED BY <2>1, <2>4, <2>6, <3>1
  <2> QED BY <1>2, <2>1, <2>2, <2>6, <2>7, EndingInv
<1>4. CASE ~Rewrites
  <2>1. Writes /\ haveWritten' = haveWritten /\ cbePartition' = cbePartition
        /\ partitions' = partitions
    BY <1>4 DEF Writes, indexVars, FileTypeInv
  <2>2. config' = config /\ written' = written
    BY <2>1, Wrote
  <2>3. IsFile(partitions') /\ PartitionsInv'
    <3>1. IsFile(partitions')
      BY <2>1 DEF FileTypeInv
    <3>2. PartitionsInv'
      BY <2>1, <2>2, Zenon DEF PartitionsInv
    <3> QED BY <3>1, <3>2
  <2>4. IsCBE /\ haveWritten' =>
          /\ duration > 0 /\ cbePartition' \in 1 .. Len(partitions')
          /\ Len(partitions'[cbePartition'].index) = TableLength
    BY <2>1 DEF PlacedInv
  <2>5. IsCBE /\ duration > 0 => haveWritten'
    BY <2>1 DEF PlacedInv
  <2> QED BY <1>2, <2>1, <2>3, <2>4, <2>5, EndingInv
<1> QED BY <1>3, <1>4

-----------------------------------------------------------------------------
(* The invariant holds at the start and in every step.                     *)

LEMMA InitInv ==
  ASSUME Init
  PROVE  LayoutInv
<1>1. /\ config \in Configs /\ cache = [e \in Element |-> <<>>]
      /\ segments = <<NewSegment(0)>>
      /\ firstSegment = (IF RequireIndexTableSegmentPair THEN <<NewSegment(0)>> ELSE <<>>)
      /\ duration = 0 /\ streamOffset = 0 /\ haveWritten = FALSE /\ indexStatus = "ok"
      /\ supplied = [e \in Element |-> 0] /\ written = 0
      /\ partitions = <<Partition(<<>>, IF MinPartitions THEN 0 ELSE NoOffset)>>
      /\ firstWrite = TRUE /\ waiting = FALSE /\ frameCount = 0 /\ cbePartition = 0
      /\ memoryOpen = TRUE /\ footerOffset = 0 /\ bodyOffset = 0 /\ track = Elements[1]
      /\ endOfSamples = FALSE /\ pc = "idle"
  BY DEF Init, InitIndexTable
<1> USE <1>1, ConfigFacts
<1>2. PICK o : o = (IF MinPartitions THEN 0 ELSE NoOffset)
  OBVIOUS
<1>3. PICK p, list : p = Partition(<<>>, o) /\ list = <<p>>
  OBVIOUS
<1>4. IsPartition(p) /\ p.index = <<>> /\ p.offset = o /\ p.essence = <<>>
  BY <1>3, NewPartition
<1>5. list \in Seq({p}) /\ Len(list) = 1 /\ list[1] = p
  BY <1>3
<1>6. IsFile(list)
  <2>1. \A i \in 1 .. Len(list) : IsPartition(list[i])
    BY <1>4, <1>5
  <2>2. Len(list) # 0
    BY <1>5
  <2> QED BY ONLY <1>5, <2>1, <2>2, FileOf
<1>7. partitions = list
  BY <1>2, <1>3
<1>8. FileTypeInv
  <2>1. supplied \in [Element -> 0 .. config.frames]
    OBVIOUS
  <2> QED BY <1>6, <1>7, <2>1 DEF FileTypeInv, Places, Statuses
<1>9. Open = p
  BY <1>5, <1>7 DEF Open
<1>10. MinPartitions => Open.offset # NoOffset
  BY <1>2, <1>4, <1>9, FileAssumption
<1>11. PartitionsInv
  <2>1. PICK c : c = config
    OBVIOUS
  <2>2. UnitsBefore(list, 1) = {}
    BY DEF UnitsBefore
  <2>3. UnitsBefore(list, 1 + 1) = {}
    <3>1. UnitsBefore(list, 1 + 1) = UnitsBefore(list, 1) \cup Range(list[1].essence)
      BY MoreUnits
    <3>2. Range(<<>>) = {}
      BY DEF Range
    <3> QED BY <1>4, <1>5, <2>2, <3>1, <3>2
  <2>4. 0 .. (0 - 1) = {}
    OBVIOUS
  <2>5. SizeUpTo(c, 0) = 0
    BY <2>1, SizeFacts
  <2>6. RightUnits(c, list, 0, 1)
    BY <1>4, <1>5 DEF RightUnits
  <2>7. RightOffset(c, list, 0, 1)
    <3>1. o # NoOffset => o = 0
      BY <1>2
    <3>2. 0 \in 0 .. 0
      OBVIOUS
    <3> QED BY ONLY <1>4, <1>5, <2>2, <2>4, <2>5, <3>1, <3>2 DEF RightOffset
  <2>8. LaidOut(c, list, 0)
    <3>1. \A i \in 1 .. Len(list) : i = 1
      BY <1>5
    <3>2. UnitsBefore(list, Len(list) + 1) = 0 .. (0 - 1)
      BY <1>5, <2>3, <2>4
    <3> QED BY ONLY <2>6, <2>7, <3>1, <3>2 DEF LaidOut
  <2> QED BY <1>7, <2>1, <2>8 DEF PartitionsInv
<1>12. ProgressInv
  <2>1. Supplied(config, supplied, 0)
    BY DEF Supplied, Element, Elements
  <2>2. streamOffset = SizeUpTo(config, 0)
    BY SizeFacts
  <2> QED BY <2>1, <2>2 DEF ProgressInv, Starting, Ending
<1>13. WaitingEntriesInv
  <2>1. DOMAIN cache = Range(config.elements)
    BY DEF Element, Elements
  <2>2. ASSUME NEW e \in Range(config.elements) \ config.cbe
        PROVE  DOMAIN cache[e] = 0 .. (supplied[e] - 1) /\ DOMAIN cache[e] = {}
    <3>1. e \in Element
      BY DEF Element, Elements
    <3>2. cache[e] = <<>> /\ supplied[e] = 0
      BY <3>1
    <3>3. DOMAIN <<>> = {} /\ 0 .. (0 - 1) = {}
      OBVIOUS
    <3> QED BY ONLY <3>2, <3>3
  <2> QED BY <2>1, <2>2 DEF WaitingEntriesInv, Waits
<1>14. OpenInv
  BY <1>10 DEF OpenInv, Starting, Filling
<1>15. SizesInv
  <2>1. PICK s : s = NewSegment(0)
    OBVIOUS
  <2>2. IsUnits(s) /\ s.byteCount = 0
    BY <2>1 DEF NewSegment, IsUnits
  <2>3. segments = <<s>> /\ firstSegment \in {<<>>, <<s>>}
        /\ (firstSegment # <<>> => config.avci)
    BY <2>1 DEF RequireIndexTableSegmentPair
  <2>4. <<s>>[1] = s /\ Len(<<s>>) = 1 /\ Len(<<>>) = 0 /\ <<s>> # <<>>
    OBVIOUS
  <2>5. FirstSize(segments, firstSegment) = 0 /\ NonFirstSize(segments) = 0
    BY ONLY <2>2, <2>3, <2>4 DEF FirstSize, NonFirstSize
  <2>6. ~(0 > Len(firstSegment))
    BY ONLY <2>3, <2>4
  <2>7. SizeUpTo(config, 0) = 0 /\ SizeByTable(segments, firstSegment, 0) = 0
    BY SizeFacts DEF SizeByTable
  <2>8. firstSegment # <<>> => firstSegment = <<firstSegment[1]>> /\ IsUnits(firstSegment[1])
    BY ONLY <2>2, <2>3, <2>4
  <2> QED BY ONLY <1>1, <2>2, <2>3, <2>4, <2>5, <2>6, <2>7, <2>8 DEF SizesInv, Sizes
<1>16. PromiseInv
  BY DEF PromiseInv, PairSettled, Starting, Filling, Ending
<1>17. PlacedInv
  BY DEF PlacedInv
<1> QED BY <1>8, <1>11, <1>12, <1>13, <1>14, <1>15, <1>16, <1>17 DEF LayoutInv

LEMMA StutterInv ==
  ASSUME LayoutInv, UNCHANGED vars
  PROVE  LayoutInv'
<1>1. Decides /\ UNCHANGED <<firstWrite, waiting, frameCount, cbePartition, memoryOpen,
                             footerOffset, bodyOffset, track, endOfSamples, pc>>
  BY DEF vars, fileVars, indexVars, Decides
<1>2. FileTypeInv'
  <2>1. FileTypeInv
    BY DEF LayoutInv
  <2> QED BY <1>1, <2>1, Decided, SameConfig DEF FileTypeInv
<1>3. CASE indexStatus # "ok"
  BY <1>1, <1>2, <1>3, Decided DEF LayoutInv
<1>4. CASE indexStatus = "ok"
  <2> USE <1>1, <1>4, Known, Decided, SameConfig, ConfigFacts
  <2>1. ProgressInv'
    BY DEF ProgressInv
  <2>2. OpenInv'
    BY DEF OpenInv
  <2>3. IsCBE => PromiseInv' /\ PlacedInv'
    BY DEF PromiseInv, PlacedInv, PairSettled
  <2>4. pc' # "misplaced"
    BY DEF LayoutInv
  <2> QED BY <1>2, <2>1, <2>2, <2>3, <2>4, DecidedInv
<1> QED BY <1>3, <1>4

LEMMA NextInv ==
  ASSUME LayoutInv, [Next]_vars
  PROVE  LayoutInv'
<1>1. CASE \E e \in Element : StartFrame(e)
  BY <1>1, StartFrameInv
<1>2. CASE \E p \in 0 .. (config.frames - 1) : CompleteEntry(p)
  BY <1>2, CompleteEntryInv
<1>3. CASE \E complete \in BOOLEAN : WriteFrame(complete)
  BY <1>3, WriteFrameInv
<1>4. CASE LeaveLoop \/ FirstPackage \/ WhileWaiting \/ NextPackage
  BY <1>4, LeaveLoopInv, FirstPackageInv, WhileWaitingInv, NextPackageInv
<1>5. CASE PreIndex \/ WriteCBEIndex \/ StartPartition \/ WriteEssence
  BY <1>5, PreIndexInv, WriteCBEIndexInv, StartPartitionInv, WriteEssenceInv
<1>6. CASE CompleteWrite \/ IgnoreEntries \/ EndSamples
  BY <1>6, CompleteWriteInv, IgnoreEntriesInv, EndSamplesInv
<1>7. CASE WriteIndexPartition \/ WriteFooter \/ Rewrite
  BY <1>7, WriteIndexPartitionInv, WriteFooterInv, RewriteInv
<1>8. CASE GiveUpPreviousGOP
  BY <1>8, GiveUpPreviousGOPInv
<1>9. CASE Done \/ UNCHANGED vars
  BY <1>9, StutterInv DEF Done
<1> QED BY <1>1, <1>2, <1>3, <1>4, <1>5, <1>6, <1>7, <1>8, <1>9 DEF Next

-----------------------------------------------------------------------------
(* The theorems.                                                           *)

(* The layout of the file, the entries that wait, the sizes that the table *)
(* has, and what the header says are right in every state.                 *)
THEOREM LayoutInvariant == Spec => []LayoutInv
<1>1. Init => LayoutInv
  BY InitInv
<1>2. LayoutInv /\ [Next]_vars => LayoutInv'
  BY NextInv
<1> QED BY <1>1, <1>2, PTL DEF Spec

(* Essence is only in partitions that were opened for it, in order, and    *)
(* each begins at the start of a GOP, however long the packages that       *)
(* decide it waited in the queue.                                          *)
THEOREM GOPsStartPartitions == Spec => []PartitionsStartAtGOPs
<1>1. LayoutInv => PartitionsStartAtGOPs
  <2> SUFFICES ASSUME LayoutInv PROVE PartitionsStartAtGOPs
    OBVIOUS
  <2>1. IsFile(partitions) /\ LaidOut(config, partitions, written) /\ config \in Configs
    BY DEF LayoutInv, FileTypeInv, PartitionsInv
  <2>2. IsCBE <=> config.cbe = Range(config.elements)
    BY <2>1, ConfigFacts
  <2>3. ASSUME NEW i \in DOMAIN partitions, partitions[i].essence # <<>>
        PROVE  LET units == partitions[i].essence
               IN /\ partitions[i].offset # NoOffset
                  /\ \A k \in DOMAIN units : units[k] = units[1] + k - 1
                  /\ ~IsCBE => units[1] \in GOPStart
    <3>1. i \in 1 .. Len(partitions)
      BY <2>1, FileLen
    <3>2. partitions[i].essence \in Seq(Nat)
      BY <2>1, <3>1 DEF IsFile, IsPartition
    <3>3. DOMAIN partitions[i].essence = 1 .. Len(partitions[i].essence)
      BY <3>2, LenProperties
    <3>4. RightUnits(config, partitions, written, i)
      BY <2>1, <3>1 DEF LaidOut
    <3> QED BY <2>2, <2>3, <3>3, <3>4 DEF RightUnits
  <2> QED BY <2>3 DEF PartitionsStartAtGOPs
<1> QED BY <1>1, LayoutInvariant, PTL

(* The body offset of every partition is the size of the essence before    *)
(* it, unless a constant table that comes first has partitions of one edit *)
(* unit: then it is indexed for two of them before the first is written.   *)
THEOREM BodyOffsetsFollow ==
  ASSUME \A c \in Configs : StartsApart(c)
  PROVE  Spec => []BodyOffsetsRight
<1>1. LayoutInv => BodyOffsetsRight
  <2> SUFFICES ASSUME LayoutInv PROVE BodyOffsetsRight
    OBVIOUS
  <2>1. IsFile(partitions) /\ LaidOut(config, partitions, written) /\ StartsApart(config)
    BY DEF LayoutInv, FileTypeInv, PartitionsInv
  <2>2. ASSUME NEW i \in DOMAIN partitions, partitions[i].offset # NoOffset
        PROVE  partitions[i].offset = EssenceBefore(i)
    <3>1. i \in 1 .. Len(partitions)
      BY <2>1, FileLen
    <3>2. RightOffset(config, partitions, written, i)
      BY <2>1, <3>1 DEF LaidOut
    <3>3. PICK k : /\ UnitsBefore(partitions, i) = 0 .. (k - 1)
                   /\ partitions[i].offset = SizeUpTo(config, k)
      BY <2>1, <2>2, <3>2 DEF RightOffset
    <3>4. EssenceBefore(i) = SumFunctionOnSet(UnitSizes(config), UnitsBefore(partitions, i))
      BY DEF EssenceBefore, UnitsBefore
    <3> QED BY <3>3, <3>4 DEF SizeUpTo
  <2> QED BY <2>2 DEF BodyOffsetsRight
<1> QED BY <1>1, LayoutInvariant, PTL

(* The footer of a file written in a single pass is where its header said, *)
(* computed from the one or two edit units that the table had by then.     *)
THEOREM FooterWherePromised == Spec => []FooterInPlace
<1>1. LayoutInv => FooterInPlace
  BY DEF LayoutInv, FooterInPlace
<1> QED BY <1>1, LayoutInvariant, PTL

(* A constant table that was written with its duration left open, or       *)
(* before its second edit unit, has the same segments when it is complete. *)
THEOREM RewrittenTableFits == Spec => RewriteFits
<1> DEFINE Fits ==
      Rewrites /\ pc = "rewrite" /\ pc' = "closed" =>
        Len(partitions'[cbePartition].index) = Len(partitions[cbePartition].index)
<1>1. LayoutInv /\ [Next]_vars => [Fits]_vars
  <2> SUFFICES ASSUME LayoutInv, [Next]_vars, Rewrites, pc = "rewrite", pc' = "closed"
               PROVE  Len(partitions'[cbePartition].index) = Len(partitions[cbePartition].index)
    OBVIOUS
  <2>1. Rewrite
    <3>1. ~(\E e \in Element : StartFrame(e))
      BY DEF StartFrame
    <3>2. ~(\E p \in 0 .. (config.frames - 1) : CompleteEntry(p))
      BY DEF CompleteEntry
    <3>3. ~(\E complete \in BOOLEAN : WriteFrame(complete))
      BY DEF WriteFrame
    <3>4. ~(LeaveLoop \/ FirstPackage \/ WhileWaiting \/ NextPackage)
      BY DEF LeaveLoop, FirstPackage, WhileWaiting, NextPackage, Looping
    <3>5. ~(PreIndex \/ WriteCBEIndex \/ StartPartition \/ WriteEssence)
      BY DEF PreIndex, WriteCBEIndex, StartPartition, WriteEssence
    <3>6. ~(CompleteWrite \/ IgnoreEntries \/ EndSamples)
      BY DEF CompleteWrite, IgnoreEntries, EndSamples
    <3>7. ~(WriteIndexPartition \/ WriteFooter)
      BY DEF WriteIndexPartition, WriteFooter
    <3>8. ~GiveUpPreviousGOP
      BY DEF GiveUpPreviousGOP
    <3>9. ~(Done \/ UNCHANGED vars)
      BY DEF Done, vars, fileVars
    <3> QED BY <3>1, <3>2, <3>3, <3>4, <3>5, <3>6, <3>7, <3>8, <3>9 DEF Next
  <2>2. PICK x, i : x = output' /\ i = cbePartition
    OBVIOUS
  <2>3. /\ i \in DOMAIN partitions /\ partitions' = [partitions EXCEPT ![i].index = x]
        /\ Len(partitions[i].index) = TableLength /\ Len(x) = TableLength
    BY <2>1, <2>2, Rewritten
  <2>4. IsPartition(partitions[i])
    BY <2>3, FileLen DEF LayoutInv, FileTypeInv, IsFile
  <2>5. partitions'[i].index = x
    BY <2>3, <2>4 DEF IsPartition
  <2> QED BY <2>2, <2>3, <2>5
<1>2. Spec => [][Fits]_vars
  BY <1>1, LayoutInvariant, PTL DEF Spec
<1> QED BY <1>2 DEF RewriteFits

-----------------------------------------------------------------------------
(* The segments of a file, in order. *)

Joined(a, b) == a \o b

(* f[i] is what the first i lists of s hold, one after the other.           *)
Flattens(f, s, n) ==
  f = [i \in 1 .. n |-> IF i = 1 THEN s[i] ELSE Joined(f[i - 1], s[i])]

LEMMA FlattensAt ==
  ASSUME NEW f, NEW s, NEW n \in Nat, Flattens(f, s, n)
  PROVE  /\ n > 0 => f[1] = s[1]
         /\ \A i \in 2 .. n : f[i] = Joined(f[i - 1], s[i])
  BY DEF Flattens

LEMMA FlattensMore ==
  ASSUME NEW f, NEW s, NEW n \in Nat, Flattens(f, s, n)
  PROVE  \E g : Flattens(g, s, n + 1)
<1> DEFINE x == IF n = 0 THEN s[1] ELSE Joined(f[n], s[n + 1])
           g == [i \in 1 .. n + 1 |-> IF i <= n THEN f[i] ELSE x]
           h == [i \in 1 .. n + 1 |-> IF i = 1 THEN s[i] ELSE Joined(g[i - 1], s[i])]
<1>1. ASSUME NEW i \in 1 .. n + 1 PROVE g[i] = IF i = 1 THEN s[i] ELSE Joined(g[i - 1], s[i])
  <2>1. CASE i <= n
    <3>1. g[i] = f[i] /\ (i # 1 => g[i - 1] = f[i - 1])
      BY <2>1
    <3>2. i # 1 => i \in 2 .. n
      BY <2>1
    <3> QED BY <2>1, <3>1, <3>2, FlattensAt
  <2>2. CASE i = n + 1
    <3>1. g[i] = x /\ (i # 1 => g[i - 1] = f[n] /\ n # 0)
      BY <2>2
    <3> QED BY <2>2, <3>1
  <2> QED BY <2>1, <2>2
<1>2. g = h
  BY <1>1
<1> HIDE DEF x
<1>3. Flattens(g, s, n + 1)
  BY <1>2 DEF Flattens
<1> QED BY <1>3

LEMMA FlattensSome ==
  ASSUME NEW s, NEW n \in Nat
  PROVE  \E f : Flattens(f, s, n)
<1> DEFINE T == {k \in Nat : ~\E f : Flattens(f, s, k)}
<1>1. SUFFICES ASSUME T # {} PROVE FALSE
  OBVIOUS
<1>2. PICK m \in T : \A k \in T : m <= k
  BY <1>1, LeastNumber
<1>3. CASE m = 0
  <2>1. PICK f : f = [i \in 1 .. 0 |-> 0]
    OBVIOUS
  <2>2. f = [i \in 1 .. 0 |-> IF i = 1 THEN s[i] ELSE Joined(f[i - 1], s[i])]
    BY <2>1
  <2> QED BY <1>2, <1>3, <2>2 DEF Flattens
<1>4. CASE m # 0
  <2>1. PICK k \in Nat : m = k + 1
    <3>1. m \in Nat /\ m - 1 \in Nat /\ m = (m - 1) + 1
      BY <1>2, <1>4
    <3> QED BY <3>1
  <2>2. k \notin T
    BY <1>2, <2>1
  <2>3. PICK f : Flattens(f, s, k)
    BY <2>2
  <2>4. \E g : Flattens(g, s, k + 1)
    BY <2>3, FlattensMore
  <2> QED BY <1>2, <2>1, <2>4
<1> QED BY <1>3, <1>4

LEMMA FlattenSeqIs ==
  ASSUME NEW s, Len(s) \in Nat \ {0}
  PROVE  \E f : Flattens(f, s, Len(s)) /\ FlattenSeq(s) = f[Len(s)]
<1> DEFINE f == CHOOSE g : Flattens(g, s, Len(s))
<1>1. Flattens(f, s, Len(s))
  BY FlattensSome
<1>2. FlattenSeq(s) = f[Len(s)]
  BY DEF FlattenSeq, Flattens, Joined
<1> QED BY <1>1, <1>2

LEMMA FlattensSame ==
  ASSUME NEW f, NEW s, NEW n \in Nat, Flattens(f, s, n), NEW g, NEW t, NEW m \in Nat,
         Flattens(g, t, m), n <= m, \A i \in 1 .. n : t[i] = s[i]
  PROVE  \A i \in 1 .. n : g[i] = f[i]
<1> DEFINE T == {k \in 1 .. n : g[k] # f[k]}
<1>1. SUFFICES ASSUME T # {} PROVE FALSE
  OBVIOUS
<1>2. PICK k \in T : \A j \in T : k <= j
  <2>1. T \in SUBSET Nat
    OBVIOUS
  <2> QED BY <1>1, <2>1, LeastNumber
<1>3. CASE k = 1
  <2>1. f[1] = s[1] /\ g[1] = t[1]
    BY <1>3, FlattensAt
  <2> QED BY <1>2, <1>3, <2>1
<1>4. CASE k # 1
  <2>1. k \in 2 .. n /\ k \in 2 .. m /\ k - 1 \in 1 .. n /\ k - 1 < k
    BY <1>2, <1>4
  <2>2. f[k] = Joined(f[k - 1], s[k]) /\ g[k] = Joined(g[k - 1], t[k])
    BY <2>1, FlattensAt
  <2>3. g[k - 1] = f[k - 1]
    <3> SUFFICES ASSUME k - 1 \in T PROVE FALSE
      BY <2>1
    <3>1. k <= k - 1
      BY <1>2
    <3> QED BY <2>1, <3>1
  <2>4. t[k] = s[k]
    BY <2>1
  <2>5. g[k] # f[k]
    BY <1>2
  <2> QED BY <2>2, <2>3, <2>4, <2>5
<1> QED BY <1>3, <1>4

(* Lists that hold the same.                                                *)
LEMMA FlattenSame ==
  ASSUME NEW s, NEW t, NEW n \in Nat \ {0}, Len(s) = n, Len(t) = n,
         \A i \in 1 .. n : t[i] = s[i]
  PROVE  FlattenSeq(t) = FlattenSeq(s)
<1>1. PICK f : Flattens(f, s, n) /\ FlattenSeq(s) = f[n]
  BY FlattenSeqIs
<1>2. PICK g : Flattens(g, t, n) /\ FlattenSeq(t) = g[n]
  BY FlattenSeqIs
<1>3. \A i \in 1 .. n : g[i] = f[i]
  BY <1>1, <1>2, FlattensSame
<1> QED BY <1>1, <1>2, <1>3

(* A list with one more.                                                    *)
LEMMA FlattenMore ==
  ASSUME NEW s, NEW t, NEW n \in Nat \ {0}, Len(s) = n, Len(t) = n + 1,
         \A i \in 1 .. n : t[i] = s[i]
  PROVE  FlattenSeq(t) = FlattenSeq(s) \o t[n + 1]
<1>1. PICK f : Flattens(f, s, n) /\ FlattenSeq(s) = f[n]
  BY FlattenSeqIs
<1>2. PICK g : Flattens(g, t, n + 1) /\ FlattenSeq(t) = g[n + 1]
  BY FlattenSeqIs
<1>3. \A i \in 1 .. n : g[i] = f[i]
  BY <1>1, <1>2, FlattensSame
<1>4. g[n + 1] = Joined(g[n], t[n + 1])
  BY <1>2, FlattensAt
<1>5. FlattenSeq(t) = Joined(FlattenSeq(s), t[n + 1])
  BY <1>1, <1>2, <1>3, <1>4
<1> QED BY ONLY <1>5, Zenon DEF Joined

(* All but one are empty.                                                   *)
LEMMA FlattenOnly ==
  ASSUME NEW s, NEW n \in Nat \ {0}, Len(s) = n, NEW c \in 1 .. n, NEW S, s[c] \in Seq(S),
         \A i \in 1 .. n : i # c => s[i] = <<>>
  PROVE  FlattenSeq(s) = s[c]
<1>1. PICK f : Flattens(f, s, n) /\ FlattenSeq(s) = f[n]
  BY FlattenSeqIs
<1>2. PICK x : x = s[c]
  OBVIOUS
<1>3. Joined(<<>>, x) = x /\ Joined(x, <<>>) = x /\ Joined(<<>>, <<>>) = <<>>
  BY <1>2, ConcatEmptySeq, EmptySeq DEF Joined
<1> DEFINE T == {k \in 1 .. n : f[k] # IF k < c THEN <<>> ELSE x}
<1>4. T = {}
  <2>1. SUFFICES ASSUME T # {} PROVE FALSE
    OBVIOUS
  <2>2. PICK k \in T : \A j \in T : k <= j
    <3>1. T \in SUBSET Nat
      OBVIOUS
    <3> QED BY <2>1, <3>1, LeastNumber
  <2>3. f[k] # (IF k < c THEN <<>> ELSE x) /\ k \in 1 .. n
    BY <2>2
  <2>4. CASE k = 1
    <3>1. f[1] = s[1]
      BY <1>1, FlattensAt
    <3>2. s[1] = IF 1 < c THEN <<>> ELSE x
      BY <1>2
    <3> QED BY <2>3, <2>4, <3>1, <3>2
  <2>5. CASE k # 1
    <3>1. k \in 2 .. n /\ k - 1 \in 1 .. n /\ k - 1 < k
      BY <2>3, <2>5
    <3>2. f[k] = Joined(f[k - 1], s[k])
      BY <1>1, <3>1, FlattensAt
    <3>3. f[k - 1] = IF k - 1 < c THEN <<>> ELSE x
      <4> SUFFICES ASSUME k - 1 \in T PROVE FALSE
        BY <3>1
      <4>1. k <= k - 1
        BY <2>2
      <4> QED BY <3>1, <4>1
    <3>4. CASE k < c
      BY <1>3, <2>3, <3>1, <3>2, <3>3, <3>4
    <3>5. CASE k = c
      BY <1>2, <1>3, <2>3, <3>1, <3>2, <3>3, <3>5
    <3>6. CASE k > c
      BY <1>3, <2>3, <3>1, <3>2, <3>3, <3>6
    <3> QED BY <3>1, <3>4, <3>5, <3>6
  <2> QED BY <2>4, <2>5
<1>5. n \notin T
  BY <1>4
<1> QED BY <1>1, <1>2, <1>5

-----------------------------------------------------------------------------
(* The invariant by which the file is whole when it is closed. *)

Finished == {"rewrite", "closed"}
Indexes(list) == [i \in DOMAIN list |-> list[i].index]

(* A variable table: the segments begin where what was flushed ends.       *)
Kept == IF RepeatIndexTable THEN flushed ELSE FlattenSeq(Indexes(partitions))

VariableTableInv ==
  /\ IsTable(segments) /\ IsTable(flushed)
  /\ \A i \in 1 .. Len(segments) :
       /\ Len(segments[i].entries) = segments[i].duration
       /\ segments[i].duration > 0 \/ (i = 1 /\ duration = 0)
  /\ IF pc \in Finished
       THEN Spans(FileIndex, 0, duration)
       ELSE IsTable(Kept)
            /\ \E m \in 0 .. duration : Spans(Kept, 0, m) /\ Spans(segments, m, duration)

(* A constant table: where it was written before the essence, it describes *)
(* as many edit units as were promised, or will be written again; and what *)
(* is in the last partition describes all of them.                         *)
Table == partitions[cbePartition].index

Promised(list, input, first, n) ==
  Spans(list, 0, input) \/ (first # <<>> /\ n = 1 /\ Spans(list, 0, 1))

Settled == pc = "closed" \/ (pc = "rewrite" /\ cbePartition = Len(partitions))

ConstantTableInv ==
  /\ ConstantTable
  /\ SinglePass /\ pc \in Ending \ {"end"} => duration = InputDuration
  /\ haveWritten =>
       /\ IsTable(Table)
       /\ SinglePass => Promised(Table, InputDuration, firstSegment, duration)
       /\ Settled => Spans(Table, 0, duration)
  /\ ~RepeatIndexTable =>
       \A i \in 1 .. Len(partitions) :
         partitions[i].index # <<>> => haveWritten /\ i = cbePartition
  /\ RepeatIndexTable /\ pc \in Finished => Spans(partitions[Len(partitions)].index, 0, duration)

WholeInv ==
  /\ pc = "closed" => indexStatus = "ok"
  /\ indexStatus = "ok" => IF IsCBE THEN ConstantTableInv ELSE VariableTableInv

LEMMA WholeFailed ==
  ASSUME indexStatus' # "ok", pc' # "closed"
  PROVE  WholeInv'
  BY DEF WholeInv

LEMMA IndexesOf ==
  ASSUME NEW list, IsFile(list)
  PROVE  /\ Len(list) \in Nat \ {0} /\ Len(Indexes(list)) = Len(list)
         /\ \A i \in 1 .. Len(list) : Indexes(list)[i] = list[i].index
<1>1. Len(list) \in Nat \ {0} /\ DOMAIN list = 1 .. Len(list)
  BY FileLen
<1> QED BY <1>1 DEF Indexes

LEMMA SameIndexes ==
  ASSUME NEW a, NEW b, IsFile(a), IsFile(b), Len(b) = Len(a),
         \A i \in 1 .. Len(a) : b[i].index = a[i].index
  PROVE  FlattenSeq(Indexes(b)) = FlattenSeq(Indexes(a))
<1>1. PICK s, t, n : s = Indexes(a) /\ t = Indexes(b) /\ n = Len(a)
  OBVIOUS
<1>2. /\ n \in Nat \ {0} /\ Len(s) = n /\ Len(t) = n
      /\ \A i \in 1 .. n : s[i] = a[i].index /\ t[i] = b[i].index
  BY <1>1, IndexesOf
<1>3. \A i \in 1 .. n : t[i] = s[i]
  BY <1>1, <1>2
<1> QED BY <1>1, <1>2, <1>3, FlattenSame

LEMMA OneMoreIndex ==
  ASSUME NEW a, NEW b, IsFile(a), IsFile(b), Len(b) = Len(a) + 1,
         \A i \in 1 .. Len(a) : b[i].index = a[i].index
  PROVE  FlattenSeq(Indexes(b)) = FlattenSeq(Indexes(a)) \o b[Len(a) + 1].index
<1>1. PICK s, t, n : s = Indexes(a) /\ t = Indexes(b) /\ n = Len(a)
  OBVIOUS
<1>2. /\ n \in Nat \ {0} /\ Len(s) = n /\ Len(t) = n + 1
      /\ \A i \in 1 .. n : s[i] = a[i].index
      /\ \A i \in 1 .. n + 1 : t[i] = b[i].index
  BY <1>1, IndexesOf
<1>3. \A i \in 1 .. n : t[i] = s[i]
  BY <1>1, <1>2
<1>4. FlattenSeq(t) = FlattenSeq(s) \o t[n + 1]
  BY <1>2, <1>3, FlattenMore
<1>5. t[n + 1] = b[n + 1].index
  BY <1>2
<1> QED BY ONLY <1>1, <1>4, <1>5, Zenon

(* Neither the table nor the indexes in the file change.                   *)
TableStays ==
  /\ UNCHANGED <<config, segments, flushed, firstSegment, duration, haveWritten, indexStatus,
                 cbePartition>>
  /\ Len(partitions') = Len(partitions)
  /\ \A i \in 1 .. Len(partitions) : partitions'[i].index = partitions[i].index

LEMMA WholeStays ==
  ASSUME LayoutInv, LayoutInv', WholeInv, TableStays, pc \notin Finished, pc' \notin Finished,
         IsCBE /\ SinglePass /\ pc' \in Ending \ {"end"} => duration = InputDuration
  PROVE  WholeInv'
<1>1. /\ config' = config /\ segments' = segments /\ flushed' = flushed
      /\ firstSegment' = firstSegment /\ duration' = duration /\ haveWritten' = haveWritten
      /\ indexStatus' = indexStatus /\ cbePartition' = cbePartition
      /\ Len(partitions') = Len(partitions)
      /\ \A i \in 1 .. Len(partitions) : partitions'[i].index = partitions[i].index
  BY DEF TableStays
<1>2. /\ IsCBE' = IsCBE /\ SinglePass' = SinglePass /\ InputDuration' = InputDuration
      /\ RepeatIndexTable' = RepeatIndexTable
  BY <1>1, SameConfig DEF RepeatIndexTable
<1>3. IsFile(partitions) /\ IsFile(partitions')
  BY DEF LayoutInv, FileTypeInv
<1>4. pc' # "closed"
  BY DEF Finished
<1>5. CASE indexStatus # "ok"
  BY <1>1, <1>4, <1>5, WholeFailed
<1>6. CASE indexStatus = "ok" /\ ~IsCBE
  <2>1. VariableTableInv
    BY <1>6 DEF WholeInv
  <2>2. PICK a, b : a = partitions /\ b = partitions'
    OBVIOUS
  <2>3. FlattenSeq(Indexes(b)) = FlattenSeq(Indexes(a))
    BY <1>1, <1>3, <2>2, SameIndexes
  <2>4. Kept' = Kept
    BY <1>1, <1>2, <2>2, <2>3, Zenon DEF Kept
  <2>5. VariableTableInv'
    BY <1>1, <2>1, <2>4, Zenon DEF VariableTableInv
  <2> QED BY <1>2, <1>4, <1>6, <2>5 DEF WholeInv
<1>7. CASE indexStatus = "ok" /\ IsCBE
  <2>1. ConstantTableInv
    BY <1>7 DEF WholeInv
  <2>2. ConstantTable'
    BY <1>1, <2>1, Zenon DEF ConstantTableInv, ConstantTable, ConstantInv, FirstUnits
  <2>3. haveWritten => Table' = Table
    <3>1. haveWritten => cbePartition \in 1 .. Len(partitions)
      BY <1>7, Known DEF PlacedInv
    <3> QED BY <1>1, <3>1 DEF Table
  <2>4. SinglePass' /\ pc' \in Ending \ {"end"} => duration' = InputDuration'
    BY <1>1, <1>2, <1>7
  <2>5. haveWritten' =>
          /\ IsTable(Table')
          /\ SinglePass' => Promised(Table', InputDuration', firstSegment', duration')
    <3> SUFFICES ASSUME haveWritten
                 PROVE  /\ IsTable(Table)
                        /\ SinglePass => Promised(Table, InputDuration, firstSegment, duration)
      BY <1>1, <1>2, <2>3, Zenon
    <3> QED BY <2>1 DEF ConstantTableInv
  <2>6. ~RepeatIndexTable' =>
          \A i \in 1 .. Len(partitions') :
            partitions'[i].index # <<>> => haveWritten' /\ i = cbePartition'
    BY <1>1, <1>2, <2>1 DEF ConstantTableInv
  <2>7. ~Settled' /\ pc' \notin Finished
    BY DEF Settled, Finished
  <2>8. ConstantTableInv'
    BY <2>2, <2>4, <2>5, <2>6, <2>7 DEF ConstantTableInv
  <2> QED BY <1>2, <1>4, <1>7, <2>8 DEF WholeInv
<1> QED BY <1>5, <1>6, <1>7

(* Nor do they when only the course of the file is decided.                *)
LEMMA WholeDecided ==
  ASSUME LayoutInv, LayoutInv', WholeInv, UNCHANGED <<indexVars, partitions, cbePartition>>,
         pc \notin Finished, pc' \notin Finished,
         pc' \in Ending \ {"end"} => ~SinglePass \/ duration = InputDuration
  PROVE  WholeInv'
<1>1. TableStays
  BY DEF TableStays, indexVars
<1> QED BY <1>1, WholeStays

LEMMA StartFrameWhole ==
  ASSUME LayoutInv, LayoutInv', WholeInv, NEW e \in Element, StartFrame(e)
  PROVE  WholeInv'
<1>1. pc = "idle" /\ pc' = "track" /\ UNCHANGED <<indexVars, partitions, cbePartition>>
  BY DEF StartFrame
<1> QED BY <1>1, WholeDecided DEF Finished, Ending

LEMMA DecisionsWhole ==
  ASSUME LayoutInv, LayoutInv', WholeInv,
         LeaveLoop \/ FirstPackage \/ WhileWaiting \/ NextPackage \/ CompleteWrite
  PROVE  WholeInv'
<1>1. CASE LeaveLoop
  <2>1. pc = "loop" /\ pc' \in {"end", "idle"} /\ UNCHANGED <<indexVars, partitions, cbePartition>>
    BY <1>1 DEF LeaveLoop
  <2> QED BY <2>1, WholeDecided DEF Finished, Ending
<1>2. CASE FirstPackage
  <2>1. pc = "loop" /\ pc' \in Starting /\ UNCHANGED <<indexVars, partitions, cbePartition>>
    BY <1>2 DEF FirstPackage, Looping, Starting
  <2> QED BY <2>1, WholeDecided DEF Finished, Ending, Starting
<1>3. CASE WhileWaiting
  <2>1. pc = "loop" /\ pc' \in {"partition", "essence", "failed", "idle"}
        /\ UNCHANGED <<indexVars, partitions, cbePartition>>
    BY <1>3 DEF WhileWaiting, Looping
  <2> QED BY <2>1, WholeDecided DEF Finished, Ending
<1>4. CASE NextPackage
  <2>1. pc = "loop" /\ pc' \in {"partition", "essence", "idle"}
        /\ UNCHANGED <<indexVars, partitions, cbePartition>>
    BY <1>4 DEF NextPackage, Looping
  <2> QED BY <2>1, WholeDecided DEF Finished, Ending
<1>5. CASE CompleteWrite
  <2>1. pc = "idle" /\ pc' = "completing" /\ UNCHANGED <<indexVars, partitions, cbePartition>>
    BY <1>5 DEF CompleteWrite
  <2> QED BY <2>1, WholeDecided DEF Finished, Ending
<1> QED BY <1>1, <1>2, <1>3, <1>4, <1>5

LEMMA IgnoreEntriesWhole ==
  ASSUME LayoutInv, LayoutInv', WholeInv, IgnoreEntries
  PROVE  WholeInv'
<1>1. pc = "completing" /\ pc' = "loop" /\ IgnoreRequiredUpdates(Element)
      /\ UNCHANGED <<partitions, cbePartition>>
  BY DEF IgnoreEntries
<1>2. TableStays
  BY <1>1 DEF TableStays, IgnoreRequiredUpdates
<1> QED BY <1>1, <1>2, WholeStays DEF Finished, Ending

LEMMA GiveUpPreviousGOPWhole ==
  ASSUME LayoutInv, LayoutInv', WholeInv, GiveUpPreviousGOP
  PROVE  WholeInv'
<1>1. pc = "track" /\ pc' = pc /\ IgnoreRequiredUpdates({track})
      /\ UNCHANGED <<partitions, cbePartition>>
  BY DEF GiveUpPreviousGOP
<1>2. TableStays
  BY <1>1 DEF TableStays, IgnoreRequiredUpdates
<1> QED BY <1>1, <1>2, WholeStays DEF Finished, Ending

LEMMA EndSamplesWhole ==
  ASSUME LayoutInv, LayoutInv', WholeInv, EndSamples
  PROVE  WholeInv'
<1>1. /\ pc = "end"
      /\ pc' = IF SinglePass /\ duration # InputDuration THEN "failed" ELSE "index"
      /\ UNCHANGED <<indexVars, partitions, cbePartition>>
  BY DEF EndSamples
<1>2. pc' \in {"failed", "index"} /\ (pc' = "index" => ~SinglePass \/ duration = InputDuration)
  BY <1>1
<1> QED BY <1>1, <1>2, WholeDecided DEF Finished, Ending

LEMMA WriteFrameWhole ==
  ASSUME LayoutInv, LayoutInv', WholeInv, NEW complete \in BOOLEAN, WriteFrame(complete)
  PROVE  WholeInv'
<1>1. pc = "track" /\ UNCHANGED <<partitions, cbePartition>>
      /\ \/ IndexFails /\ pc' = "failed"
         \/ /\ pc' = "loop"
            /\ \/ \E shown, start, require :
                    AddIndexEntry(track, supplied[track], shown, start, require)
               \/ UNCHANGED indexVars
  BY DEF WriteFrame
<1>2. CASE indexStatus' # "ok"
  BY <1>1, <1>2, WholeFailed
<1>3. CASE indexStatus' = "ok"
  <2>1. pc' = "loop"
    BY <1>1, <1>3 DEF IndexFails
  <2>2. TableStays
    BY <1>1, <1>3 DEF TableStays, IndexFails, AddIndexEntry, indexVars
  <2> QED BY <1>1, <2>1, <2>2, WholeStays DEF Finished, Ending
<1> QED BY <1>2, <1>3

LEMMA StutterWhole ==
  ASSUME WholeInv, UNCHANGED vars
  PROVE  WholeInv'
<1>1. UNCHANGED <<config, segments, flushed, firstSegment, duration, haveWritten, indexStatus,
                  cbePartition, partitions, pc>>
  BY DEF vars, indexVars, fileVars
<1>2. /\ config' = config /\ segments' = segments /\ flushed' = flushed
      /\ firstSegment' = firstSegment /\ duration' = duration /\ haveWritten' = haveWritten
      /\ indexStatus' = indexStatus /\ cbePartition' = cbePartition /\ partitions' = partitions
      /\ pc' = pc
  BY <1>1
<1>3. /\ IsCBE' = IsCBE /\ SinglePass' = SinglePass /\ InputDuration' = InputDuration
      /\ RepeatIndexTable' = RepeatIndexTable
  BY <1>2, SameConfig
<1>4. VariableTableInv' = VariableTableInv
  <2>1. Kept' = Kept /\ FileIndex' = FileIndex
    BY <1>2, <1>3, Zenon DEF Kept, FileIndex
  <2> QED BY <1>2, <2>1, Zenon DEF VariableTableInv
<1>5. ConstantTableInv' = ConstantTableInv
  <2>1. ConstantTable' = ConstantTable /\ Table' = Table /\ Settled' = Settled
    BY <1>2, Zenon DEF ConstantTable, ConstantInv, FirstUnits, Table, Settled
  <2> QED BY <1>2, <1>3, <2>1, Zenon DEF ConstantTableInv
<1> QED BY <1>2, <1>3, <1>4, <1>5, Zenon DEF WholeInv

(* Entries that are completed stay where they are.                         *)
LEMMA CompleteEntryWhole ==
  ASSUME LayoutInv, LayoutInv', WholeInv, NEW p \in 0 .. (config.frames - 1), CompleteEntry(p)
  PROVE  WholeInv'
<1>0. /\ pc \in {"track", "completing"} /\ pc' = pc /\ indexStatus = "ok"
      /\ UNCHANGED <<partitions, cbePartition>>
      /\ \E shown : UpdateIndexEntry(track, p, shown)
  BY SomeEntryCompleted DEF CompleteEntry, fileVars
<1>1. PICK shown :
        /\ pc \in {"track", "completing"} /\ pc' = pc /\ indexStatus = "ok"
        /\ UNCHANGED <<partitions, cbePartition>>
        /\ UpdateIndexEntry(track, p, shown)
  BY <1>0
<1>2. pc \notin Finished /\ pc' \notin Finished /\ pc' \notin Ending
  BY <1>1 DEF Finished, Ending
<1>3. CASE indexStatus' # "ok"
  BY <1>1, <1>3, WholeFailed
<1>4. CASE indexStatus' = "ok" /\ segments' = segments
  <2>1. TableStays
    BY <1>1, <1>4 DEF UpdateIndexEntry, IndexFails, TableStays
  <2> QED BY <1>2, <2>1, WholeStays
<1>5. CASE indexStatus' = "ok" /\ segments' # segments
  <2>0. ~(IsCBE \/ p < 0 \/ (p >= duration /\ p \notin DOMAIN cache[track])) /\ ~(p >= duration)
    BY <1>1, <1>5 DEF UpdateIndexEntry, IndexFails
  <2>1. /\ ~IsCBE /\ config' = config /\ duration' = duration /\ flushed' = flushed
        /\ partitions' = partitions /\ p < duration
    <3>1. duration \in Nat /\ p \in Int
      BY DEF LayoutInv, FileTypeInv
    <3>2. p < duration
      BY ONLY <2>0, <3>1
    <3>3. config' = config /\ duration' = duration /\ flushed' = flushed
      BY <1>1, <1>5 DEF UpdateIndexEntry, IndexFails
    <3> QED BY <1>1, <2>0, <3>2, <3>3
  <2>2. PICK i \in DOMAIN segments :
          /\ HoldsPosition(i, p)
          /\ segments' = [segments EXCEPT
               ![i].entries[p - segments[i].start + 1] = SegmentEntry(shown, @.offset, @.slices)]
    BY <1>1, <1>5 DEF UpdateIndexEntry, IndexFails
  <2>3. VariableTableInv
    BY <1>1, <2>1 DEF WholeInv
  <2>4. i \in 1 .. Len(segments) /\ IsSegment(segments[i])
        /\ Len(segments[i].entries) = segments[i].duration
    BY <2>3, TableLen DEF VariableTableInv, IsTable
  <2>5. PICK list, k, x, new :
          /\ list = segments /\ k = p - segments[i].start + 1 /\ new = segments'
          /\ x = SegmentEntry(shown, segments[i].entries[k].offset, segments[i].entries[k].slices)
    OBVIOUS
  <2>6. k \in 1 .. Len(list[i].entries)
    <3>1. PICK s, d : s = segments[i].start /\ d = segments[i].duration
      OBVIOUS
    <3>2. s \in Nat /\ d \in Nat
      BY <2>4, <3>1 DEF IsSegment
    <3>3. s <= p /\ p < s + d
      BY <2>2, <3>1 DEF HoldsPosition
    <3>4. p \in Nat
      OBVIOUS
    <3>5. k = p - s + 1 /\ Len(list[i].entries) = d
      BY <2>4, <2>5, <3>1
    <3> QED BY ONLY <3>2, <3>3, <3>4, <3>5
  <2>7. new = CompletedList(list, i, k, x)
    BY <2>2, <2>5, Zenon DEF CompletedList
  <2>8. IsTable(list) /\ i \in 1 .. Len(list)
    BY <2>3, <2>4, <2>5 DEF VariableTableInv
  <2>9. /\ IsTable(new) /\ SamePlaces(list, new)
        /\ \A j \in 1 .. Len(list) : Len(new[j].entries) = Len(list[j].entries)
    BY ONLY <2>6, <2>7, <2>8, SegmentCompleted
  <2>10. RepeatIndexTable' = RepeatIndexTable /\ IsCBE' = IsCBE
    BY <2>1, SameConfig
  <2>11. Kept' = Kept
    BY <2>1, <2>10, Zenon DEF Kept
  <2>12. PICK m \in 0 .. duration : IsTable(Kept) /\ Spans(Kept, 0, m) /\ Spans(list, m, duration)
    BY <1>2, <2>3, <2>5 DEF VariableTableInv
  <2>13. Spans(new, m, duration)
    BY ONLY <2>8, <2>9, <2>12, SamePlacesSpans
  <2>14. \A j \in 1 .. Len(new) :
           /\ Len(new[j].entries) = new[j].duration
           /\ new[j].duration > 0 \/ (j = 1 /\ duration = 0)
    BY <2>3, <2>5, <2>9 DEF VariableTableInv, SamePlaces
  <2>15. VariableTableInv'
    BY <1>2, <2>1, <2>3, <2>5, <2>9, <2>11, <2>12, <2>13, <2>14 DEF VariableTableInv
  <2> QED BY <1>1, <2>1, <2>10, <2>15 DEF WholeInv
<1> QED BY <1>3, <1>4, <1>5

(* The first units of a constant table.                                    *)
LEMMA PreIndexWhole ==
  ASSUME LayoutInv, LayoutInv', WholeInv, PreIndex
  PROVE  WholeInv'
<1>1. /\ pc = "preindex" /\ pc' = pc /\ indexStatus = "ok"
      /\ UpdateIndex(config.sizes[duration])
      /\ UNCHANGED <<partitions, cbePartition>>
  BY DEF PreIndex, fileVars
<1>2. CASE indexStatus' # "ok"
  BY <1>1, <1>2, WholeFailed
<1>3. CASE indexStatus' = "ok"
  <2>1. IsCBE /\ ~haveWritten
    BY <1>1, Known DEF ProgressInv, PlacedInv
  <2>2. /\ UpdateCBEIndex(config.sizes[duration]) /\ config' = config
        /\ duration' = duration + 1 /\ haveWritten' = haveWritten
    BY <1>1, <1>3, <2>1 DEF UpdateIndex, IndexFails
  <2>3. ConstantTableInv
    BY <1>1, <2>1 DEF WholeInv
  <2>4. ConstantTable'
    <3>1. ConstantTable
      BY <2>3 DEF ConstantTableInv
    <3> QED BY <2>2, <3>1, ConstantUnit
  <2>5. IsCBE' = IsCBE /\ RepeatIndexTable' = RepeatIndexTable
    BY <2>2, SameConfig
  <2>6. pc' \notin Ending /\ pc' \notin Finished
    BY <1>1 DEF Ending, Finished
  <2>7. ~RepeatIndexTable' => \A i \in 1 .. Len(partitions') : partitions'[i].index = <<>>
    BY <1>1, <2>1, <2>3, <2>5 DEF ConstantTableInv
  <2>8. ConstantTableInv'
    BY <2>1, <2>2, <2>4, <2>6, <2>7 DEF ConstantTableInv
  <2> QED BY <1>1, <2>1, <2>5, <2>8 DEF WholeInv
<1> QED BY <1>2, <1>3

(* An entry is added to the last segment of a variable table, or to a new  *)
(* one.                                                                    *)
LEMMA SegmentsGrow ==
  ASSUME duration \in Nat, NEW m \in 0 .. duration, IsTable(segments), Spans(segments, m, duration),
         \A i \in 1 .. Len(segments) :
           /\ Len(segments[i].entries) = segments[i].duration
           /\ segments[i].duration > 0 \/ (i = 1 /\ duration = 0),
         NEW sizes, UpdateVBEIndex(sizes)
  PROVE  /\ IsTable(segments') /\ Spans(segments', m, duration + 1)
         /\ \A i \in 1 .. Len(segments') :
              Len(segments'[i].entries) = segments'[i].duration /\ segments'[i].duration > 0
<1>1. PICK list, new, n, c : list = segments /\ new = segments' /\ n = duration /\ c = Len(segments)
  OBVIOUS
<1>2. /\ IsTable(list) /\ Spans(list, m, n) /\ m \in Nat /\ n \in Nat /\ c = Len(list)
      /\ c \in Nat /\ (list = <<>> <=> c = 0)
      /\ \A i \in 1 .. c : /\ IsSegment(list[i]) /\ Len(list[i].entries) = list[i].duration
                           /\ list[i].duration > 0 \/ (i = 1 /\ n = 0)
  BY <1>1, TableLen DEF IsTable
<1>3. ASSUME c > 0, n = 0 PROVE c = 1 /\ list[c].duration = 0
  <2>1. list # <<>> /\ c \in 1 .. c
    BY <1>2, <1>3
  <2>2. list[c].start + list[c].duration = 0
    BY <1>2, <1>3, <2>1, SpansSome
  <2>3. list[c].start \in Nat /\ list[c].duration \in Nat
    BY <1>2, <2>1 DEF IsSegment
  <2>4. list[c].duration = 0
    BY ONLY <2>2, <2>3
  <2> QED BY <1>2, <2>1, <2>4
<1>4. CASE RequireNewSegment
  <2>1. PICK s, t : s = NewSegment(n) /\ t = AddToSegment(s, sizes)
    OBVIOUS
  <2>2. new = Append(list, t)
    BY <1>1, <1>4, <2>1 DEF UpdateVBEIndex
  <2>3. /\ IsSegment(s) /\ s.start = n /\ s.duration = 0 /\ s.entries = <<>>
    BY <1>2, <2>1, NewSegmentIs
  <2>4. /\ IsSegment(t) /\ t.start = n /\ t.duration = 0 + 1 /\ Len(t.entries) = 0 + 1
    <3>0. IsSegment(s) /\ t = AddToSegment(s, sizes)
      BY <2>1, <2>3
    <3>1. /\ IsSegment(t) /\ t.start = s.start /\ t.duration = s.duration + 1
          /\ Len(t.entries) = Len(s.entries) + 1
      BY ONLY <3>0, AddedSegment
    <3>2. Len(<<>>) = 0
      OBVIOUS
    <3> QED BY <2>3, <3>1, <3>2
  <2>5. /\ IsTable(new) /\ Len(new) = c + 1
        /\ \A i \in 1 .. c : new[i] = list[i]
        /\ new[c + 1] = t
    BY ONLY <1>2, <2>2, <2>4, TableAppend
  <2>6. Spans(new, m, n + t.duration)
    BY ONLY <1>2, <2>2, <2>4, SpansAppend
  <2>7. ~(c > 0 /\ n = 0)
    <3> SUFFICES ASSUME c > 0, n = 0 PROVE FALSE
      OBVIOUS
    <3>1. list # <<>> /\ segments[Len(segments)].duration = 0
      BY <1>1, <1>2, <1>3
    <3>2. 0 >= MaxSegmentEntries \/ 0 >= MaxSegmentEntries - GOPSizeGuess
      BY <1>1, <1>4, <3>1 DEF RequireNewSegment
    <3> QED BY <3>2, SegmentConstants
  <2>8. ASSUME NEW i \in 1 .. Len(new)
        PROVE  Len(new[i].entries) = new[i].duration /\ new[i].duration > 0
    <3>1. CASE i = c + 1
      <4>1. new[i] = t
        BY <2>5, <3>1
      <4>2. Len(t.entries) = t.duration /\ t.duration > 0
        BY ONLY <2>4
      <4> QED BY ONLY <4>1, <4>2, Zenon
    <3>2. CASE i # c + 1
      <4>1. i \in 1 .. c
        BY <1>2, <2>5, <3>2
      <4>2. c > 0
        BY <1>2, <4>1
      <4> QED BY <1>2, <2>5, <2>7, <4>1, <4>2
    <3> QED BY <3>1, <3>2
  <2>9. n + t.duration = n + 1
    BY <2>4
  <2> QED BY <1>1, <2>5, <2>6, <2>8, <2>9
<1>5. CASE ~RequireNewSegment
  <2>1. c > 0 /\ list # <<>> /\ c \in 1 .. c
    <3>1. list # <<>>
      BY <1>1, <1>5 DEF RequireNewSegment
    <3> QED BY <1>2, <3>1
  <2>2. PICK s, t : s = list[c] /\ t = AddToSegment(s, sizes)
    OBVIOUS
  <2>3. new = [list EXCEPT ![c] = t]
    BY <1>1, <1>5, <2>2 DEF UpdateVBEIndex
  <2>4. IsSegment(s) /\ Len(s.entries) = s.duration
    BY <1>2, <2>1, <2>2
  <2>5. /\ IsSegment(t) /\ t.start = s.start /\ t.duration = s.duration + 1
        /\ Len(t.entries) = Len(s.entries) + 1
    BY <2>2, <2>4, AddedSegment
  <2>6. /\ IsTable(new) /\ Len(new) = c
        /\ \A i \in 1 .. c : new[i] = IF i = c THEN t ELSE list[i]
    <3>1. IsTable(list) /\ c \in 1 .. Len(list) /\ IsSegment(t)
      BY <1>2, <2>1, <2>5
    <3>2. /\ IsTable([list EXCEPT ![c] = t]) /\ Len([list EXCEPT ![c] = t]) = Len(list)
          /\ \A i \in 1 .. Len(list) : [list EXCEPT ![c] = t][i] = IF i = c THEN t ELSE list[i]
      BY ONLY <3>1, TableExcept
    <3> QED BY ONLY <1>2, <2>3, <3>2
  <2>7. Spans(new, m, n + 1)
    <3>1. t.start = list[Len(list)].start /\ t.duration = list[Len(list)].duration + 1
      BY <1>2, <2>2, <2>5
    <3>2. new = [list EXCEPT ![Len(list)] = t]
      BY <1>2, <2>3
    <3> QED BY ONLY <1>2, <2>1, <2>5, <3>1, <3>2, SpansGrow
  <2>8. ASSUME NEW i \in 1 .. Len(new)
        PROVE  Len(new[i].entries) = new[i].duration /\ new[i].duration > 0
    <3>1. CASE i = c
      <4>1. s.duration \in Nat
        BY <2>4 DEF IsSegment
      <4>2. new[i] = t
        BY <2>6, <3>1
      <4> QED BY <2>4, <2>5, <4>1, <4>2
    <3>2. CASE i # c
      <4>1. i \in 1 .. c /\ new[i] = list[i]
        BY <2>6, <3>2
      <4>2. n = 0 => c = 1
        BY <1>3, <2>1
      <4>3. ~(i = 1 /\ n = 0)
        BY <3>2, <4>2
      <4> QED BY <1>2, <4>1, <4>3
    <3> QED BY <3>1, <3>2
  <2> QED BY <1>1, <2>6, <2>7, <2>8
<1> QED BY <1>4, <1>5

(* A content package adds an edit unit to the table, or had been indexed.  *)
LEMMA WriteEssenceWhole ==
  ASSUME LayoutInv, LayoutInv', WholeInv, WriteEssence
  PROVE  WholeInv'
<1>1. /\ pc = "essence" /\ indexStatus = "ok" /\ IndexesUnit
      /\ \/ /\ indexStatus' = "ok" /\ written' = written + 1 /\ pc' = "loop"
            /\ partitions' = [partitions EXCEPT ![Len(partitions)].essence = Append(@, written)]
         \/ indexStatus' # "ok" /\ pc' = pc
      /\ UNCHANGED <<supplied, cbePartition, endOfSamples>>
  BY DEF WriteEssence, IndexesUnit
<1>2. CASE indexStatus' # "ok"
  BY <1>1, <1>2, WholeFailed
<1>3. CASE indexStatus' = "ok"
  <2>1. /\ written' = written + 1 /\ pc' = "loop" /\ supplied' = supplied
        /\ cbePartition' = cbePartition /\ endOfSamples' = endOfSamples
        /\ partitions' = [partitions EXCEPT ![Len(partitions)].essence = Append(@, written)]
    BY <1>1, <1>3
  <2>2. pc \notin Finished /\ pc' \notin Finished /\ pc' \notin Ending
    BY <1>1, <2>1 DEF Finished, Ending
  <2>3. config' = config /\ haveWritten' = haveWritten /\ written <= duration
        /\ written \in Nat /\ duration \in Nat
    BY <1>1, <1>3, <2>1, Known, VariableUnitWritten, ConstantUnitWritten
       DEF ProgressInv, FileTypeInv
  <2>4. /\ Len(partitions') = Len(partitions) /\ IsFile(partitions) /\ IsFile(partitions')
        /\ \A i \in 1 .. Len(partitions) : partitions'[i].index = partitions[i].index
    BY <1>1, <2>1, <2>3, EssenceAppended, Known DEF FileTypeInv
  <2>5. CASE IsIndexed
    <3>1. UNCHANGED indexVars
      BY <1>1, <2>5 DEF IndexesUnit
    <3>2. TableStays
      BY <2>1, <2>4, <3>1 DEF TableStays, indexVars
    <3> QED BY <2>2, <3>2, WholeStays
  <2>6. CASE ~IsIndexed
    <3>1. PICK sizes : sizes = config.sizes[written]
      OBVIOUS
    <3>2. UpdateIndex(sizes) /\ written = duration
      BY <1>1, <2>3, <2>6, <3>1 DEF IndexesUnit, IsIndexed
    <3>3. duration' = duration + 1 /\ flushed' = flushed
          /\ IF IsCBE THEN UpdateCBEIndex(sizes) ELSE UpdateVBEIndex(sizes)
      BY <1>3, <3>2 DEF UpdateIndex, IndexFails
    <3>4. /\ IsCBE' = IsCBE /\ SinglePass' = SinglePass /\ InputDuration' = InputDuration
          /\ RepeatIndexTable' = RepeatIndexTable
      BY <2>3, SameConfig
    <3>5. CASE ~IsCBE
      <4>1. VariableTableInv
        BY <1>1, <3>5 DEF WholeInv
      <4>2. PICK m \in 0 .. duration : IsTable(Kept) /\ Spans(Kept, 0, m) /\ Spans(segments, m, duration)
        BY <2>2, <4>1 DEF VariableTableInv
      <4>3. UpdateVBEIndex(sizes)
        BY <3>3, <3>5
      <4>4. /\ IsTable(segments) /\ IsTable(flushed)
            /\ \A i \in 1 .. Len(segments) :
                 /\ Len(segments[i].entries) = segments[i].duration
                 /\ segments[i].duration > 0 \/ (i = 1 /\ duration = 0)
        BY <4>1 DEF VariableTableInv
      <4>5. /\ IsTable(segments') /\ Spans(segments', m, duration + 1)
            /\ \A i \in 1 .. Len(segments') :
                 Len(segments'[i].entries) = segments'[i].duration /\ segments'[i].duration > 0
        BY ONLY <2>3, <4>2, <4>3, <4>4, SegmentsGrow
      <4>6. Kept' = Kept
        <5>1. PICK a, b : a = partitions /\ b = partitions'
          OBVIOUS
        <5>2. FlattenSeq(Indexes(b)) = FlattenSeq(Indexes(a))
          BY <2>4, <5>1, SameIndexes
        <5> QED BY <3>3, <3>4, <5>1, <5>2, Zenon DEF Kept
      <4>7. m \in 0 .. duration'
        BY ONLY <2>3, <3>3, <4>2
      <4>8. VariableTableInv'
        BY <2>2, <3>3, <4>2, <4>4, <4>5, <4>6, <4>7 DEF VariableTableInv
      <4> QED BY <1>1, <2>1, <3>4, <3>5, <4>8 DEF WholeInv
    <3>6. CASE IsCBE
      <4>1. ConstantTableInv
        BY <1>1, <3>6 DEF WholeInv
      <4>2. ConstantTable'
        <5>1. ConstantTable /\ UpdateCBEIndex(sizes)
          BY <3>3, <3>6, <4>1 DEF ConstantTableInv
        <5> QED BY <2>3, <3>3, <5>1, ConstantUnit
      <4>3. ASSUME haveWritten
            PROVE  /\ IsTable(Table')
                   /\ SinglePass => Promised(Table', InputDuration, firstSegment', duration')
        <5>1. Table' = Table
          <6>1. cbePartition \in 1 .. Len(partitions)
            BY <1>1, <3>6, <4>3, Known DEF PlacedInv
          <6> QED BY <2>1, <2>4, <6>1 DEF Table
        <5>2. IsTable(Table) /\ (SinglePass => Promised(Table, InputDuration, firstSegment, duration))
          BY <4>1, <4>3 DEF ConstantTableInv
        <5>3. ~(firstSegment # <<>> /\ duration = 1)
          <6> SUFFICES ASSUME firstSegment # <<>>, duration = 1 PROVE FALSE
            OBVIOUS
          <6>1. ~Supplied(config, supplied, 2)
            BY <1>1, <3>6, <4>3, Known DEF PlacedInv, PairSettled
          <6>2. HavePackages(1)
            BY <1>1, Known DEF ProgressInv, Starting
          <6>3. Supplied(config, supplied, written + 1) /\ written + 1 = 2
            BY <1>1, <3>2, <6>2, HaveSupplied, Known
          <6> QED BY <6>1, <6>3
        <5> QED BY <5>1, <5>2, <5>3 DEF Promised
      <4>4. ~RepeatIndexTable =>
              \A i \in 1 .. Len(partitions') :
                partitions'[i].index # <<>> => haveWritten /\ i = cbePartition
        BY <2>4, <4>1 DEF ConstantTableInv
      <4>5. ~Settled'
        BY <2>1 DEF Settled
      <4>6. ConstantTableInv'
        BY <2>1, <2>2, <2>3, <3>4, <4>2, <4>3, <4>4, <4>5 DEF ConstantTableInv
      <4> QED BY <1>1, <2>1, <3>4, <3>6, <4>6 DEF WholeInv
    <3> QED BY <3>5, <3>6
  <2> QED BY <2>5, <2>6
<1> QED BY <1>2, <1>3

-----------------------------------------------------------------------------
(* Steps that write an index. *)

Longer(list, x, new) ==
  /\ IsFile(new) /\ Len(list) \in Nat \ {0} /\ Len(new) = Len(list) + 1
  /\ \A i \in 1 .. Len(list) : new[i].index = list[i].index
  /\ new[Len(list) + 1].index = x /\ new[Len(new)].index = x
  /\ \A i \in 1 .. Len(new) : i \in 1 .. Len(list) \/ i = Len(list) + 1
  /\ FlattenSeq(Indexes(new)) = Joined(FlattenSeq(Indexes(list)), x)

LEMMA AddedPartition ==
  ASSUME NEW list, IsFile(list), NEW x, NEW offset, NEW new,
         new = Append(list, Partition(x, offset))
  PROVE  Longer(list, x, new)
<1>1. PICK p : p = Partition(x, offset)
  OBVIOUS
<1>2. IsPartition(p) /\ p.index = x
  BY <1>1, NewPartition
<1>3. new = Append(list, p)
  BY <1>1
<1>4. /\ IsFile(new) /\ Len(new) = Len(list) + 1
      /\ \A i \in 1 .. Len(list) : new[i] = list[i]
      /\ new[Len(list) + 1] = p
  BY ONLY IsFile(list), <1>2, <1>3, FileAppend
<1>5. Len(list) \in Nat \ {0}
  BY FileLen
<1>6. \A i \in 1 .. Len(new) : i \in 1 .. Len(list) \/ i = Len(list) + 1
  BY ONLY <1>4, <1>5
<1>7. \A i \in 1 .. Len(list) : new[i].index = list[i].index
  BY <1>4
<1>8. FlattenSeq(Indexes(new)) = FlattenSeq(Indexes(list)) \o new[Len(list) + 1].index
  BY ONLY IsFile(list), <1>4, <1>7, OneMoreIndex
<1>9. new[Len(list) + 1].index = x
  BY <1>2, <1>4
<1>10. FlattenSeq(Indexes(new)) = Joined(FlattenSeq(Indexes(list)), x)
  BY ONLY <1>8, <1>9, Zenon DEF Joined
<1> QED BY <1>4, <1>5, <1>6, <1>7, <1>9, <1>10 DEF Longer

LEMMA IndexPut ==
  ASSUME NEW list, IsFile(list), NEW n \in 1 .. Len(list), NEW x, NEW new,
         new = [list EXCEPT ![n].index = x]
  PROVE  /\ Len(new) = Len(list)
         /\ \A i \in 1 .. Len(list) : new[i].index = IF i = n THEN x ELSE list[i].index
<1>1. PICK p, q : q = list[n] /\ p = [list[n] EXCEPT !.index = x]
  OBVIOUS
<1>2. IsPartition(q)
  BY <1>1 DEF IsFile
<1>3. IsPartition(p) /\ p.index = x
  <2>1. p = [index |-> x, offset |-> q.offset, essence |-> q.essence]
    BY <1>1, <1>2 DEF IsPartition
  <2>2. q.essence \in Seq(Nat)
    BY <1>2 DEF IsPartition
  <2> QED BY <2>1, <2>2 DEF IsPartition
<1>4. new = WithPartition(list, n, p)
  BY <1>1 DEF WithPartition
<1>5. n \in DOMAIN list
  BY FileLen
<1>6. /\ Len(new) = Len(list)
      /\ \A i \in 1 .. Len(list) : new[i] = IF i = n THEN p ELSE list[i]
  BY ONLY IsFile(list), <1>3, <1>4, <1>5, FileExcept
<1> QED BY <1>3, <1>6

(* What has been flushed, and what is left in memory.                      *)
LEMMA VariableKnown ==
  ASSUME VariableTableInv, pc \notin Finished, duration \in Nat
  PROVE  /\ IsTable(segments) /\ IsTable(flushed) /\ IsTable(Kept)
         /\ \E m \in 0 .. duration : Spans(Kept, 0, m) /\ Spans(segments, m, duration)
         /\ ~HaveSegments => Spans(Kept, 0, duration)
<1>1. /\ IsTable(segments) /\ IsTable(flushed) /\ IsTable(Kept)
      /\ \A i \in 1 .. Len(segments) : segments[i].duration > 0 \/ (i = 1 /\ duration = 0)
  BY DEF VariableTableInv
<1>2. PICK m \in 0 .. duration : Spans(Kept, 0, m) /\ Spans(segments, m, duration)
  BY DEF VariableTableInv
<1>3. ASSUME ~HaveSegments PROVE Spans(Kept, 0, duration)
  <2>1. CASE segments = <<>>
    <3>1. m = duration
      BY <1>2, <2>1, SpansNone
    <3> QED BY <1>2, <3>1
  <2>2. CASE segments # <<>>
    <3>1. 1 \in 1 .. Len(segments)
      BY <1>1, <2>2, TableLen
    <3>2. duration = 0
      BY <1>1, <1>3, <2>2, <3>1 DEF HaveSegments
    <3>3. m = duration
      BY <3>2
    <3> QED BY <1>2, <3>3
  <2> QED BY <2>1, <2>2
<1> QED BY <1>1, <1>2, <1>3

LEMMA VariableFlush ==
  ASSUME VariableTableInv, pc \notin Finished, duration \in Nat, ~IsCBE,
         NEW isFooter \in BOOLEAN, NEW final, WriteSegments(isFooter, final),
         indexStatus = "ok", indexStatus' = "ok"
  PROVE  /\ config' = config /\ duration' = duration /\ segments' = <<>>
         /\ IsTable(flushed') /\ IsTable(output') /\ IsTable(Kept)
         /\ RepeatIndexTable => Spans(IF isFooter THEN output' ELSE flushed', 0, duration)
         /\ ~RepeatIndexTable =>
              \E m \in 0 .. duration : Spans(Kept, 0, m) /\ Spans(output', m, duration)
<1>1. /\ config' = config /\ duration' = duration /\ segments' = <<>>
      /\ output' = VBESegments(IF Repeats(isFooter) THEN flushed \o segments ELSE segments)
      /\ flushed' = IF Keeps(isFooter) THEN flushed \o segments
                    ELSE IF Repeats(isFooter) THEN <<>> ELSE flushed
  BY DEF WriteSegments, IndexFails
<1>2. /\ IsTable(segments) /\ IsTable(flushed) /\ IsTable(Kept)
      /\ \E m \in 0 .. duration : Spans(Kept, 0, m) /\ Spans(segments, m, duration)
  BY VariableKnown
<1>3. PICK m \in 0 .. duration : Spans(Kept, 0, m) /\ Spans(segments, m, duration)
  BY <1>2
<1>4. PICK all : all = flushed \o segments
  OBVIOUS
<1>5. IsTable(all)
  BY <1>2, <1>4, TableConcat
<1>6. ASSUME RepeatIndexTable PROVE Spans(all, 0, duration)
  <2>1. Spans(flushed, 0, m) /\ Spans(segments, m, duration)
    BY <1>3, <1>6 DEF Kept
  <2> QED BY <1>2, <1>4, <2>1, SpansConcat
<1>7. PICK list, new : /\ list = IF Repeats(isFooter) THEN all ELSE segments
                       /\ new = output'
  OBVIOUS
<1>8. IsTable(list) /\ new = VBESegments(list)
  BY <1>1, <1>2, <1>4, <1>5, <1>7
<1>9. IsTable(new) /\ SamePlaces(list, new)
  BY ONLY <1>8, VariableWritten
<1>10. IsTable(flushed')
  BY <1>1, <1>2, <1>4, <1>5, EmptyTable
<1>11. ASSUME RepeatIndexTable PROVE Spans(IF isFooter THEN output' ELSE flushed', 0, duration)
  <2>1. CASE isFooter
    <3>1. list = all
      BY <1>7, <1>11, <2>1 DEF Repeats
    <3>2. Spans(new, 0, duration)
      BY <1>6, <1>8, <1>9, <1>11, <3>1, SamePlacesSpans
    <3> QED BY <1>7, <2>1, <3>2
  <2>2. CASE ~isFooter
    <3>1. flushed' = all
      BY <1>1, <1>4, <1>11, <2>2 DEF Keeps
    <3> QED BY <1>6, <1>11, <2>2, <3>1
  <2> QED BY <2>1, <2>2
<1>12. ASSUME ~RepeatIndexTable PROVE Spans(output', m, duration)
  <2>1. list = segments
    BY <1>7, <1>12 DEF Repeats
  <2>2. Spans(list, m, duration)
    BY <1>3, <2>1
  <2>3. Spans(new, m, duration)
    BY <1>8, <1>9, <2>2, SamePlacesSpans
  <2> QED BY <1>7, <2>3
<1> QED BY <1>1, <1>2, <1>3, <1>7, <1>9, <1>10, <1>11, <1>12

(* The index of a file, by what is in its partitions.                      *)
IndexOf(c, list) == IF c.repeat THEN list[Len(list)].index ELSE FlattenSeq(Indexes(list))

LEMMA FileIndexOf == FileIndex = IndexOf(config, partitions) /\ FileIndex' = IndexOf(config', partitions')
  BY Zenon DEF FileIndex, IndexOf, Indexes, RepeatIndexTable

(* Lists of segments, one after the other.                                 *)
LEMMA JoinedTables ==
  ASSUME NEW a, IsTable(a), NEW b, IsTable(b)
  PROVE  /\ IsTable(Joined(a, b)) /\ Joined(a, <<>>) = a
         /\ \A m, end : Spans(a, 0, m) /\ Spans(b, m, end) => Spans(Joined(a, b), 0, end)
<1>1. PICK t : t = Joined(a, b)
  OBVIOUS
<1>2. t = a \o b
  BY <1>1 DEF Joined
<1>3. IsTable(t)
  BY <1>2, TableConcat
<1>4. a \o <<>> = a
  BY ConcatEmptySeq DEF IsTable
<1>5. ASSUME NEW m, NEW end, Spans(a, 0, m), Spans(b, m, end) PROVE Spans(t, 0, end)
  BY <1>2, <1>5, SpansConcat
<1> QED BY <1>1, <1>3, <1>4, <1>5 DEF Joined

(* Segments of a variable table are written after those that were before.  *)
LEMMA VariableWrite ==
  ASSUME LayoutInv, WholeInv, indexStatus = "ok", indexStatus' = "ok", ~IsCBE,
         pc \notin Finished, NEW isFooter \in BOOLEAN, WriteSegments(isFooter, TRUE),
         isFooter <=> pc' \in Finished, NEW new, partitions' = new,
         ~RepeatIndexTable =>
           FlattenSeq(Indexes(new)) = Joined(FlattenSeq(Indexes(partitions)), output'),
         isFooter => new[Len(new)].index = output'
  PROVE  WholeInv'
<1>1. VariableTableInv /\ duration \in Nat
  BY DEF WholeInv, LayoutInv, FileTypeInv
<1>2. /\ config' = config /\ duration' = duration /\ segments' = <<>>
      /\ IsTable(flushed') /\ IsTable(output') /\ IsTable(Kept)
      /\ RepeatIndexTable => Spans(IF isFooter THEN output' ELSE flushed', 0, duration)
      /\ ~RepeatIndexTable =>
           \E m \in 0 .. duration : Spans(Kept, 0, m) /\ Spans(output', m, duration)
  BY <1>1, VariableFlush
<1>3. IsCBE' = IsCBE /\ RepeatIndexTable' = RepeatIndexTable
  BY <1>2, SameConfig
<1>4. PICK all : all = FlattenSeq(Indexes(new))
  OBVIOUS
<1>5. ASSUME ~RepeatIndexTable PROVE IsTable(all) /\ Spans(all, 0, duration)
  <2>1. PICK kept, out : kept = Kept /\ out = output'
    OBVIOUS
  <2>2. all = Joined(kept, out)
    BY <1>4, <1>5, <2>1 DEF Kept
  <2>3. PICK m \in 0 .. duration : Spans(kept, 0, m) /\ Spans(out, m, duration)
    BY <1>2, <1>5, <2>1
  <2>4. IsTable(kept) /\ IsTable(out)
    BY <1>2, <2>1
  <2>5. IsTable(all) /\ Spans(all, 0, duration)
    BY ONLY <2>2, <2>3, <2>4, JoinedTables
  <2> QED BY <2>5
<1>6. IsTable(segments') /\ Len(segments') = 0
  BY <1>2, EmptyTable
<1>7. \A i \in 1 .. Len(segments') : FALSE
  BY <1>6
<1>8. CASE isFooter
  <2>1. Spans(FileIndex', 0, duration)
    <3>1. FileIndex' = IF RepeatIndexTable THEN new[Len(new)].index ELSE FlattenSeq(Indexes(new))
      BY <1>2, FileIndexOf, Zenon DEF IndexOf, RepeatIndexTable
    <3> QED BY <1>2, <1>4, <1>5, <1>8, <3>1
  <2>2. VariableTableInv'
    BY <1>2, <1>6, <1>7, <1>8, <2>1 DEF VariableTableInv
  <2> QED BY <1>3, <2>2 DEF WholeInv
<1>9. CASE ~isFooter
  <2>1. Kept' = IF RepeatIndexTable THEN flushed' ELSE all
    BY <1>3, <1>4, Zenon DEF Kept
  <2>2. IsTable(Kept') /\ Spans(Kept', 0, duration)
    BY <1>2, <1>5, <1>9, <2>1
  <2>3. Spans(segments', duration, duration)
    BY <1>2, SpansNone
  <2>4. duration \in 0 .. duration
    BY <1>1
  <2>5. VariableTableInv'
    BY <1>2, <1>6, <1>7, <1>9, <2>2, <2>3, <2>4 DEF VariableTableInv
  <2> QED BY <1>3, <2>5 DEF WholeInv
<1> QED BY <1>8, <1>9

(* A partition is added that has no index.                                 *)
LEMMA NoIndexAdded ==
  ASSUME LayoutInv, WholeInv, indexStatus = "ok", UNCHANGED <<indexVars, cbePartition>>,
         NEW offset, partitions' = Append(partitions, Partition(<<>>, offset)),
         pc \notin Finished, pc' \notin Finished \cup Ending
  PROVE  WholeInv'
<1>1. /\ config' = config /\ segments' = segments /\ flushed' = flushed
      /\ firstSegment' = firstSegment /\ duration' = duration /\ haveWritten' = haveWritten
      /\ indexStatus' = indexStatus /\ cbePartition' = cbePartition
  BY DEF indexVars
<1>2. /\ IsCBE' = IsCBE /\ SinglePass' = SinglePass /\ InputDuration' = InputDuration
      /\ RepeatIndexTable' = RepeatIndexTable
  BY <1>1, SameConfig
<1>3. PICK list, new, x : list = partitions /\ new = partitions' /\ x = <<>>
  OBVIOUS
<1>4. /\ Len(list) \in Nat \ {0} /\ Len(new) = Len(list) + 1
      /\ \A i \in 1 .. Len(list) : new[i].index = list[i].index
      /\ new[Len(list) + 1].index = x
      /\ \A i \in 1 .. Len(new) : i \in 1 .. Len(list) \/ i = Len(list) + 1
      /\ FlattenSeq(Indexes(new)) = Joined(FlattenSeq(Indexes(list)), x)
  <2>1. IsFile(list)
    BY <1>3 DEF LayoutInv, FileTypeInv
  <2>2. new = Append(list, Partition(x, offset))
    BY <1>3
  <2>3. Longer(list, x, new)
    BY <2>1, <2>2, AddedPartition, Zenon
  <2> QED BY <2>3 DEF Longer
<1>5. CASE ~IsCBE
  <2>1. VariableTableInv
    BY <1>5 DEF WholeInv
  <2>2. Kept' = Kept
    <3>1. CASE RepeatIndexTable
      BY <1>1, <1>2, <3>1 DEF Kept
    <3>2. CASE ~RepeatIndexTable
      <4>1. IsTable(FlattenSeq(Indexes(list)))
        BY <1>3, <2>1, <3>2 DEF VariableTableInv, Kept
      <4>2. Joined(FlattenSeq(Indexes(list)), x) = FlattenSeq(Indexes(list))
        BY <1>3, <4>1, JoinedTables
      <4> QED BY <1>2, <1>3, <1>4, <3>2, <4>2 DEF Kept
    <3> QED BY <3>1, <3>2
  <2>3. VariableTableInv'
    BY <1>1, <2>1, <2>2, Zenon DEF VariableTableInv
  <2> QED BY <1>2, <1>5, <2>3 DEF WholeInv, Finished
<1>6. CASE IsCBE
  <2>1. ConstantTableInv
    BY <1>6 DEF WholeInv
  <2>2. ConstantTable'
    BY <1>1, <2>1, Zenon DEF ConstantTableInv, ConstantTable, ConstantInv, FirstUnits
  <2>3. haveWritten => Table' = Table
    <3>1. haveWritten => cbePartition \in 1 .. Len(partitions)
      BY <1>6, Known DEF PlacedInv
    <3> QED BY <1>1, <1>3, <1>4, <3>1 DEF Table
  <2>4. haveWritten =>
          /\ IsTable(Table')
          /\ SinglePass => Promised(Table', InputDuration, firstSegment, duration)
    BY <2>1, <2>3 DEF ConstantTableInv
  <2>5. ~RepeatIndexTable =>
          \A i \in 1 .. Len(new) : new[i].index # <<>> => haveWritten /\ i = cbePartition
    BY <1>3, <1>4, <2>1 DEF ConstantTableInv
  <2>6. ~Settled' /\ pc' \notin Finished /\ pc' \notin Ending
    BY DEF Settled, Finished
  <2>7. ConstantTableInv'
    BY <1>1, <1>2, <1>3, <2>2, <2>4, <2>5, <2>6 DEF ConstantTableInv
  <2> QED BY <1>1, <1>2, <1>6, <2>7 DEF WholeInv
<1> QED BY <1>5, <1>6

LEMMA StartPartitionWhole ==
  ASSUME LayoutInv, LayoutInv', WholeInv, StartPartition
  PROVE  WholeInv'
<1>1. /\ pc = "partition" /\ indexStatus = "ok" /\ pc' = "essence"
      /\ UNCHANGED cbePartition
      /\ \/ /\ ~IsCBE /\ WriteSegments(FALSE, TRUE)
            /\ partitions' = partitions \o NewPartitions(output')
         \/ UNCHANGED indexVars /\ partitions' = Append(partitions, Partition(<<>>, bodyOffset))
  BY DEF StartPartition
<1>2. pc \notin Finished /\ pc' \notin Finished \cup Ending
  BY <1>1 DEF Finished, Ending
<1>3. CASE UNCHANGED indexVars /\ partitions' = Append(partitions, Partition(<<>>, bodyOffset))
  BY <1>1, <1>2, <1>3, NoIndexAdded
<1>4. CASE indexStatus' # "ok"
  BY <1>1, <1>4, WholeFailed
<1>5. CASE /\ ~IsCBE /\ WriteSegments(FALSE, TRUE) /\ indexStatus' = "ok"
           /\ partitions' = partitions \o NewPartitions(output')
  <2>1. PICK list, new, x, o, e : /\ list = partitions /\ new = partitions' /\ x = output'
                                  /\ o = NoOffset /\ e = bodyOffset
    OBVIOUS
  <2>2. IsFile(list)
    BY <2>1 DEF LayoutInv, FileTypeInv
  <2>4. PICK footer \in BOOLEAN : footer = FALSE
    OBVIOUS
  <2>5. WriteSegments(footer, TRUE) /\ (footer <=> pc' \in Finished)
    BY <1>2, <1>5, <2>4
  <2>6. IsTable(Kept) /\ IsTable(x)
    <3>1. VariableTableInv /\ duration \in Nat
      BY <1>1, <1>5 DEF WholeInv, LayoutInv, FileTypeInv
    <3> QED BY <1>1, <1>2, <1>5, <2>1, <2>5, <3>1, VariableFlush
  <2>3. ASSUME ~RepeatIndexTable
        PROVE  FlattenSeq(Indexes(new)) = Joined(FlattenSeq(Indexes(list)), x)
    <3>1. CASE BodyPartitions
      <4>1. new = Append(list, Partition(x, e))
        <5>1. new = list \o <<Partition(x, e)>>
          BY <1>5, <2>1, <3>1 DEF NewPartitions
        <5>2. PICK p : p = Partition(x, e)
          OBVIOUS
        <5> QED BY <2>2, <5>1, <5>2, ConcatOneTwo
      <4>2. Longer(list, x, new)
        BY <2>2, <4>1, AddedPartition, Zenon
      <4> QED BY <4>2 DEF Longer
    <3>2. CASE ~BodyPartitions
      <4>1. PICK p, q : p = Partition(x, o) /\ q = Partition(<<>>, e)
        OBVIOUS
      <4>2. new = list \o <<p, q>>
        BY <1>5, <2>1, <3>2, <4>1 DEF NewPartitions
      <4>3. PICK one : one = Append(list, p)
        OBVIOUS
      <4>4. new = Append(one, q)
        BY <2>2, <4>2, <4>3, ConcatOneTwo
      <4>5. IsFile(one) /\ FlattenSeq(Indexes(one)) = Joined(FlattenSeq(Indexes(list)), x)
        <5>1. one = Append(list, Partition(x, o))
          BY <4>1, <4>3
        <5>2. Longer(list, x, one)
          BY <2>2, <5>1, AddedPartition, Zenon
        <5> QED BY <5>2 DEF Longer
      <4>6. FlattenSeq(Indexes(new)) = Joined(FlattenSeq(Indexes(one)), <<>>)
        <5>1. new = Append(one, Partition(<<>>, e))
          BY <4>1, <4>4
        <5>2. Longer(one, <<>>, new)
          BY <4>5, <5>1, AddedPartition, Zenon
        <5> QED BY <5>2 DEF Longer
      <4>7. Joined(FlattenSeq(Indexes(one)), <<>>) = FlattenSeq(Indexes(one))
        <5>1. PICK a : a = FlattenSeq(Indexes(list)) /\ IsTable(a)
          BY <2>1, <2>3, <2>6 DEF Kept
        <5>2. IsTable(Joined(a, x))
          BY <2>6, <5>1, JoinedTables
        <5>3. PICK b : b = FlattenSeq(Indexes(one)) /\ IsTable(b)
          BY <4>5, <5>1, <5>2
        <5> QED BY <5>3, JoinedTables
      <4> QED BY <4>5, <4>6, <4>7
    <3> QED BY <3>1, <3>2
  <2> QED BY <1>1, <1>2, <1>5, <2>1, <2>3, <2>4, <2>5, VariableWrite
<1> QED BY <1>1, <1>3, <1>4, <1>5

(* A constant table is written.                                            *)
LEMMA ConstantWrite ==
  ASSUME LayoutInv, WholeInv, indexStatus = "ok", indexStatus' = "ok", IsCBE,
         NEW isFooter, NEW final, WriteSegments(isFooter, final)
  PROVE  /\ ConstantTableInv /\ ConstantTable' /\ duration \in Nat \ {0} /\ haveWritten' = TRUE
         /\ config' = config /\ firstSegment' = firstSegment /\ duration' = duration
         /\ IsCBE' = IsCBE /\ SinglePass' = SinglePass /\ InputDuration' = InputDuration
         /\ RepeatIndexTable' = RepeatIndexTable
         /\ IsTable(output')
         /\ firstSegment # <<>> /\ duration = 1 => Spans(output', 0, 1)
         /\ SinglePass /\ (firstSegment # <<>> => duration > 1) => Spans(output', 0, InputDuration)
         /\ (SinglePass => duration = InputDuration) /\ final => Spans(output', 0, duration)
<1>1. ConstantTableInv
  BY DEF WholeInv
<1>2. ConstantTable /\ duration \in Nat
  BY <1>1 DEF ConstantTableInv, LayoutInv, FileTypeInv
<1>3. InputDuration \in Nat \cup {NoDuration}
  BY Known, ConfigFacts
<1>4. ~IndexFails
  BY DEF IndexFails
<1>5. /\ duration > 0 /\ haveWritten' = TRUE
      /\ UNCHANGED <<config, cache, requireUpdates, lastAdded, firstSegment, segments, flushed,
                     duration, indexStatus>>
      /\ IsTable(output')
      /\ firstSegment # <<>> /\ duration = 1 => Spans(output', 0, 1)
      /\ InputDuration # NoDuration /\ (firstSegment # <<>> => duration > 1) =>
           Spans(output', 0, InputDuration)
      /\ InputDuration \in {duration, NoDuration} /\ final => Spans(output', 0, duration)
  BY <1>2, <1>3, <1>4, ConstantFlush
<1>6. config' = config /\ firstSegment' = firstSegment /\ duration' = duration /\ segments' = segments
  BY <1>5
<1>7. ConstantTable'
  BY <1>2, <1>6, Zenon DEF ConstantTable, ConstantInv, FirstUnits
<1>8. /\ IsCBE' = IsCBE /\ SinglePass' = SinglePass /\ InputDuration' = InputDuration
      /\ RepeatIndexTable' = RepeatIndexTable
  BY <1>6, SameConfig
<1>9. duration \in Nat \ {0}
  BY <1>2, <1>5
<1>10. (SinglePass => duration = InputDuration) => InputDuration \in {duration, NoDuration}
  BY DEF SinglePass
<1>11. SinglePass => InputDuration # NoDuration
  BY DEF SinglePass
<1> QED BY <1>1, <1>5, <1>6, <1>7, <1>8, <1>9, <1>10, <1>11

LEMMA WriteCBEIndexWhole ==
  ASSUME LayoutInv, LayoutInv', WholeInv, WriteCBEIndex
  PROVE  WholeInv'
<1>1. /\ pc = "preindex" /\ indexStatus = "ok" /\ pc' \in {"essence", "partition"}
      /\ WriteSegments(FALSE, FALSE)
      /\ \/ /\ cbePartition' = 1
            /\ partitions' = [partitions EXCEPT ![1].index = output']
         \/ /\ cbePartition' = Len(partitions) + 1
            /\ partitions' = Append(partitions, Partition(output', NoOffset))
  BY DEF WriteCBEIndex
<1>2. CASE indexStatus' # "ok"
  BY <1>1, <1>2, WholeFailed
<1>3. CASE indexStatus' = "ok"
  <2>1. IsCBE /\ ~haveWritten
    BY <1>1, Known DEF ProgressInv, PlacedInv
  <2>2. /\ ConstantTableInv /\ ConstantTable' /\ duration \in Nat \ {0} /\ haveWritten' = TRUE
        /\ config' = config /\ firstSegment' = firstSegment /\ duration' = duration
        /\ IsCBE' = IsCBE /\ SinglePass' = SinglePass /\ InputDuration' = InputDuration
        /\ RepeatIndexTable' = RepeatIndexTable
        /\ IsTable(output')
        /\ firstSegment # <<>> /\ duration = 1 => Spans(output', 0, 1)
        /\ SinglePass /\ (firstSegment # <<>> => duration > 1) => Spans(output', 0, InputDuration)
    BY <1>1, <1>3, <2>1, ConstantWrite
  <2>3. PICK list, new, x, c : list = partitions /\ new = partitions' /\ x = output' /\ c = cbePartition'
    OBVIOUS
  <2>4. IsFile(list)
    BY <2>3 DEF LayoutInv, FileTypeInv
  <2>5. \A i \in 1 .. Len(list) : ~RepeatIndexTable => list[i].index = <<>>
    BY <2>1, <2>2, <2>3 DEF ConstantTableInv
  <2>6. /\ new[c].index = x
        /\ ~RepeatIndexTable => \A i \in 1 .. Len(new) : new[i].index # <<>> => i = c
    <3>1. CASE c = 1 /\ new = [list EXCEPT ![1].index = x]
      <4>1. 1 \in 1 .. Len(list)
        BY <2>4, FileLen
      <4>2. /\ Len(new) = Len(list)
            /\ \A i \in 1 .. Len(list) : new[i].index = IF i = 1 THEN x ELSE list[i].index
        BY ONLY <2>4, <3>1, <4>1, IndexPut
      <4> QED BY <2>5, <3>1, <4>1, <4>2
    <3>2. CASE c = Len(list) + 1 /\ new = Append(list, Partition(x, NoOffset))
      <4>1. Longer(list, x, new)
        BY <2>4, <3>2, AddedPartition, Zenon
      <4> QED BY <2>5, <3>2, <4>1 DEF Longer
    <3> QED BY <1>1, <2>3, <3>1, <3>2
  <2>7. Table' = x
    BY <2>3, <2>6 DEF Table
  <2>8. SinglePass => Promised(x, InputDuration, firstSegment, duration)
    <3>1. ~(firstSegment # <<>> => duration > 1) => firstSegment # <<>> /\ duration = 1
      BY <2>2
    <3> QED BY <2>2, <2>3, <3>1 DEF Promised
  <2>9. ~Settled' /\ pc' \notin Finished /\ pc' \notin Ending
    BY <1>1 DEF Settled, Finished, Ending
  <2>10. ConstantTableInv'
    BY <2>2, <2>3, <2>6, <2>7, <2>8, <2>9 DEF ConstantTableInv
  <2> QED BY <1>1, <1>3, <2>1, <2>2, <2>10 DEF WholeInv
<1> QED BY <1>2, <1>3

LEMMA WriteIndexPartitionWhole ==
  ASSUME LayoutInv, LayoutInv', WholeInv, WriteIndexPartition
  PROVE  WholeInv'
<1>1. /\ pc = "index" /\ indexStatus = "ok" /\ pc' \in {"misplaced", "footer"}
      /\ \/ /\ IsCBE => ~haveWritten
            /\ WriteSegments(FALSE, TRUE)
            /\ partitions' = Append(partitions, Partition(output', NoOffset))
            /\ cbePartition' = IF IsCBE THEN Len(partitions) + 1 ELSE cbePartition
         \/ UNCHANGED <<indexVars, partitions, cbePartition>>
  BY DEF WriteIndexPartition, NeedsIndexPartition
<1>2. pc \notin Finished /\ pc' \notin Finished /\ pc \in Ending \ {"end"}
  BY <1>1 DEF Finished, Ending
<1>3. SinglePass => IsCBE /\ duration = InputDuration
  <2>1. SinglePass => IsCBE
    BY <1>1, Known, ConfigFacts
  <2> QED BY <1>1, <1>2, <2>1 DEF WholeInv, ConstantTableInv
<1>4. CASE UNCHANGED <<indexVars, partitions, cbePartition>>
  BY <1>2, <1>3, <1>4, WholeDecided
<1>5. CASE indexStatus' # "ok"
  BY <1>1, <1>5, WholeFailed
<1>6. CASE /\ IsCBE => ~haveWritten
           /\ WriteSegments(FALSE, TRUE) /\ indexStatus' = "ok"
           /\ partitions' = Append(partitions, Partition(output', NoOffset))
           /\ cbePartition' = IF IsCBE THEN Len(partitions) + 1 ELSE cbePartition
  <2>1. PICK list, new, x : list = partitions /\ new = partitions' /\ x = output'
    OBVIOUS
  <2>2. Longer(list, x, new)
    <3>1. IsFile(list)
      BY <2>1 DEF LayoutInv, FileTypeInv
    <3>2. new = Append(list, Partition(x, NoOffset))
      BY <1>6, <2>1
    <3> QED BY <3>1, <3>2, AddedPartition, Zenon
  <2>3. CASE ~IsCBE
    <3>1. PICK footer \in BOOLEAN : footer = FALSE
      OBVIOUS
    <3>2. WriteSegments(footer, TRUE) /\ (footer <=> pc' \in Finished)
      BY <1>2, <1>6, <3>1
    <3>3. FlattenSeq(Indexes(new)) = Joined(FlattenSeq(Indexes(partitions)), output')
      BY <2>1, <2>2 DEF Longer
    <3> QED BY <1>1, <1>2, <1>6, <2>1, <2>3, <3>1, <3>2, <3>3, VariableWrite
  <2>4. CASE IsCBE
    <3>1. ~haveWritten /\ cbePartition' = Len(list) + 1
      BY <1>6, <2>1, <2>4
    <3>2. /\ ConstantTableInv /\ ConstantTable' /\ haveWritten' = TRUE
          /\ firstSegment' = firstSegment /\ duration' = duration
          /\ IsCBE' = IsCBE /\ SinglePass' = SinglePass /\ InputDuration' = InputDuration
          /\ RepeatIndexTable' = RepeatIndexTable
          /\ IsTable(output') /\ Spans(output', 0, duration)
      BY <1>1, <1>3, <1>6, <2>4, ConstantWrite
    <3>3. ~RepeatIndexTable =>
            \A i \in 1 .. Len(new) : new[i].index # <<>> => i = cbePartition'
      <4>1. \A i \in 1 .. Len(list) : ~RepeatIndexTable => list[i].index = <<>>
        BY <2>1, <3>1, <3>2 DEF ConstantTableInv
      <4> QED BY <2>2, <3>1, <4>1 DEF Longer
    <3>4. Table' = x
      BY <2>1, <2>2, <3>1 DEF Table, Longer
    <3>5. SinglePass => Promised(x, InputDuration, firstSegment, duration)
      BY <1>3, <2>1, <3>2 DEF Promised
    <3>6. ~Settled'
      BY <1>1 DEF Settled
    <3>7. ConstantTableInv'
      BY <1>2, <1>3, <2>1, <3>2, <3>3, <3>4, <3>5, <3>6 DEF ConstantTableInv
    <3> QED BY <1>1, <1>6, <2>4, <3>2, <3>7 DEF WholeInv
  <2> QED BY <2>3, <2>4
<1> QED BY <1>1, <1>4, <1>5, <1>6

(* The footer.                                                             *)
LEMMA VariableFooter ==
  ASSUME LayoutInv, WholeInv, WriteFooter, ~IsCBE
  PROVE  WholeInv'
<1>1. /\ pc = "footer" /\ indexStatus = "ok" /\ pc' = "rewrite"
      /\ \/ /\ WriteSegments(TRUE, TRUE)
            /\ partitions' = Append(partitions, Partition(output', NoOffset))
         \/ /\ ~HaveFooterSegments /\ UNCHANGED indexVars
            /\ partitions' = Append(partitions, Partition(<<>>, NoOffset))
  BY DEF WriteFooter
<1>2. pc \notin Finished /\ pc' \in Finished
  BY <1>1 DEF Finished
<1>3. CASE indexStatus' # "ok"
  BY <1>1, <1>3, WholeFailed
<1>4. CASE /\ WriteSegments(TRUE, TRUE) /\ indexStatus' = "ok"
           /\ partitions' = Append(partitions, Partition(output', NoOffset))
  <2>1. PICK list, new, x : list = partitions /\ new = partitions' /\ x = output'
    OBVIOUS
  <2>2. Longer(list, x, new)
    <3>1. IsFile(list)
      BY <2>1 DEF LayoutInv, FileTypeInv
    <3>2. new = Append(list, Partition(x, NoOffset))
      BY <1>4, <2>1
    <3> QED BY <3>1, <3>2, AddedPartition, Zenon
  <2>3. PICK footer \in BOOLEAN : footer = TRUE
    OBVIOUS
  <2>4. WriteSegments(footer, TRUE) /\ (footer <=> pc' \in Finished)
    BY <1>2, <1>4, <2>3
  <2>5. /\ FlattenSeq(Indexes(new)) = Joined(FlattenSeq(Indexes(partitions)), output')
        /\ new[Len(new)].index = output'
    BY <2>1, <2>2 DEF Longer
  <2> QED BY <1>1, <1>2, <1>4, <2>1, <2>3, <2>4, <2>5, VariableWrite
<1>5. CASE /\ ~HaveFooterSegments /\ UNCHANGED indexVars /\ indexStatus' = "ok"
           /\ partitions' = Append(partitions, Partition(<<>>, NoOffset))
  <2>1. PICK list, new, x : list = partitions /\ new = partitions' /\ x = <<>>
    OBVIOUS
  <2>2. Longer(list, x, new)
    <3>1. IsFile(list)
      BY <2>1 DEF LayoutInv, FileTypeInv
    <3>2. new = Append(list, Partition(x, NoOffset))
      BY <1>5, <2>1
    <3> QED BY <3>1, <3>2, AddedPartition, Zenon
  <2>3. VariableTableInv /\ duration \in Nat
    BY <1>1 DEF WholeInv, LayoutInv, FileTypeInv
  <2>4. IsTable(Kept) /\ Spans(Kept, 0, duration)
    <3>1. ~HaveSegments
      BY <1>5 DEF HaveFooterSegments
    <3> QED BY <1>2, <2>3, <3>1, VariableKnown
  <2>5. /\ config' = config /\ segments' = segments /\ flushed' = flushed /\ duration' = duration
    BY <1>5 DEF indexVars
  <2>6. IsCBE' = IsCBE /\ RepeatIndexTable' = RepeatIndexTable
    BY <2>5, SameConfig
  <2>7. FileIndex' = IF RepeatIndexTable THEN new[Len(new)].index ELSE FlattenSeq(Indexes(new))
    BY <2>1, <2>5, FileIndexOf, Zenon DEF IndexOf, RepeatIndexTable
  <2>8. FileIndex' = Kept
    <3>1. CASE RepeatIndexTable
      <4>1. flushed = <<>> /\ Kept = flushed
        BY <1>5, <3>1 DEF HaveFooterSegments, Kept
      <4> QED BY <2>1, <2>2, <2>7, <3>1, <4>1 DEF Longer
    <3>2. CASE ~RepeatIndexTable
      <4>1. PICK kept : kept = Kept
        OBVIOUS
      <4>2. FlattenSeq(Indexes(list)) = kept
        BY <2>1, <3>2, <4>1 DEF Kept
      <4>3. FileIndex' = Joined(kept, <<>>)
        BY <2>1, <2>2, <2>7, <3>2, <4>2 DEF Longer
      <4>4. Joined(kept, <<>>) = kept
        BY <2>4, <4>1, JoinedTables
      <4> QED BY <4>1, <4>3, <4>4
    <3> QED BY <3>1, <3>2
  <2>9. VariableTableInv'
    BY <1>2, <2>3, <2>4, <2>5, <2>8 DEF VariableTableInv
  <2> QED BY <1>5, <2>6, <2>9 DEF WholeInv
<1> QED BY <1>1, <1>3, <1>4, <1>5

LEMMA ConstantFooter ==
  ASSUME LayoutInv, WholeInv, WriteFooter, IsCBE
  PROVE  WholeInv'
<1>1. /\ pc = "footer" /\ indexStatus = "ok" /\ pc' = "rewrite"
      /\ \/ /\ HaveFooterSegments /\ WriteSegments(TRUE, TRUE)
            /\ partitions' = Append(partitions, Partition(output', NoOffset))
            /\ cbePartition' = IF ~haveWritten THEN Len(partitions) + 1 ELSE cbePartition
         \/ /\ ~HaveFooterSegments /\ UNCHANGED <<indexVars, cbePartition>>
            /\ partitions' = Append(partitions, Partition(<<>>, NoOffset))
  BY DEF WriteFooter
<1>2. pc \in Ending \ {"end"} /\ pc' \in Finished
  BY <1>1 DEF Finished, Ending
<1>3. ConstantTableInv /\ duration \in Nat
  BY <1>1 DEF WholeInv, LayoutInv, FileTypeInv
<1>4. SinglePass => duration = InputDuration
  BY <1>2, <1>3 DEF ConstantTableInv
<1>5. haveWritten => duration > 0 /\ cbePartition \in 1 .. Len(partitions)
  BY <1>1, Known DEF PlacedInv
<1>6. CASE indexStatus' # "ok"
  BY <1>1, <1>6, WholeFailed
<1>7. CASE /\ HaveFooterSegments /\ WriteSegments(TRUE, TRUE) /\ indexStatus' = "ok"
           /\ partitions' = Append(partitions, Partition(output', NoOffset))
           /\ cbePartition' = IF ~haveWritten THEN Len(partitions) + 1 ELSE cbePartition
  <2>1. PICK list, new, x : list = partitions /\ new = partitions' /\ x = output'
    OBVIOUS
  <2>2. Longer(list, x, new)
    <3>1. IsFile(list)
      BY <2>1 DEF LayoutInv, FileTypeInv
    <3>2. new = Append(list, Partition(x, NoOffset))
      BY <1>7, <2>1
    <3> QED BY <3>1, <3>2, AddedPartition, Zenon
  <2>3. /\ ConstantTable' /\ haveWritten' = TRUE
        /\ firstSegment' = firstSegment /\ duration' = duration
        /\ IsCBE' = IsCBE /\ SinglePass' = SinglePass /\ InputDuration' = InputDuration
        /\ RepeatIndexTable' = RepeatIndexTable
        /\ IsTable(output') /\ Spans(output', 0, duration)
    BY <1>1, <1>4, <1>7, ConstantWrite
  <2>4. new[Len(new)].index = x /\ Spans(x, 0, duration) /\ IsTable(x)
    BY <2>1, <2>2, <2>3 DEF Longer
  <2>5. /\ IsTable(Table')
        /\ SinglePass => Promised(Table', InputDuration, firstSegment, duration)
        /\ cbePartition' = Len(new) => Spans(Table', 0, duration)
        /\ ~RepeatIndexTable => \A i \in 1 .. Len(new) : new[i].index # <<>> => i = cbePartition'
    <3>1. CASE ~haveWritten
      <4>1. cbePartition' = Len(list) + 1
        BY <1>7, <2>1, <3>1
      <4>2. Table' = x
        BY <2>1, <2>2, <4>1 DEF Table, Longer
      <4>3. SinglePass => Promised(x, InputDuration, firstSegment, duration)
        BY <1>4, <2>4 DEF Promised
      <4>4. ~RepeatIndexTable => \A i \in 1 .. Len(list) : list[i].index = <<>>
        BY <1>3, <2>1, <3>1 DEF ConstantTableInv
      <4>5. ~RepeatIndexTable => \A i \in 1 .. Len(new) : new[i].index # <<>> => i = cbePartition'
        BY <2>2, <4>1, <4>4 DEF Longer
      <4> QED BY <2>4, <4>2, <4>3, <4>5
    <3>2. CASE haveWritten
      <4>1. cbePartition' = cbePartition /\ cbePartition \in 1 .. Len(list) /\ RepeatIndexTable
        BY <1>3, <1>5, <1>7, <2>1, <3>2 DEF HaveFooterSegments
      <4>2. Table' = Table /\ cbePartition' # Len(new)
        <5>1. cbePartition' # Len(new)
          BY <2>2, <4>1 DEF Longer
        <5> QED BY <2>1, <2>2, <4>1, <5>1 DEF Table, Longer
      <4>3. IsTable(Table) /\ (SinglePass => Promised(Table, InputDuration, firstSegment, duration))
        BY <1>3, <3>2 DEF ConstantTableInv
      <4> QED BY <4>1, <4>2, <4>3
    <3> QED BY <3>1, <3>2
  <2>6. Settled' => cbePartition' = Len(new)
    BY <1>1, <2>1 DEF Settled
  <2>7. ConstantTableInv'
    BY <1>4, <2>1, <2>3, <2>4, <2>5, <2>6 DEF ConstantTableInv
  <2> QED BY <1>7, <2>3, <2>7 DEF WholeInv
<1>8. CASE /\ ~HaveFooterSegments /\ UNCHANGED <<indexVars, cbePartition>> /\ indexStatus' = "ok"
           /\ partitions' = Append(partitions, Partition(<<>>, NoOffset))
  <2>1. PICK list, new, x : list = partitions /\ new = partitions' /\ x = <<>>
    OBVIOUS
  <2>2. Longer(list, x, new)
    <3>1. IsFile(list)
      BY <2>1 DEF LayoutInv, FileTypeInv
    <3>2. new = Append(list, Partition(x, NoOffset))
      BY <1>8, <2>1
    <3> QED BY <3>1, <3>2, AddedPartition, Zenon
  <2>3. /\ config' = config /\ segments' = segments /\ firstSegment' = firstSegment
        /\ duration' = duration /\ haveWritten' = haveWritten /\ cbePartition' = cbePartition
    BY <1>8 DEF indexVars
  <2>4. /\ IsCBE' = IsCBE /\ SinglePass' = SinglePass /\ InputDuration' = InputDuration
        /\ RepeatIndexTable' = RepeatIndexTable
    BY <2>3, SameConfig
  <2>5. ConstantTable'
    BY <1>3, <2>3, Zenon DEF ConstantTableInv, ConstantTable, ConstantInv, FirstUnits
  <2>6. RepeatIndexTable => duration = 0
    <3>1. ~(duration > 0) \/ (haveWritten /\ ~RepeatIndexTable)
      BY <1>8 DEF HaveFooterSegments
    <3> QED BY ONLY <1>3, <3>1
  <2>7. RepeatIndexTable => Spans(new[Len(new)].index, 0, duration)
    BY <2>1, <2>2, <2>6, SpansNone DEF Longer
  <2>8. haveWritten =>
          /\ cbePartition # Len(new) /\ IsTable(Table')
          /\ SinglePass => Promised(Table', InputDuration, firstSegment, duration)
    <3> SUFFICES ASSUME haveWritten
                 PROVE  /\ cbePartition # Len(new) /\ IsTable(Table')
                        /\ SinglePass => Promised(Table', InputDuration, firstSegment, duration)
      OBVIOUS
    <3>1. cbePartition \in 1 .. Len(list)
      BY <1>5, <2>1
    <3>2. Table' = Table /\ cbePartition # Len(new)
      <4>1. cbePartition # Len(new)
        BY <2>2, <3>1 DEF Longer
      <4> QED BY <2>1, <2>2, <2>3, <3>1, <4>1 DEF Table, Longer
    <3>3. IsTable(Table) /\ (SinglePass => Promised(Table, InputDuration, firstSegment, duration))
      BY <1>3 DEF ConstantTableInv
    <3> QED BY <3>2, <3>3
  <2>9. ~RepeatIndexTable =>
          \A i \in 1 .. Len(new) : new[i].index # <<>> => haveWritten /\ i = cbePartition
    <3>1. ~RepeatIndexTable =>
            \A i \in 1 .. Len(list) : list[i].index # <<>> => haveWritten /\ i = cbePartition
      BY <1>3, <2>1 DEF ConstantTableInv
    <3> QED BY <2>1, <2>2, <3>1 DEF Longer
  <2>10. Settled' => cbePartition = Len(new)
    BY <1>1, <2>1, <2>3 DEF Settled
  <2>11. ConstantTableInv'
    BY <1>4, <2>1, <2>3, <2>4, <2>5, <2>7, <2>8, <2>9, <2>10 DEF ConstantTableInv
  <2> QED BY <1>8, <2>4, <2>11 DEF WholeInv
<1> QED BY <1>1, <1>6, <1>7, <1>8

(* The table of a constant rate is written again.                          *)
LEMMA RewriteWhole ==
  ASSUME LayoutInv, LayoutInv', WholeInv, Rewrite
  PROVE  WholeInv'
<1>1. /\ pc = "rewrite" /\ indexStatus = "ok" /\ pc' = "closed" /\ cbePartition' = cbePartition
      /\ IF Rewrites
           THEN /\ WriteSegments(FALSE, TRUE)
                /\ partitions' = [partitions EXCEPT ![cbePartition].index = output']
           ELSE UNCHANGED <<indexVars, partitions>>
  BY DEF Rewrite
<1>2. pc \in Finished /\ pc' \in Finished /\ pc \in Ending \ {"end"}
  BY <1>1 DEF Finished, Ending
<1>3. CASE Rewrites
  <2>1. /\ IsCBE /\ haveWritten /\ indexStatus' = "ok" /\ cbePartition \in DOMAIN partitions
        /\ ~SinglePass /\ cbePartition < Len(partitions)
        /\ WriteSegments(FALSE, TRUE)
        /\ partitions' = [partitions EXCEPT ![cbePartition].index = output']
    BY <1>1, <1>3, Rewritten DEF Rewrites
  <2>2. /\ ConstantTableInv /\ ConstantTable' /\ haveWritten' = TRUE
        /\ firstSegment' = firstSegment /\ duration' = duration
        /\ IsCBE' = IsCBE /\ SinglePass' = SinglePass /\ InputDuration' = InputDuration
        /\ RepeatIndexTable' = RepeatIndexTable
        /\ IsTable(output') /\ Spans(output', 0, duration)
    BY <1>1, <2>1, ConstantWrite
  <2>3. PICK list, new, x, c : list = partitions /\ new = partitions' /\ x = output' /\ c = cbePartition
    OBVIOUS
  <2>4. IsFile(list) /\ c \in 1 .. Len(list) /\ c # Len(list) /\ Len(list) \in 1 .. Len(list)
    <3>1. IsFile(list)
      BY <2>3 DEF LayoutInv, FileTypeInv
    <3>2. Len(list) \in Nat \ {0} /\ DOMAIN list = 1 .. Len(list)
      BY <3>1, FileLen
    <3> QED BY <2>1, <2>3, <3>1, <3>2
  <2>5. /\ Len(new) = Len(list)
        /\ \A i \in 1 .. Len(list) : new[i].index = IF i = c THEN x ELSE list[i].index
    <3>1. new = [list EXCEPT ![c].index = x]
      BY <2>1, <2>3
    <3> QED BY ONLY <2>4, <3>1, IndexPut
  <2>6. Table' = x
    BY <1>1, <2>3, <2>4, <2>5 DEF Table
  <2>7. ~RepeatIndexTable => \A i \in 1 .. Len(new) : new[i].index # <<>> => i = c
    BY <2>2, <2>3, <2>5 DEF ConstantTableInv
  <2>8. RepeatIndexTable => Spans(new[Len(new)].index, 0, duration)
    BY <1>2, <2>2, <2>3, <2>4, <2>5 DEF ConstantTableInv
  <2>9. ConstantTableInv'
    BY <1>1, <2>1, <2>2, <2>3, <2>6, <2>7, <2>8 DEF ConstantTableInv
  <2> QED BY <2>1, <2>2, <2>9 DEF WholeInv
<1>4. CASE ~Rewrites
  <2>1. /\ config' = config /\ segments' = segments /\ flushed' = flushed
        /\ firstSegment' = firstSegment /\ duration' = duration /\ haveWritten' = haveWritten
        /\ indexStatus' = "ok" /\ cbePartition' = cbePartition /\ partitions' = partitions
    BY <1>1, <1>4 DEF indexVars
  <2>2. /\ IsCBE' = IsCBE /\ SinglePass' = SinglePass /\ InputDuration' = InputDuration
        /\ RepeatIndexTable' = RepeatIndexTable
    BY <2>1, SameConfig
  <2>3. CASE ~IsCBE
    <3>1. VariableTableInv
      BY <1>1, <2>3 DEF WholeInv
    <3>2. FileIndex' = FileIndex
      BY <2>1, FileIndexOf
    <3>3. VariableTableInv'
      BY <1>2, <2>1, <3>1, <3>2 DEF VariableTableInv
    <3> QED BY <2>1, <2>2, <2>3, <3>3 DEF WholeInv
  <2>4. CASE IsCBE
    <3>1. ConstantTableInv
      BY <1>1, <2>4 DEF WholeInv
    <3>2. ConstantTable' /\ Table' = Table
      BY <2>1, <3>1, Zenon DEF ConstantTableInv, ConstantTable, ConstantInv, FirstUnits, Table
    <3>3. haveWritten => Spans(Table, 0, duration)
      <4> SUFFICES ASSUME haveWritten PROVE Spans(Table, 0, duration)
        OBVIOUS
      <4>1. CASE SinglePass
        <5>1. duration = InputDuration /\ Promised(Table, InputDuration, firstSegment, duration)
          BY <1>2, <3>1, <4>1 DEF ConstantTableInv
        <5> QED BY <5>1 DEF Promised
      <4>2. CASE ~SinglePass
        <5>1. duration > 0 /\ cbePartition \in 1 .. Len(partitions)
          BY <1>1, <2>4, Known DEF PlacedInv
        <5>2. ~firstWrite
          BY <1>1, <5>1, Known DEF ProgressInv
        <5>3. ~(cbePartition < Len(partitions))
          BY <1>4, <2>4, <4>2, <5>2 DEF Rewrites
        <5>4. Len(partitions) \in Nat
          BY FileLen DEF LayoutInv, FileTypeInv
        <5>5. cbePartition = Len(partitions)
          BY ONLY <5>1, <5>3, <5>4
        <5> QED BY <1>1, <3>1, <5>5 DEF ConstantTableInv, Settled
      <4> QED BY <4>1, <4>2
    <3>4. ConstantTableInv'
      BY <1>2, <2>1, <2>2, <3>1, <3>2, <3>3 DEF ConstantTableInv
    <3> QED BY <2>1, <2>2, <2>4, <3>4 DEF WholeInv
  <2> QED BY <2>3, <2>4
<1> QED BY <1>3, <1>4

(* The invariant holds at the start and in every step.                     *)
LEMMA InitWhole ==
  ASSUME Init
  PROVE  WholeInv
<1>1. /\ config \in Configs /\ duration = 0 /\ haveWritten = FALSE /\ indexStatus = "ok"
      /\ segments = <<NewSegment(0)>> /\ flushed = <<>>
      /\ firstSegment = (IF RequireIndexTableSegmentPair THEN <<NewSegment(0)>> ELSE <<>>)
      /\ pc = "idle"
  BY DEF Init, InitIndexTable
<1>2. IsFile(partitions)
  BY InitInv DEF LayoutInv, FileTypeInv
<1>3. PICK list : list = partitions
  OBVIOUS
<1>4. Len(list) = 1 /\ list[1].index = <<>>
  <2>1. PICK o : list = <<Partition(<<>>, o)>>
    BY <1>3 DEF Init
  <2>2. PICK p : p = Partition(<<>>, o)
    OBVIOUS
  <2> QED BY <2>1, <2>2 DEF Partition
<1>5. PICK s : s = NewSegment(0)
  OBVIOUS
<1>6. IsSegment(s) /\ s.start = 0 /\ s.duration = 0 /\ s.entries = <<>>
  BY <1>5, NewSegmentIs
<1>7. IsTable(<<s>>) /\ NoEntries(<<s>>) /\ Len(<<s>>) = 1 /\ <<s>>[1] = s /\ <<s>> # <<>>
  BY <1>6, OneWithoutEntries
<1>8. segments = <<s>> /\ (firstSegment = <<>> \/ (firstSegment = <<s>> /\ config.avci))
  BY <1>1, <1>5 DEF RequireIndexTableSegmentPair
<1>9. pc \notin Finished /\ ~Settled
  BY <1>1 DEF Finished, Settled
<1>10. ASSUME ~IsCBE PROVE VariableTableInv
  <2>1. Kept = <<>>
    <3>1. CASE RepeatIndexTable
      BY <1>1, <3>1 DEF Kept
    <3>2. CASE ~RepeatIndexTable
      <4>1. PICK indexes : indexes = Indexes(list)
        OBVIOUS
      <4>2. Len(indexes) = 1 /\ indexes[1] = <<>>
        <5>1. 1 \in 1 .. 1
          OBVIOUS
        <5> QED BY <1>2, <1>3, <1>4, <4>1, <5>1, IndexesOf
      <4>3. PICK n \in Nat \ {0} : n = 1
        OBVIOUS
      <4>4. PICK c \in 1 .. n : c = 1
        BY <4>3
      <4>5. \A i \in 1 .. n : i = c
        BY <4>3, <4>4
      <4>6. <<>> \in Seq({})
        OBVIOUS
      <4>7. FlattenSeq(indexes) = indexes[c]
        BY <4>2, <4>3, <4>4, <4>5, <4>6, FlattenOnly
      <4> QED BY <1>3, <3>2, <4>1, <4>2, <4>4, <4>7 DEF Kept
    <3> QED BY <3>1, <3>2
  <2>2. IsTable(Kept) /\ Spans(Kept, 0, 0)
    BY <2>1, EmptyTable, SpansNone
  <2>3. Spans(segments, 0, 0)
    <3>1. s.start + s.duration = 0
      BY <1>6
    <3> QED BY <1>6, <1>8, <3>1, SpansOne
  <2>4. 0 \in 0 .. duration
    BY <1>1
  <2>5. \A i \in 1 .. Len(segments) : i = 1 /\ Len(segments[i].entries) = segments[i].duration
    <3>1. \A i \in 1 .. 1 : i = 1
      OBVIOUS
    <3>2. Len(<<>>) = 0
      OBVIOUS
    <3> QED BY <1>6, <1>7, <1>8, <3>1, <3>2
  <2>6. IsTable(flushed)
    BY <1>1, EmptyTable
  <2> QED BY <1>1, <1>7, <1>8, <1>9, <2>2, <2>3, <2>4, <2>5, <2>6 DEF VariableTableInv
<1>11. ASSUME IsCBE PROVE ConstantTableInv
  <2>1. IsTable(firstSegment) /\ NoEntries(firstSegment)
    BY <1>7, <1>8, EmptyTable
  <2>2. ConstantInv
    <3>1. FirstUnits = 0 /\ 0 - 0 = 0
      BY <1>1 DEF FirstUnits
    <3> QED BY <1>1, <1>6, <1>7, <1>8, <2>1, <3>1 DEF ConstantInv
  <2>3. ConstantTable
    BY <1>1, <1>7, <1>8, <2>1, <2>2 DEF ConstantTable
  <2>4. \A i \in 1 .. Len(partitions) : partitions[i].index = <<>>
    <3>1. \A i \in 1 .. 1 : i = 1
      OBVIOUS
    <3> QED BY <1>3, <1>4, <3>1
  <2>5. pc \notin Ending \ {"end"}
    BY <1>1 DEF Ending
  <2> QED BY <1>1, <1>9, <2>3, <2>4, <2>5 DEF ConstantTableInv
<1> QED BY <1>1, <1>10, <1>11 DEF WholeInv

LEMMA NextWhole ==
  ASSUME LayoutInv, LayoutInv', WholeInv, [Next]_vars
  PROVE  WholeInv'
<1>1. CASE \E e \in Element : StartFrame(e)
  BY <1>1, StartFrameWhole
<1>2. CASE \E p \in 0 .. (config.frames - 1) : CompleteEntry(p)
  BY <1>2, CompleteEntryWhole
<1>3. CASE \E complete \in BOOLEAN : WriteFrame(complete)
  BY <1>3, WriteFrameWhole
<1>4. CASE LeaveLoop \/ FirstPackage \/ WhileWaiting \/ NextPackage \/ CompleteWrite
  BY <1>4, DecisionsWhole
<1>5. CASE PreIndex \/ WriteCBEIndex \/ StartPartition \/ WriteEssence
  BY <1>5, PreIndexWhole, WriteCBEIndexWhole, StartPartitionWhole, WriteEssenceWhole
<1>6. CASE IgnoreEntries \/ EndSamples
  BY <1>6, IgnoreEntriesWhole, EndSamplesWhole
<1>7. CASE WriteIndexPartition \/ WriteFooter \/ Rewrite
  BY <1>7, WriteIndexPartitionWhole, VariableFooter, ConstantFooter, RewriteWhole
<1>8. CASE GiveUpPreviousGOP
  BY <1>8, GiveUpPreviousGOPWhole
<1>9. CASE Done \/ UNCHANGED vars
  BY <1>9, StutterWhole DEF Done
<1> QED BY <1>1, <1>2, <1>3, <1>4, <1>5, <1>6, <1>7, <1>8, <1>9 DEF Next

(* What a closed file's index spans.                                       *)
LEMMA ClosedIndex ==
  ASSUME LayoutInv, WholeInv, pc = "closed"
  PROVE  indexStatus = "ok" /\ Spans(FileIndex, 0, duration)
<1>1. indexStatus = "ok" /\ pc \in Finished
  BY DEF WholeInv, Finished
<1>2. CASE ~IsCBE
  BY <1>1, <1>2 DEF WholeInv, VariableTableInv
<1>3. CASE IsCBE
  <2>1. ConstantTableInv /\ Settled
    BY <1>1, <1>3 DEF WholeInv, Settled
  <2>2. CASE RepeatIndexTable
    BY <1>1, <2>1, <2>2 DEF FileIndex, ConstantTableInv
  <2>3. CASE ~RepeatIndexTable
    <3>1. PICK list, indexes, n : list = partitions /\ indexes = Indexes(list) /\ n = Len(list)
      OBVIOUS
    <3>2. /\ n \in Nat \ {0} /\ Len(indexes) = n
          /\ \A i \in 1 .. n : indexes[i] = list[i].index
      BY <3>1, IndexesOf DEF LayoutInv, FileTypeInv
    <3>3. FileIndex = FlattenSeq(indexes)
      BY <2>3, <3>1, FileIndexOf DEF IndexOf, RepeatIndexTable
    <3>4. \A i \in 1 .. n : indexes[i] # <<>> => haveWritten /\ i = cbePartition
      BY <2>1, <2>3, <3>1, <3>2 DEF ConstantTableInv
    <3>5. CASE haveWritten
      <4>1. PICK c \in 1 .. n : c = cbePartition
        BY <1>1, <1>3, <3>1, <3>5, Known DEF PlacedInv
      <4>2. indexes[c] = Table /\ IsTable(Table) /\ Spans(Table, 0, duration)
        BY <2>1, <3>1, <3>2, <3>5, <4>1 DEF ConstantTableInv, Table
      <4>3. indexes[c] \in Seq(Range(indexes[c]))
        BY <4>2 DEF IsTable
      <4>4. FlattenSeq(indexes) = indexes[c]
        BY <3>2, <3>4, <4>1, <4>3, FlattenOnly
      <4> QED BY <1>1, <3>3, <4>2, <4>4
    <3>6. CASE ~haveWritten
      <4>1. PICK c \in 1 .. n : c = 1
        BY <3>2
      <4>2. indexes[c] = <<>> /\ <<>> \in Seq({})
        BY <3>4, <3>6
      <4>3. FlattenSeq(indexes) = indexes[c]
        BY <3>2, <3>4, <3>6, <4>2, FlattenOnly
      <4>4. duration = 0
        <5>1. ~(duration > 0) /\ duration \in Nat
          BY <1>1, <1>3, <3>6, Known DEF PlacedInv, LayoutInv, FileTypeInv
        <5> QED BY <5>1
      <4> QED BY <1>1, <3>3, <4>2, <4>3, <4>4, SpansNone
    <3> QED BY <3>5, <3>6
  <2> QED BY <2>2, <2>3
<1> QED BY <1>2, <1>3

(* A file that was closed holds every complete content package, and its    *)
(* index describes each of them once, whether the table is of a constant   *)
(* or a variable rate, in one place or spread over the partitions,         *)
(* repeated in the footer or not.                                          *)
THEOREM ClosedFileIsWhole == Spec => []ClosedFileWhole
<1>1. Init => WholeInv
  BY InitWhole
<1>2. LayoutInv /\ LayoutInv' /\ WholeInv /\ [Next]_vars => WholeInv'
  BY NextWhole
<1>3. LayoutInv /\ WholeInv => ClosedFileWhole
  <2> SUFFICES ASSUME LayoutInv, WholeInv, pc = "closed"
               PROVE  /\ ~HavePackages(1)
                      /\ Spans(FileIndex, 0, written)
    BY DEF ClosedFileWhole, Spans
  <2>1. indexStatus = "ok" /\ Spans(FileIndex, 0, duration)
    BY ClosedIndex
  <2> QED BY <2>1, AllWritten
<1> QED BY <1>1, <1>2, <1>3, LayoutInvariant, PTL DEF Spec

-----------------------------------------------------------------------------
(* What the index in the file says: the inductive invariant.               *)

(* The segments of a partition are about edit units, and their entries are *)
(* complete but at the positions that are gone.                            *)
Inside(list, units) ==
  \A s \in 1 .. Len(list) : \A k \in 1 .. Len(list[s].entries) : list[s].start + k - 1 \in units
Describes(list, units, gone) == IsTable(list) /\ Right(list, gone) /\ Inside(list, units)

FileEntries(list, gone) ==
  \A i \in 1 .. Len(list) : Describes(list[i].index, UnitsBefore(list, i), gone)

(* The positions whose entries are not complete, yet or ever.              *)
Required == UNION {requireUpdates[e] : e \in Element}
OpenAt == ignored \cup Required

(* No track is further ahead of the file than the queue is long.           *)
QueueInv == \A e \in Element : supplied[e] <= written + MaxPackages

(* An entry that is to be completed is in the cache or in a segment that   *)
(* has not been flushed; the others are what the picture shall show.       *)
CachedInv ==
  /\ requireUpdates \in [Element -> SUBSET Nat]
  /\ \A e \in CBEElement : requireUpdates[e] = {}
  /\ ~IsCBE => \A e \in CBEElement : DOMAIN cache[e] = {}
  /\ \A e \in VBEElement :
       /\ \A p \in DOMAIN cache[e] : p \notin OpenAt => Shown(cache[e][p]) = Final[p]
       /\ \A p \in requireUpdates[e] :
            p < supplied[e] /\ (p < duration => \E i \in 1 .. Len(segments) : HoldsPosition(i, p))

Disjoint(list) ==
  \A i, j \in 1 .. Len(list) : i < j => list[i].start + list[i].duration <= list[j].start

SegmentsInv ==
  /\ Right(segments, OpenAt) /\ Right(flushed, ignored)
  /\ Disjoint(segments)
  /\ Inside(flushed, 0 .. (duration - 1))
  /\ \A i \in 1 .. Len(segments) : segments[i].start + segments[i].duration <= duration
  /\ flushed # <<>> => duration > 0

(* Where a partition is started every entry before it is complete; at the  *)
(* end nothing waits for completion any more.                              *)
NothingRequiredInv ==
  /\ pc = "partition" => \A p \in Required : p >= written
  /\ endOfSamples /\ pc # "completing" => Required = {}
  /\ IsCBE => ignored = {}

(* The sizes that the table knows are those of the frames to come.         *)
SteadyInv ==
  /\ ~CreatesDeltas =>
       \A p \in duration .. (config.frames - 1) : \A i \in DOMAIN Elements :
         Elements[i] \in CBEElement => elementSize[Elements[i]] = config.sizes[p][i]
  /\ IsCBE /\ ~(duration = 0 /\ firstSegment # <<>>) =>
       \A p \in duration .. (config.frames - 1) :
         segments[1].byteCount \in {0, ContentPackageSize(config.sizes[p])}
  /\ ~IsCBE => firstSegment = <<>>
  /\ IsCBE /\ config.avci /\ duration <= 1 => firstSegment # <<>>

(* An MPEG-2 track only adds to the offsets that it knows keys already.     *)
KeysInv ==
  indexStatus = "ok" /\ ~IsCBE /\ config.mpeg2 =>
    /\ \A e \in VBEElement : \A p \in DOMAIN cache[e] : cache[e][p].key = Final[p].key
    /\ KeysKnown(segments)

EntriesInv ==
  /\ pc # "failed" => indexStatus = "ok"
  /\ FileEntries(partitions, ignored)
  /\ indexStatus = "ok" =>
       QueueInv /\ CachedInv /\ (~IsCBE => SegmentsInv) /\ NothingRequiredInv /\ SteadyInv

-----------------------------------------------------------------------------
(* The entries of the partitions.                                          *)

LEMMA NothingDescribed ==
  ASSUME NEW list, IsTable(list), NoEntries(list), NEW units, NEW gone
  PROVE  Describes(list, units, gone)
<1>1. Right(list, gone)
  BY NoEntriesRight
<1>2. ASSUME NEW s \in 1 .. Len(list), NEW k \in 1 .. Len(list[s].entries) PROVE FALSE
  <2>1. list[s].entries = <<>>
    BY DEF NoEntries
  <2> QED BY <2>1, <1>2, EmptySeq
<1>3. Inside(list, units)
  BY <1>2 DEF Inside
<1> QED BY <1>1, <1>3 DEF Describes

LEMMA DescribesMore ==
  ASSUME NEW list, NEW units, NEW gone, Describes(list, units, gone),
         NEW moreUnits, units \subseteq moreUnits, NEW moreGone, gone \subseteq moreGone
  PROVE  Describes(list, moreUnits, moreGone)
<1>1. Right(list, moreGone)
  BY MoreOpen DEF Describes
<1>2. Inside(list, moreUnits)
  BY DEF Describes, Inside
<1> QED BY <1>1, <1>2 DEF Describes

LEMMA JoinedDescribe ==
  ASSUME NEW a, NEW b, NEW units, NEW gone, Describes(a, units, gone), Describes(b, units, gone)
  PROVE  Describes(a \o b, units, gone)
<1>1. IsTable(a) /\ IsTable(b)
  BY DEF Describes
<1>2. Right(a \o b, gone)
  BY <1>1, ConcatRight DEF Describes
<1>3. /\ IsTable(a \o b) /\ Len(a \o b) = Len(a) + Len(b)
      /\ \A i \in 1 .. Len(a) : (a \o b)[i] = a[i]
      /\ \A i \in 1 .. Len(b) : (a \o b)[Len(a) + i] = b[i]
  BY <1>1, TableConcat
<1>4. Len(a) \in Nat /\ Len(b) \in Nat
  BY <1>1, TableLen
<1>5. ASSUME NEW i \in 1 .. Len(a \o b), NEW k \in 1 .. Len((a \o b)[i].entries)
      PROVE  (a \o b)[i].start + k - 1 \in units
  <2>1. CASE i \in 1 .. Len(a)
    BY <1>3, <1>5, <2>1 DEF Describes, Inside
  <2>2. CASE i \notin 1 .. Len(a)
    <3>1. PICK j \in 1 .. Len(b) : i = Len(a) + j
      <4>1. i - Len(a) \in 1 .. Len(b) /\ i = Len(a) + (i - Len(a))
        BY <1>3, <1>4, <2>2
      <4> QED BY <4>1
    <3> QED BY <1>3, <1>5, <3>1 DEF Describes, Inside
  <2> QED BY <2>1, <2>2
<1> QED BY <1>2, <1>3, <1>5 DEF Describes, Inside

(* The indexes stay as they are, and nothing before them is lost.          *)
LEMMA EntriesStay ==
  ASSUME NEW list, IsFile(list), NEW gone, FileEntries(list, gone), NEW new, Len(new) = Len(list),
         \A i \in 1 .. Len(list) : new[i].index = list[i].index,
         \A i \in 1 .. (Len(list) - 1) : new[i].essence = list[i].essence,
         NEW more, gone \subseteq more
  PROVE  FileEntries(new, more)
<1>1. Len(list) \in Nat
  BY FileLen
<1>2. ASSUME NEW i \in 1 .. Len(list) PROVE Describes(new[i].index, UnitsBefore(new, i), more)
  <2>1. Describes(list[i].index, UnitsBefore(list, i), gone)
    BY DEF FileEntries
  <2>2. \A j \in 1 .. (i - 1) : new[j].essence = list[j].essence
    BY <1>1
  <2>3. UnitsBefore(new, i) = UnitsBefore(list, i)
    BY <2>2, Zenon DEF UnitsBefore
  <2>4. Describes(list[i].index, UnitsBefore(new, i), more)
    BY <2>1, <2>3, DescribesMore
  <2> QED BY <2>4
<1> QED BY <1>2 DEF FileEntries

(* A partition without essence is added.                                   *)
SoFar(list, units, gone) ==
  IsFile(list) /\ FileEntries(list, gone) /\ UnitsBefore(list, Len(list) + 1) = units

LEMMA EntriesAdded ==
  ASSUME NEW list, NEW units, NEW gone, SoFar(list, units, gone),
         NEW x, Describes(x, units, gone), NEW offset,
         NEW new, new = Append(list, Partition(x, offset))
  PROVE  SoFar(new, units, gone)
<1>0. IsFile(list) /\ FileEntries(list, gone) /\ UnitsBefore(list, Len(list) + 1) = units
  BY DEF SoFar
<1>1. PICK p : p = Partition(x, offset) /\ IsPartition(p) /\ p.index = x /\ p.essence = <<>>
  BY NewPartition
<1>2. /\ IsFile(new) /\ Len(new) = Len(list) + 1
      /\ \A i \in 1 .. Len(list) : new[i] = list[i]
      /\ new[Len(list) + 1] = p
  BY <1>0, <1>1, FileAppend
<1>3. Len(list) \in Nat \ {0}
  BY <1>0, FileLen
<1>4. ASSUME NEW i \in 1 .. (Len(list) + 1) PROVE UnitsBefore(new, i) = UnitsBefore(list, i)
  <2>1. \A j \in 1 .. (i - 1) : new[j] = list[j]
    BY <1>2, <1>3
  <2> QED BY <2>1, Zenon DEF UnitsBefore
<1>5. ASSUME NEW i \in 1 .. Len(new) PROVE Describes(new[i].index, UnitsBefore(new, i), gone)
  <2>1. i \in 1 .. (Len(list) + 1)
    BY <1>2
  <2>2. UnitsBefore(new, i) = UnitsBefore(list, i)
    BY <1>4, <2>1
  <2>3. CASE i \in 1 .. Len(list)
    <3>1. Describes(list[i].index, UnitsBefore(list, i), gone) /\ new[i] = list[i]
      BY <1>0, <1>2, <2>3 DEF FileEntries
    <3> QED BY <2>2, <3>1
  <2>4. CASE i = Len(list) + 1
    <3>1. new[i].index = x
      BY <1>1, <1>2, <2>4
    <3>2. UnitsBefore(new, i) = units
      BY <1>0, <2>2, <2>4
    <3> QED BY <3>1, <3>2
  <2> QED BY <1>3, <2>1, <2>3, <2>4
<1>6. UnitsBefore(new, Len(new) + 1) = UnitsBefore(list, Len(list) + 1)
  <2>1. Range(new[Len(list) + 1].essence) = {}
    BY <1>1, <1>2, EmptySeq DEF Range
  <2>2. Len(list) + 1 \in Nat \ {0} /\ Len(new) + 1 = (Len(list) + 1) + 1
    BY <1>2, <1>3
  <2>3. UnitsBefore(new, Len(new) + 1)
          = UnitsBefore(new, Len(list) + 1) \cup Range(new[Len(list) + 1].essence)
    BY <2>2, MoreUnits
  <2>4. UnitsBefore(new, Len(list) + 1) = UnitsBefore(list, Len(list) + 1)
    <3>1. Len(list) + 1 \in 1 .. (Len(list) + 1)
      BY <1>3
    <3> QED BY <1>4, <3>1
  <2> QED BY <2>1, <2>3, <2>4
<1> QED BY <1>0, <1>2, <1>5, <1>6 DEF SoFar, FileEntries

(* The index of a partition is replaced by one without entries.            *)
LEMMA EntriesPut ==
  ASSUME NEW list, IsFile(list), NEW gone, FileEntries(list, gone),
         NEW x, IsTable(x), NoEntries(x), NEW n \in DOMAIN list,
         NEW new, new = WithIndex(list, n, x)
  PROVE  FileEntries(new, gone)
<1>1. DOMAIN list = 1 .. Len(list) /\ Len(list) \in Nat
  BY FileLen
<1>2. /\ Len(new) = Len(list)
      /\ \A i \in 1 .. Len(list) : new[i].index = IF i = n THEN x ELSE list[i].index
  BY <1>1, IndexPut DEF WithIndex
<1>3. \A i \in 1 .. Len(list) : new[i].essence = list[i].essence
  <2>1. \A i \in DOMAIN list : IsPartition(list[i])
    BY <1>1 DEF IsFile
  <2>2. ASSUME NEW i \in DOMAIN list PROVE new[i].essence = list[i].essence
    <3>1. CASE i # n
      BY <3>1 DEF WithIndex
    <3>2. CASE i = n
      <4>1. new[n] = [list[n] EXCEPT !.index = x]
        BY DEF WithIndex
      <4>2. IsPartition(list[n])
        BY <2>1
      <4> QED BY <3>2, <4>1, <4>2 DEF IsPartition
    <3> QED BY <3>1, <3>2
  <2> QED BY <1>1, <2>2
<1>4. ASSUME NEW i \in 1 .. Len(list) PROVE Describes(new[i].index, UnitsBefore(new, i), gone)
  <2>1. \A j \in 1 .. (i - 1) : new[j].essence = list[j].essence
    BY <1>1, <1>3
  <2>2. UnitsBefore(new, i) = UnitsBefore(list, i)
    BY <2>1, Zenon DEF UnitsBefore
  <2>3. CASE i = n
    <3>1. Describes(x, UnitsBefore(new, i), gone)
      BY NothingDescribed
    <3> QED BY <1>2, <2>3, <3>1
  <2>4. CASE i # n
    <3>1. Describes(list[i].index, UnitsBefore(list, i), gone)
      BY DEF FileEntries
    <3> QED BY <1>2, <2>2, <2>4, <3>1
  <2> QED BY <2>3, <2>4
<1> QED BY <1>2, <1>4 DEF FileEntries
-----------------------------------------------------------------------------
(* Steps that leave the index table as it is.                              *)

LEMMA NoRequiredBefore ==
  ASSUME requireUpdates \in [Element -> SUBSET Nat], NEW n \in Int, ~RequireUpdatesAtPos(n - 1)
  PROVE  \A p \in Required : p >= n
<1>1. SUFFICES ASSUME NEW e \in Element, NEW p \in requireUpdates[e] PROVE p >= n
  BY DEF Required
<1>2. p \in Nat /\ ~(p <= n - 1)
  BY DEF RequireUpdatesAtPos
<1> QED BY <1>2

LEMMA ConstantRequired ==
  ASSUME LayoutInv, CachedInv, IsCBE
  PROVE  Required = {} /\ \A e \in Element : requireUpdates[e] = {}
<1>1. \A e \in Element : e \in CBEElement
  BY DEF IsCBE
<1>2. \A e \in Element : requireUpdates[e] = {}
  BY <1>1 DEF CachedInv
<1> QED BY <1>2 DEF Required

LEMMA EntriesDecided ==
  ASSUME LayoutInv, EntriesInv, indexStatus = "ok",
         UNCHANGED <<indexVars, supplied, written, partitions, ignored>>, NothingRequiredInv'
  PROVE  EntriesInv'
<1>1. /\ config' = config /\ cache' = cache /\ requireUpdates' = requireUpdates
      /\ elementSize' = elementSize /\ firstSegment' = firstSegment /\ segments' = segments
      /\ flushed' = flushed /\ duration' = duration /\ indexStatus' = indexStatus
      /\ supplied' = supplied /\ written' = written /\ partitions' = partitions
      /\ ignored' = ignored
  BY DEF indexVars
<1>2. /\ Element' = Element /\ Elements' = Elements /\ CBEElement' = CBEElement
      /\ VBEElement' = VBEElement /\ IsCBE' = IsCBE
  BY <1>1, SameConfig
<1>3. Required' = Required /\ OpenAt' = OpenAt
  BY <1>1, <1>2 DEF Required, OpenAt
<1>4. QueueInv /\ CachedInv /\ (~IsCBE => SegmentsInv) /\ SteadyInv
      /\ FileEntries(partitions, ignored)
  BY DEF EntriesInv
<1>5. QueueInv'
  BY <1>1, <1>2, <1>4 DEF QueueInv
<1>6. CachedInv'
  BY <1>1, <1>2, <1>3, <1>4 DEF CachedInv, HoldsPosition
<1>7. ~IsCBE' => SegmentsInv'
  BY <1>1, <1>2, <1>3, <1>4 DEF SegmentsInv
<1>8. SteadyInv'
  BY <1>1, <1>2, <1>4 DEF SteadyInv, CreatesDeltas
<1>9. FileEntries(partitions', ignored')
  BY <1>1, <1>4
<1> QED BY <1>1, <1>5, <1>6, <1>7, <1>8, <1>9 DEF EntriesInv

LEMMA DecisionsEntries ==
  ASSUME LayoutInv, EntriesInv,
         \/ \E e \in Element : StartFrame(e)
         \/ LeaveLoop \/ FirstPackage \/ WhileWaiting \/ NextPackage \/ CompleteWrite \/ EndSamples
  PROVE  EntriesInv'
<1>1. indexStatus = "ok" /\ UNCHANGED <<indexVars, supplied, written, partitions, ignored>>
  BY DEF EntriesInv, StartFrame, LeaveLoop, FirstPackage, WhileWaiting, NextPackage,
         CompleteWrite, EndSamples, Looping
<1>2. /\ requireUpdates' = requireUpdates /\ written' = written /\ ignored' = ignored
      /\ config' = config
  BY <1>1 DEF indexVars
<1>3. Required' = Required /\ IsCBE' = IsCBE
  BY <1>2, SameConfig DEF Required
<1>4. NothingRequiredInv /\ CachedInv /\ ProgressInv /\ FileTypeInv
  BY <1>1, Known DEF EntriesInv
<1>5. requireUpdates \in [Element -> SUBSET Nat] /\ written \in Nat
  BY <1>4 DEF CachedInv, FileTypeInv
<1>6. CASE \E e \in Element : StartFrame(e)
  <2>1. pc' = "track" /\ pc = "idle" /\ endOfSamples' = endOfSamples
    BY <1>6 DEF StartFrame
  <2>2. NothingRequiredInv'
    BY <1>2, <1>3, <1>4, <2>1 DEF NothingRequiredInv
  <2> QED BY <1>1, <2>2, EntriesDecided
<1>7. CASE LeaveLoop
  <2>1. pc = "loop" /\ pc' \in {"end", "idle"} /\ endOfSamples' = endOfSamples
    BY <1>7 DEF LeaveLoop
  <2>2. NothingRequiredInv'
    BY <1>2, <1>3, <1>4, <2>1 DEF NothingRequiredInv
  <2> QED BY <1>1, <2>2, EntriesDecided
<1>8. CASE FirstPackage
  <2>1. pc = "loop" /\ pc' \in Starting /\ endOfSamples' = endOfSamples /\ firstWrite
    BY <1>8 DEF FirstPackage, Looping, Starting
  <2>2. written = 0
    BY <1>4, <2>1 DEF ProgressInv, FileTypeInv
  <2>3. \A p \in Required : p >= written
    BY <1>5, <2>2 DEF Required
  <2>4. NothingRequiredInv'
    BY <1>2, <1>3, <1>4, <2>1, <2>3 DEF NothingRequiredInv, Starting
  <2> QED BY <1>1, <2>4, EntriesDecided
<1>9. CASE WhileWaiting
  <2>1. /\ pc = "loop" /\ pc' \in {"partition", "essence", "failed", "idle"}
        /\ endOfSamples' = endOfSamples /\ (pc' = "partition" => EntriesComplete)
    BY <1>9 DEF WhileWaiting, Looping
  <2>2. pc' = "partition" => \A p \in Required : p >= written
    BY <1>5, <2>1, NoRequiredBefore DEF EntriesComplete
  <2>3. NothingRequiredInv'
    BY <1>2, <1>3, <1>4, <2>1, <2>2 DEF NothingRequiredInv
  <2> QED BY <1>1, <2>3, EntriesDecided
<1>10. CASE NextPackage
  <2>1. /\ pc = "loop" /\ pc' \in {"partition", "essence", "idle"}
        /\ endOfSamples' = endOfSamples /\ (pc' = "partition" => EntriesComplete)
    BY <1>10 DEF NextPackage, Looping
  <2>2. pc' = "partition" => \A p \in Required : p >= written
    BY <1>5, <2>1, NoRequiredBefore DEF EntriesComplete
  <2>3. NothingRequiredInv'
    BY <1>2, <1>3, <1>4, <2>1, <2>2 DEF NothingRequiredInv
  <2> QED BY <1>1, <2>3, EntriesDecided
<1>11. CASE CompleteWrite
  <2>1. pc = "idle" /\ pc' = "completing" /\ endOfSamples' = TRUE
    BY <1>11 DEF CompleteWrite
  <2>2. ~endOfSamples
    BY <1>4, <2>1 DEF ProgressInv, FileTypeInv
  <2>3. NothingRequiredInv'
    BY <1>2, <1>3, <1>4, <2>1, <2>2 DEF NothingRequiredInv
  <2> QED BY <1>1, <2>3, EntriesDecided
<1>12. CASE EndSamples
  <2>1. pc = "end" /\ pc' \in {"failed", "index"} /\ endOfSamples' = endOfSamples
    BY <1>12 DEF EndSamples
  <2>2. NothingRequiredInv'
    BY <1>2, <1>3, <1>4, <2>1 DEF NothingRequiredInv
  <2> QED BY <1>1, <2>2, EntriesDecided
<1> QED BY <1>6, <1>7, <1>8, <1>9, <1>10, <1>11, <1>12

LEMMA StutterEntries ==
  ASSUME EntriesInv, LayoutInv, UNCHANGED vars
  PROVE  EntriesInv'
<1>1. /\ UNCHANGED <<indexVars, supplied, written, partitions, ignored>>
      /\ pc' = pc /\ endOfSamples' = endOfSamples /\ indexStatus' = indexStatus
  BY DEF vars, fileVars, indexVars
<1>2. CASE indexStatus = "ok"
  <2>1. config' = config /\ requireUpdates' = requireUpdates
    BY <1>1 DEF indexVars
  <2>2. Required' = Required /\ IsCBE' = IsCBE
    BY <2>1, SameConfig DEF Required
  <2>3. NothingRequiredInv'
    BY <1>1, <1>2, <2>2 DEF EntriesInv, NothingRequiredInv
  <2> QED BY <1>1, <1>2, <2>3, EntriesDecided
<1>3. CASE indexStatus # "ok"
  BY <1>1, <1>3 DEF EntriesInv
<1> QED BY <1>2, <1>3

(* The entries that are never completed are left in the index.             *)
LEMMA IgnoreEntriesEntries ==
  ASSUME LayoutInv, EntriesInv, IgnoreEntries
  PROVE  EntriesInv'
<1>1. /\ pc = "completing" /\ indexStatus = "ok" /\ pc' = "loop" /\ endOfSamples' = endOfSamples
      /\ ignored' = ignored \cup UNION Range(requireUpdates)
      /\ requireUpdates' = [e \in Element |-> IF e \in Element THEN {} ELSE requireUpdates[e]]
      /\ UNCHANGED <<config, cache, elementSize, firstSegment, segments, flushed, duration,
                     indexStatus, supplied, written, partitions>>
  BY DEF IgnoreEntries, IgnoreRequiredUpdates
<1>2. /\ Element' = Element /\ Elements' = Elements /\ CBEElement' = CBEElement
      /\ VBEElement' = VBEElement /\ IsCBE' = IsCBE
  BY <1>1, SameConfig
<1>3. /\ QueueInv /\ CachedInv /\ (~IsCBE => SegmentsInv) /\ SteadyInv /\ NothingRequiredInv
      /\ FileEntries(partitions, ignored) /\ config \in Configs /\ IsFile(partitions)
  BY <1>1, Known DEF EntriesInv, FileTypeInv
<1>4. requireUpdates \in [Element -> SUBSET Nat]
  BY <1>3 DEF CachedInv
<1>5. \A e \in Element : requireUpdates'[e] = {}
  BY <1>1
<1>6. ignored' = ignored \cup Required
  BY <1>1, <1>4, Zenon DEF Required, Range
<1>7. Required' = {}
  BY <1>2, <1>5 DEF Required
<1>8. OpenAt' = OpenAt /\ ignored \subseteq ignored'
  BY <1>6, <1>7 DEF OpenAt
<1>9. QueueInv'
  BY <1>1, <1>2, <1>3 DEF QueueInv
<1>10. CachedInv'
  <2>1. requireUpdates' \in [Element -> SUBSET Nat]
    BY <1>1, <1>5
  <2>2. VBEElement \subseteq Element /\ CBEElement \subseteq Element
    BY <1>3, ConfigFacts DEF VBEElement
  <2> QED BY <1>1, <1>2, <1>3, <1>5, <1>8, <2>1, <2>2 DEF CachedInv
<1>11. ~IsCBE' => SegmentsInv'
  <2> SUFFICES ASSUME ~IsCBE PROVE SegmentsInv'
    BY <1>2
  <2>1. Right(flushed, ignored')
    BY <1>3, <1>8, MoreOpen DEF SegmentsInv
  <2> QED BY <1>1, <1>3, <1>8, <2>1 DEF SegmentsInv
<1>12. SteadyInv'
  BY <1>1, <1>2, <1>3 DEF SteadyInv, CreatesDeltas
<1>13. NothingRequiredInv'
  <2>1. IsCBE => ignored' = {}
    BY <1>3, <1>6, ConstantRequired DEF NothingRequiredInv
  <2>2. endOfSamples
    BY <1>1, Known DEF ProgressInv
  <2> QED BY <1>1, <1>2, <1>7, <2>1, <2>2 DEF NothingRequiredInv
<1>14. FileEntries(partitions', ignored')
  BY <1>1, <1>3, <1>8, EntriesStay
<1> QED BY <1>1, <1>9, <1>10, <1>11, <1>12, <1>13, <1>14 DEF EntriesInv

(* Nor are those that are given up at the start of a GOP.                  *)
LEMMA GiveUpPreviousGOPEntries ==
  ASSUME LayoutInv, EntriesInv, GiveUpPreviousGOP
  PROVE  EntriesInv'
<1>1. /\ pc = "track" /\ indexStatus = "ok" /\ pc' = pc /\ endOfSamples' = endOfSamples
      /\ track \in VBEElement /\ ignored' = ignored \cup requireUpdates[track]
      /\ requireUpdates' = [e \in Element |-> IF e \in {track} THEN {} ELSE requireUpdates[e]]
      /\ UNCHANGED <<config, cache, elementSize, firstSegment, segments, flushed, duration,
                     indexStatus, supplied, written, partitions>>
  BY DEF GiveUpPreviousGOP, GivesUp, IgnoreRequiredUpdates
<1>2. /\ Element' = Element /\ Elements' = Elements /\ CBEElement' = CBEElement
      /\ VBEElement' = VBEElement /\ IsCBE' = IsCBE
  BY <1>1, SameConfig
<1>3. /\ QueueInv /\ CachedInv /\ (~IsCBE => SegmentsInv) /\ SteadyInv /\ NothingRequiredInv
      /\ FileEntries(partitions, ignored) /\ config \in Configs /\ IsFile(partitions)
  BY <1>1, Known DEF EntriesInv, FileTypeInv
<1>4. requireUpdates \in [Element -> SUBSET Nat]
  BY <1>3 DEF CachedInv
<1>5. \A e \in Element : requireUpdates'[e] = IF e = track THEN {} ELSE requireUpdates[e]
  BY <1>1
<1>6. track \in Element /\ ~IsCBE /\ VBEElement \subseteq Element /\ CBEElement \subseteq Element
  BY <1>1, <1>3, ConfigFacts DEF VBEElement
<1>7. Required = requireUpdates[track] \cup Required' /\ Required' \subseteq Required
  BY <1>2, <1>5, <1>6 DEF Required
<1>8. OpenAt' = OpenAt /\ ignored \subseteq ignored'
  BY <1>1, <1>7 DEF OpenAt
<1>9. QueueInv'
  BY <1>1, <1>2, <1>3 DEF QueueInv
<1>10. CachedInv'
  <2>1. \A e \in Element : requireUpdates'[e] \subseteq requireUpdates[e]
    BY <1>5
  <2>2. requireUpdates' \in [Element -> SUBSET Nat]
    BY <1>1, <1>4, <2>1
  <2>3. \A e \in CBEElement : requireUpdates'[e] = {}
    BY <1>3, <1>6, <2>1 DEF CachedInv
  <2>4. ASSUME NEW e \in VBEElement, NEW p \in requireUpdates'[e]
        PROVE  /\ p < supplied[e]
               /\ p < duration => \E i \in 1 .. Len(segments) : HoldsPosition(i, p)
    <3>1. p \in requireUpdates[e]
      BY <1>6, <2>1
    <3> QED BY <1>3, <3>1 DEF CachedInv
  <2>5. \A i \in 1 .. Len(segments) : \A p : HoldsPosition(i, p)' = HoldsPosition(i, p)
    BY <1>1 DEF HoldsPosition
  <2> QED BY <1>1, <1>2, <1>3, <1>8, <2>2, <2>3, <2>4, <2>5 DEF CachedInv
<1>11. ~IsCBE' => SegmentsInv'
  <2> SUFFICES ASSUME ~IsCBE PROVE SegmentsInv'
    BY <1>2
  <2>1. Right(flushed, ignored')
    BY <1>3, <1>8, MoreOpen DEF SegmentsInv
  <2> QED BY <1>1, <1>3, <1>8, <2>1 DEF SegmentsInv
<1>12. SteadyInv'
  BY <1>1, <1>2, <1>3 DEF SteadyInv, CreatesDeltas
<1>13. NothingRequiredInv'
  BY <1>1, <1>2, <1>3, <1>6, <1>7 DEF NothingRequiredInv
<1>14. FileEntries(partitions', ignored')
  BY <1>1, <1>3, <1>8, EntriesStay
<1> QED BY <1>1, <1>9, <1>10, <1>11, <1>12, <1>13, <1>14 DEF EntriesInv
-----------------------------------------------------------------------------
(* A track writes a frame, or completes an entry.                          *)

LEMMA ShownEntry ==
  ASSUME NEW x \in [temporal : Int, key : Nat]
  PROVE  /\ \A c : Shown(CacheEntry(x, c)) = x /\ CacheEntry(x, c).canStart = c
         /\ \A o, ss : Shown(SegmentEntry(x, o, ss)) = x
  BY DEF Shown, CacheEntry, SegmentEntry

LEMMA FinalType ==
  ASSUME config \in Configs, ~IsCBE, NEW p \in 0 .. (config.frames - 1)
  PROVE  Final[p] \in [temporal : Int, key : Nat]
<1>1. config.cbe # Range(config.elements)
  BY DEF IsCBE, CBEElement, Element, Elements
<1> QED BY <1>1, FileAssumption

LEMMA QueueConstants ==
  MaxPackages \in Nat /\ MaxCacheEntries \in Nat /\ MaxPackages <= MaxCacheEntries
  BY FileAssumption, IndexTableAssumption

(* The index takes the entry of a frame for which the queue has room: the  *)
(* cache is not full then, and the edit unit has not been indexed.         *)
LEMMA EntryTaken ==
  ASSUME LayoutInv, EntriesInv, indexStatus = "ok", track \in VBEElement,
         NEW shown, NEW canStart, NEW require,
         AddIndexEntry(track, supplied[track], shown, canStart, require)
  PROVE  /\ cache' = [cache EXCEPT
                        ![track] = CacheWith(track, supplied[track], CacheEntry(shown, canStart))]
         /\ requireUpdates' = [requireUpdates EXCEPT
                        ![track] = IF require THEN @ \cup {supplied[track]} ELSE @]
         /\ UNCHANGED <<config, elementSize, firstSegment, segments, flushed, duration, indexStatus>>
<1>1. /\ config \in Configs /\ track \in Element /\ written \in Nat /\ duration \in Nat
      /\ supplied[track] \in Nat /\ QueueInv
  BY Known DEF FileTypeInv, EntriesInv
<1>2. PICK n \in Nat : n = supplied[track]
  BY <1>1
<1>3. ~IsCBE
  BY <1>1, ConfigFacts
<1>4. n >= duration
  BY <1>1, <1>2, Known DEF ProgressInv, Supplied, Element, Elements
<1>5. DOMAIN cache[track] = written .. (n - 1)
  BY <1>2, Known DEF WaitingEntriesInv, Waits, VBEElement, Element, Elements, CBEElement
<1>6. n <= written + MaxPackages
  BY <1>1, <1>2 DEF QueueInv
<1>7. ~(Cardinality(DOMAIN cache[track]) > MaxCacheEntries)
  <2>1. Cardinality(written .. (n - 1)) = IF written > n - 1 THEN 0 ELSE (n - 1) - written + 1
    <3>1. written \in Int /\ n - 1 \in Int
      BY <1>1
    <3> QED BY <3>1, FS_Interval
  <2>2. PICK c : c = Cardinality(written .. (n - 1))
    OBVIOUS
  <2>3. c <= MaxPackages /\ c \in Nat
    BY <1>1, <1>6, <2>1, <2>2, QueueConstants
  <2> QED BY <1>5, <2>2, <2>3, QueueConstants
<1> QED BY <1>2, <1>3, <1>4, <1>7, <1>1 DEF AddIndexEntry

(* What follows for the cache when the frame's entry is right or required. *)
LEMMA EntryCached ==
  ASSUME LayoutInv, EntriesInv, indexStatus = "ok", track \in VBEElement,
         NEW complete \in BOOLEAN, NEW canStart,
         AddIndexEntry(track, supplied[track],
           IF complete THEN Final[supplied[track]] ELSE IncompleteEntry(supplied[track], DefaultKey),
           canStart, ~complete),
         supplied[track] < config.frames,
         supplied' = [supplied EXCEPT ![track] = @ + 1], ignored' = ignored
  PROVE  CachedInv' /\ OpenAt \subseteq OpenAt'
<1>1. PICK n, entry :
        /\ n = supplied[track]
        /\ entry = CacheEntry(IF complete THEN Final[n] ELSE IncompleteEntry(n, DefaultKey),
                              canStart)
  OBVIOUS
<1>2. /\ cache' = [cache EXCEPT ![track] = CacheWith(track, n, entry)]
      /\ requireUpdates' = [requireUpdates EXCEPT ![track] = IF ~complete THEN @ \cup {n} ELSE @]
      /\ UNCHANGED <<config, elementSize, firstSegment, segments, flushed, duration, indexStatus>>
  BY <1>1, EntryTaken
<1>3. /\ config \in Configs /\ track \in Element /\ track \notin CBEElement
      /\ supplied \in [Element -> 0 .. config.frames] /\ duration \in Nat
      /\ n \in Nat /\ n < config.frames /\ config.frames \in Nat
      /\ CachedInv /\ requireUpdates \in [Element -> SUBSET Nat] /\ DOMAIN cache = Element
      /\ CBEElement \subseteq Element
  BY <1>1, Known, ConfigFacts
     DEF FileTypeInv, EntriesInv, CachedInv, VBEElement, WaitingEntriesInv, Waits, Element, Elements
<1>4. /\ Element' = Element /\ CBEElement' = CBEElement /\ VBEElement' = VBEElement
      /\ IsCBE' = IsCBE /\ ~IsCBE
  BY <1>2, <1>3, SameConfig, ConfigFacts
<1>5. n >= duration
  BY <1>1, <1>3, Known DEF ProgressInv, Supplied, Element, Elements
<1>6. complete => Shown(entry) = Final[n]
  <2>1. Final[n] \in [temporal : Int, key : Nat]
    BY <1>3, <1>4, FinalType
  <2> QED BY <1>1, <2>1, ShownEntry
<1>7. /\ requireUpdates' \in [Element -> SUBSET Nat]
      /\ requireUpdates'[track] = IF complete THEN requireUpdates[track]
                                              ELSE requireUpdates[track] \cup {n}
      /\ \A e \in Element : e # track => requireUpdates'[e] = requireUpdates[e]
  BY <1>2, <1>3
<1>8. /\ supplied'[track] = n + 1
      /\ \A e \in Element : e # track => supplied'[e] = supplied[e]
  BY <1>1, <1>3
<1>9. /\ cache'[track] = CacheWith(track, n, entry)
      /\ \A e \in Element : e # track => cache'[e] = cache[e]
  BY <1>2, <1>3
<1>10. OpenAt \subseteq OpenAt' /\ (~complete => n \in OpenAt')
  <2>1. \A e \in Element : requireUpdates[e] \subseteq requireUpdates'[e]
    BY <1>7
  <2>2. Required \subseteq Required'
    BY <1>4, <2>1 DEF Required
  <2>3. ~complete => n \in requireUpdates'[track]
    BY <1>7
  <2> QED BY <1>3, <1>4, <2>2, <2>3 DEF OpenAt, Required
<1>11. ASSUME NEW e \in CBEElement
       PROVE  requireUpdates'[e] = {} /\ DOMAIN cache'[e] = {}
  <2>1. e \in Element /\ e # track
    BY <1>3, <1>11
  <2>2. requireUpdates[e] = {} /\ DOMAIN cache[e] = {}
    BY <1>3, <1>4 DEF CachedInv
  <2> QED BY <1>7, <1>9, <2>1, <2>2
<1>12. ASSUME NEW e \in VBEElement, NEW p \in DOMAIN cache'[e], p \notin OpenAt'
       PROVE  Shown(cache'[e][p]) = Final[p]
  <2>1. p \notin OpenAt
    BY <1>10, <1>12
  <2>2. CASE e = track /\ p = n
    <3>1. complete
      BY <1>10, <1>12, <2>2
    <3>2. cache'[e][p] = entry
      BY <1>9, <1>12, <2>2 DEF CacheWith
    <3> QED BY <1>6, <2>2, <3>1, <3>2
  <2>3. CASE ~(e = track /\ p = n)
    <3>1. p \in DOMAIN cache[e] /\ cache'[e][p] = cache[e][p]
      <4>1. CASE e = track
        BY <1>9, <1>12, <2>3, <4>1 DEF CacheWith
      <4>2. CASE e # track
        BY <1>9, <1>12, <4>2 DEF VBEElement
      <4> QED BY <4>1, <4>2
    <3> QED BY <1>3, <2>1, <3>1 DEF CachedInv
  <2> QED BY <2>2, <2>3
<1>13. ASSUME NEW e \in VBEElement, NEW p \in requireUpdates'[e]
       PROVE  /\ p < supplied'[e]
              /\ p < duration' => \E i \in 1 .. Len(segments') : HoldsPosition(i, p)'
  <2>1. e \in Element /\ supplied[e] \in Nat /\ requireUpdates'[e] \subseteq Nat
    BY <1>3, <1>7 DEF VBEElement
  <2>2. CASE p \in requireUpdates[e]
    <3>1. p < supplied[e] /\ (p < duration => \E i \in 1 .. Len(segments) : HoldsPosition(i, p))
      BY <1>3, <2>2 DEF CachedInv
    <3>2. supplied[e] <= supplied'[e] /\ supplied'[e] \in Nat /\ p \in Nat
      BY <1>1, <1>3, <1>8, <2>1
    <3>3. segments' = segments /\ duration' = duration
      BY <1>2
    <3> QED BY <2>1, <3>1, <3>2, <3>3 DEF HoldsPosition
  <2>3. CASE p \notin requireUpdates[e]
    <3>1. e = track /\ p = n
      BY <1>7, <2>1, <2>3
    <3> QED BY <1>2, <1>3, <1>5, <1>8, <3>1
  <2> QED BY <2>2, <2>3
<1> QED BY <1>4, <1>7, <1>10, <1>11, <1>12, <1>13 DEF CachedInv

LEMMA WriteFrameEntries ==
  ASSUME LayoutInv, EntriesInv, NEW complete \in BOOLEAN, WriteFrame(complete)
  PROVE  EntriesInv'
<1>1. /\ pc = "track" /\ indexStatus = "ok"
      /\ UNCHANGED <<written, partitions, endOfSamples, ignored, track>>
  BY DEF WriteFrame
<1>2. /\ config \in Configs /\ track \in Element /\ written \in Nat /\ duration \in Nat
      /\ supplied \in [Element -> 0 .. config.frames] /\ config.frames \in Nat
      /\ supplied[track] < config.frames /\ ~endOfSamples
      /\ CBEElement \subseteq Element
  BY <1>1, Known, ConfigFacts DEF FileTypeInv, ProgressInv
<1>3. /\ QueueInv /\ CachedInv /\ (~IsCBE => SegmentsInv) /\ SteadyInv /\ NothingRequiredInv
      /\ FileEntries(partitions, ignored)
  BY <1>1 DEF EntriesInv
<1>4. FileEntries(partitions', ignored')
  BY <1>1, <1>3
<1>5. CASE NoRoom(track)
  <2>1. pc' = "failed" /\ indexStatus' = "failed"
    BY <1>5 DEF WriteFrame, IndexFails
  <2> QED BY <1>4, <2>1 DEF EntriesInv
<1>6. CASE ~NoRoom(track)
  <2>1. /\ supplied' = [supplied EXCEPT ![track] = @ + 1] /\ pc' = "loop"
        /\ IF track \in VBEElement
             THEN AddIndexEntry(track, supplied[track],
                    IF complete THEN Final[supplied[track]]
                                ELSE IncompleteEntry(supplied[track], DefaultKey),
                    supplied[track] \in GOPStart, ~complete)
             ELSE UNCHANGED indexVars
    BY <1>6 DEF WriteFrame
  <2>2. /\ UNCHANGED <<config, elementSize, firstSegment, segments, flushed, duration, indexStatus>>
        /\ CachedInv' /\ OpenAt \subseteq OpenAt'
    <3>1. CASE track \in VBEElement
      BY <1>1, <1>2, <2>1, <3>1, EntryTaken, EntryCached
    <3>2. CASE track \notin VBEElement
      <4>1. /\ UNCHANGED <<config, elementSize, firstSegment, segments, flushed, duration,
                           indexStatus, cache, requireUpdates>>
        BY <2>1, <3>2 DEF indexVars
      <4>2. /\ Element' = Element /\ CBEElement' = CBEElement /\ VBEElement' = VBEElement
            /\ IsCBE' = IsCBE
        BY <4>1, SameConfig
      <4>3. OpenAt' = OpenAt
        BY <1>1, <4>1, <4>2 DEF OpenAt, Required
      <4>4. \A e \in VBEElement : supplied'[e] = supplied[e]
        BY <1>2, <2>1, <3>2 DEF VBEElement
      <4>5. CachedInv'
        BY <1>3, <4>1, <4>2, <4>3, <4>4 DEF CachedInv, HoldsPosition
      <4> QED BY <4>1, <4>3, <4>5
    <3> QED BY <3>1, <3>2
  <2>3. /\ Element' = Element /\ Elements' = Elements /\ CBEElement' = CBEElement
        /\ IsCBE' = IsCBE
    BY <2>2, SameConfig
  <2>4. QueueInv'
    <3> SUFFICES ASSUME NEW e \in Element PROVE supplied'[e] <= written + MaxPackages
      BY <1>1, <2>3 DEF QueueInv
    <3>1. supplied[e] \in Nat /\ supplied[e] <= written + MaxPackages
      BY <1>2, <1>3 DEF QueueInv
    <3>2. CASE e # track
      BY <1>2, <2>1, <3>1, <3>2
    <3>3. CASE e = track
      <4>1. supplied'[e] = supplied[e] + 1
        BY <1>2, <2>1, <3>3
      <4>2. CASE supplied[e] - written < MaxPackages
        BY <1>2, <3>1, <4>1, <4>2, QueueConstants
      <4>3. CASE ~(supplied[e] - written < MaxPackages)
        <5>1. PICK d \in Element : ~(supplied[d] <= supplied[e])
          BY <1>2, <1>6, <3>1, <3>3, <4>3, QueueConstants DEF NoRoom
        <5>2. supplied[d] \in Nat /\ supplied[d] <= written + MaxPackages
          BY <1>2, <1>3 DEF QueueInv
        <5> QED BY <1>2, <3>1, <4>1, <5>1, <5>2, QueueConstants
      <4> QED BY <4>2, <4>3
    <3> QED BY <3>2, <3>3
  <2>5. ~IsCBE' => SegmentsInv'
    <3> SUFFICES ASSUME ~IsCBE PROVE SegmentsInv'
      BY <2>3
    <3>1. Right(segments, OpenAt')
      BY <1>3, <2>2, MoreOpen DEF SegmentsInv
    <3> QED BY <1>1, <1>3, <2>2, <3>1 DEF SegmentsInv
  <2>6. SteadyInv'
    BY <1>3, <2>2, <2>3 DEF SteadyInv, CreatesDeltas
  <2>7. NothingRequiredInv'
    BY <1>1, <1>2, <1>3, <2>1, <2>3 DEF NothingRequiredInv
  <2> QED BY <1>1, <1>4, <2>2, <2>4, <2>5, <2>6, <2>7 DEF EntriesInv
<1> QED BY <1>5, <1>6

(* There is no more than one element with entries.                         *)
LEMMA OneVariable ==
  ASSUME config \in Configs, NEW a \in VBEElement, NEW b \in VBEElement
  PROVE  a = b
<1>1. /\ config.elements \in Seq(Range(config.elements))
      /\ Cardinality(Range(config.elements) \ config.cbe) <= 1
  BY IndexTableAssumption, FileAssumption
<1>2. PICK s, T : s = config.elements /\ T = Range(s)
  OBVIOUS
<1>3. s \in [1 .. Len(s) -> T] /\ Len(s) \in Nat /\ T = Range(s) /\ DOMAIN s = 1 .. Len(s)
  BY <1>1, <1>2, LenProperties
<1>4. s \in Surjection(1 .. Len(s), T)
  BY <1>3 DEF Surjection, Range
<1>5. IsFiniteSet(1 .. Len(s))
  BY <1>3, FS_Interval
<1>6. IsFiniteSet(T)
  BY <1>4, <1>5, FS_Surjection
<1>7. VBEElement = T \ config.cbe /\ IsFiniteSet(VBEElement)
  <2>1. VBEElement = T \ config.cbe
    BY <1>2 DEF VBEElement, Element, Elements, CBEElement
  <2> QED BY <1>6, <2>1, FS_Subset
<1>8. {a, b} \subseteq VBEElement /\ Cardinality(VBEElement) <= 1
  BY <1>1, <1>2, <1>7
<1>9. IsFiniteSet({a, b}) /\ Cardinality({a, b}) <= Cardinality(VBEElement)
  BY <1>7, <1>8, FS_Subset
<1>10. Cardinality({a, b}) \in Nat /\ Cardinality(VBEElement) \in Nat
  BY <1>7, <1>9, FS_CardinalityType
<1>11. SUFFICES ASSUME a # b PROVE FALSE
  OBVIOUS
<1>12. IsFiniteSet({a}) /\ Cardinality({a}) = 1
  BY FS_Singleton
<1>13. Cardinality({a} \cup {b}) = 1 + 1
  BY <1>11, <1>12, FS_AddElement
<1>14. {a} \cup {b} = {a, b}
  OBVIOUS
<1> QED BY <1>8, <1>9, <1>10, <1>13, <1>14

LEMMA HeldOnce ==
  ASSUME NEW list, IsTable(list), Disjoint(list), NEW p \in Nat,
         NEW i \in 1 .. Len(list), list[i].start <= p, p < list[i].start + list[i].duration,
         NEW j \in 1 .. Len(list), list[j].start <= p, p < list[j].start + list[j].duration
  PROVE  i = j
<1>1. IsSegment(list[i]) /\ IsSegment(list[j])
  BY DEF IsTable
<1>2. PICK a \in Nat, b \in Nat, c \in Nat, d \in Nat :
        a = list[i].start /\ b = list[i].duration /\ c = list[j].start /\ d = list[j].duration
  BY <1>1 DEF IsSegment
<1>3. a <= p /\ p < a + b /\ c <= p /\ p < c + d
  BY <1>2
<1>4. (i < j => a + b <= c) /\ (j < i => c + d <= a)
  BY <1>2 DEF Disjoint
<1> QED BY <1>3, <1>4

(* The entry of p is completed in a list; p is required no longer.         *)
LEMMA CompletedRight ==
  ASSUME NEW list, IsTable(list), Disjoint(list),
         \A j \in 1 .. Len(list) : Len(list[j].entries) = list[j].duration,
         NEW open, Right(list, open), NEW p \in Nat, NEW less, \A q : q # p /\ q \notin less => q \notin open,
         NEW i \in 1 .. Len(list), NEW k \in 1 .. Len(list[i].entries), p = list[i].start + k - 1,
         NEW x, Shown(x) = Final[p], NEW new, new = CompletedList(list, i, k, x)
  PROVE  Right(new, less)
<1>1. /\ IsTable(new) /\ SamePlaces(list, new)
      /\ \A j \in 1 .. Len(list) : Len(new[j].entries) = Len(list[j].entries)
      /\ \A j \in 1 .. Len(list) : \A n \in 1 .. Len(list[j].entries) :
           new[j].entries[n] = IF j = i /\ n = k THEN x ELSE list[j].entries[n]
  <2>1. /\ IsTable(list) /\ i \in 1 .. Len(list) /\ k \in 1 .. Len(list[i].entries)
        /\ new = CompletedList(list, i, k, x)
    OBVIOUS
  <2>2. /\ IsTable(new) /\ SamePlaces(list, new)
        /\ \A j \in 1 .. Len(list) : Len(new[j].entries) = Len(list[j].entries)
    BY ONLY <2>1, SegmentCompleted
  <2>3. \A j \in 1 .. Len(list) : \A n \in 1 .. Len(list[j].entries) :
          new[j].entries[n] = IF j = i /\ n = k THEN x ELSE list[j].entries[n]
    BY ONLY <2>1, SegmentCompleted
  <2> QED BY <2>2, <2>3
<1>2. SUFFICES ASSUME NEW j \in 1 .. Len(list), NEW n \in 1 .. Len(list[j].entries),
                      NEW q, q = list[j].start + n - 1, q \notin less
               PROVE  Shown(new[j].entries[n]) = Final[q]
  <2>1. PICK there : there = list
    OBVIOUS
  <2>2. /\ Len(new) = Len(there)
        /\ \A j \in 1 .. Len(there) : /\ new[j].start = there[j].start
                                     /\ Len(new[j].entries) = Len(there[j].entries)
    BY <1>1, <2>1 DEF SamePlaces
  <2>3. \A j \in 1 .. Len(there) : \A n \in 1 .. Len(there[j].entries) :
          there[j].start + n - 1 \notin less => Shown(new[j].entries[n]) = Final[there[j].start + n - 1]
    BY <2>1
  <2>4. ASSUME NEW j \in 1 .. Len(new), NEW n \in 1 .. Len(new[j].entries),
               new[j].start + n - 1 \notin less
        PROVE  Shown(new[j].entries[n]) = Final[new[j].start + n - 1]
    <3>1. j \in 1 .. Len(there) /\ new[j].start = there[j].start
      BY ONLY <2>2, <2>4
    <3>2. n \in 1 .. Len(there[j].entries)
      BY ONLY <2>2, <2>4, <3>1
    <3> QED BY ONLY <2>3, <2>4, <3>1, <3>2
  <2> QED BY ONLY <2>4 DEF Right
<1>3. IsSegment(list[j]) /\ IsSegment(list[i])
  BY DEF IsTable
<1>4. PICK s \in Nat, d \in Nat, a \in Nat, b \in Nat :
        s = list[j].start /\ d = list[j].duration /\ a = list[i].start /\ b = list[i].duration
  BY <1>3 DEF IsSegment
<1>5. q = s + n - 1 /\ n \in 1 .. d /\ p = a + k - 1 /\ k \in 1 .. b
  <2>1. Len(list[j].entries) = d /\ Len(list[i].entries) = b
    BY <1>4
  <2> QED BY <1>2, <1>4, <2>1
<1>6. CASE j = i /\ n = k
  <2>1. q = p
    BY <1>4, <1>5, <1>6
  <2> QED BY <1>1, <1>6, <2>1
<1>7. CASE ~(j = i /\ n = k)
  <2>1. q # p
    <3> SUFFICES ASSUME q = p PROVE FALSE
      OBVIOUS
    <3>1. s <= p /\ p < s + d /\ a <= p /\ p < a + b
      BY <1>5
    <3>2. j = i
      BY <1>4, <3>1, HeldOnce
    <3>3. s = a
      BY <1>4, <3>2
    <3> QED BY <1>5, <1>7, <3>2, <3>3
  <2>2. q \notin open
    BY <1>2, <2>1
  <2>3. Shown(list[j].entries[n]) = Final[q]
    BY <1>2, <2>2 DEF Right
  <2> QED BY <1>1, <1>7, <2>3
<1> QED BY <1>6, <1>7

LEMMA CompletedCached ==
  ASSUME LayoutInv, EntriesInv, indexStatus = "ok", track \in VBEElement,
         NEW p \in requireUpdates[track],
         config' = config, duration' = duration, ignored' = ignored, supplied' = supplied,
         requireUpdates' = [requireUpdates EXCEPT ![track] = StillRequired(track, p)],
         \A e \in Element : DOMAIN cache'[e] = DOMAIN cache[e],
         \A e \in Element : \A q \in DOMAIN cache[e] :
           IF e = track /\ q = p THEN Shown(cache'[e][q]) = Final[q]
                                 ELSE cache'[e][q] = cache[e][q],
         SamePlaces(segments, segments')
  PROVE  CachedInv' /\ \A q : q # p /\ q \notin OpenAt' => q \notin OpenAt
<1>1. /\ CachedInv /\ requireUpdates \in [Element -> SUBSET Nat] /\ config \in Configs
      /\ track \in Element /\ CBEElement \subseteq Element /\ track \notin CBEElement
  BY Known, ConfigFacts DEF EntriesInv, CachedInv, VBEElement
<1>2. /\ Element' = Element /\ CBEElement' = CBEElement /\ VBEElement' = VBEElement
      /\ IsCBE' = IsCBE
  BY SameConfig
<1>3. /\ requireUpdates' \in [Element -> SUBSET Nat]
      /\ requireUpdates'[track] = requireUpdates[track] \ {p}
      /\ \A e \in Element : e # track => requireUpdates'[e] = requireUpdates[e]
  BY <1>1 DEF StillRequired
<1>4. \A q : q # p /\ q \notin OpenAt' => q \notin OpenAt
  <2> SUFFICES ASSUME NEW q, q # p, q \notin OpenAt' PROVE q \notin OpenAt
    OBVIOUS
  <2>1. q \notin ignored /\ \A e \in Element : q \notin requireUpdates'[e]
    BY <1>2 DEF OpenAt, Required
  <2>2. \A e \in Element : q \notin requireUpdates[e]
    BY <2>1, <1>3
  <2> QED BY <2>1, <2>2 DEF OpenAt, Required
<1>5. ASSUME NEW e \in CBEElement
      PROVE  requireUpdates'[e] = {} /\ (~IsCBE => DOMAIN cache'[e] = {})
  <2>1. e \in Element /\ e # track
    BY <1>1, <1>5
  <2> QED BY <1>1, <1>3, <2>1 DEF CachedInv
<1>6. ASSUME NEW e \in VBEElement, NEW q \in DOMAIN cache'[e], q \notin OpenAt'
      PROVE  Shown(cache'[e][q]) = Final[q]
  <2>1. e = track /\ q \in DOMAIN cache[e]
    BY <1>1, <1>6, OneVariable DEF VBEElement
  <2>2. CASE q = p
    BY <1>1, <2>1, <2>2
  <2>3. CASE q # p
    <3>1. q \notin OpenAt
      BY <1>4, <1>6, <2>3
    <3>2. cache'[e][q] = cache[e][q]
      BY <1>1, <2>1, <2>3
    <3> QED BY <1>1, <2>1, <3>1, <3>2 DEF CachedInv
  <2> QED BY <2>2, <2>3
<1>7. ASSUME NEW e \in VBEElement, NEW q \in requireUpdates'[e]
      PROVE  /\ q < supplied'[e]
             /\ q < duration' => \E i \in 1 .. Len(segments') : HoldsPosition(i, q)'
  <2>1. q \in requireUpdates[e]
    BY <1>3 DEF VBEElement
  <2>2. q < supplied[e] /\ (q < duration => \E i \in 1 .. Len(segments) : HoldsPosition(i, q))
    BY <1>1, <2>1 DEF CachedInv
  <2>3. \A i \in 1 .. Len(segments) : HoldsPosition(i, q) => HoldsPosition(i, q)'
    BY DEF HoldsPosition, SamePlaces
  <2>4. Len(segments') = Len(segments)
    BY DEF SamePlaces
  <2> QED BY <2>2, <2>3, <2>4
<1>8. CachedInv'
  BY ONLY <1>2, <1>3, <1>5, <1>6, <1>7 DEF CachedInv
<1> QED BY <1>4, <1>8
(* Only the positions that a list has entries for matter.                  *)
LEMMA RightBefore ==
  ASSUME NEW list, IsTable(list), NEW n \in Nat,
         \A i \in 1 .. Len(list) : /\ Len(list[i].entries) = list[i].duration
                                   /\ list[i].start + list[i].duration <= n,
         NEW open, Right(list, open), NEW less, \A q \in Nat : q < n /\ q \notin less => q \notin open
  PROVE  Right(list, less) /\ Inside(list, 0 .. (n - 1))
<1>1. ASSUME NEW i \in 1 .. Len(list), NEW k \in 1 .. Len(list[i].entries),
             NEW q, q = list[i].start + k - 1
      PROVE  q \in 0 .. (n - 1) /\ (q \notin less => Shown(list[i].entries[k]) = Final[q])
  <2>1. IsSegment(list[i])
    BY DEF IsTable
  <2>2. PICK s \in Nat, d \in Nat : s = list[i].start /\ d = list[i].duration
    BY <2>1 DEF IsSegment
  <2>3. k \in 1 .. d /\ q = s + k - 1 /\ s + d <= n
    <3>1. Len(list[i].entries) = d /\ s + d <= n
      BY <2>2
    <3>2. k \in 1 .. d
      BY <3>1
    <3>3. q = s + k - 1
      BY <1>1, <2>2
    <3> QED BY <3>1, <3>2, <3>3
  <2>4. q \in Nat /\ q < n /\ q \in 0 .. (n - 1)
    BY <2>3
  <2>5. q \notin less => q \notin open
    BY <2>4
  <2> QED BY <1>1, <2>4, <2>5 DEF Right
<1> QED BY <1>1 DEF Right, Inside

LEMMA VariableFacts ==
  ASSUME LayoutInv, WholeInv, indexStatus = "ok", ~IsCBE
  PROVE  /\ VariableTableInv /\ IsTable(segments) /\ IsTable(flushed)
         /\ Len(segments) \in Nat /\ DOMAIN segments = 1 .. Len(segments)
         /\ \A i \in 1 .. Len(segments) : Len(segments[i].entries) = segments[i].duration
         /\ duration = written /\ duration \in Nat
<1>1. VariableTableInv
  BY DEF WholeInv
<1>2. IsTable(segments)
  BY <1>1 DEF VariableTableInv
<1>3. duration = written /\ duration \in Nat
  BY Known DEF ProgressInv, FileTypeInv
<1> QED BY <1>1, <1>2, <1>3, TableLen DEF VariableTableInv

(* What the picture's track does completes the entry, also where it only   *)
(* has the temporal offset to give: it has given the key before.           *)
LEMMA CompletesPicture ==
  ASSUME LayoutInv, WholeInv, EntriesInv, KeysInv,
         NEW p \in 0 .. (config.frames - 1), CompleteEntry(p)
  PROVE  UpdateIndexEntry(track, p, Final[p])
<1>1. /\ indexStatus = "ok" /\ p \in requireUpdates[track] /\ CompletePictureEntry(track, p)
  BY DEF CompleteEntry
<1>2. CASE ~config.mpeg2
  BY <1>1, <1>2 DEF CompletePictureEntry
<1>3. CASE config.mpeg2
  <2>1. config \in Configs /\ track \in Element /\ CachedInv /\ p \in Nat
    BY <1>1, Known DEF FileTypeInv, EntriesInv
  <2>2. track \in VBEElement /\ ~IsCBE
    <3>1. track \notin CBEElement
      BY <1>1, <2>1 DEF CachedInv
    <3> QED BY <2>1, <3>1, ConfigFacts DEF VBEElement
  <2>3. /\ IsTable(segments) /\ DOMAIN segments = 1 .. Len(segments)
        /\ \A i \in 1 .. Len(segments) : Len(segments[i].entries) = segments[i].duration
        /\ duration = written /\ duration \in Nat
    BY <1>1, <2>2, VariableFacts
  <2>4. KeysKnown(segments) /\ \A q \in DOMAIN cache[track] : cache[track][q].key = Final[q].key
    BY <1>1, <1>3, <2>2 DEF KeysInv
  <2>5. p < supplied[track] /\ (p < duration => \E i \in 1 .. Len(segments) : HoldsPosition(i, p))
    BY <1>1, <2>1, <2>2 DEF CachedInv
  <2>6. DOMAIN cache[track] = duration .. (supplied[track] - 1) /\ supplied[track] \in Nat
    BY <1>1, <2>1, <2>2, <2>3, Known
       DEF FileTypeInv, WaitingEntriesInv, Waits, VBEElement, Element, Elements, CBEElement
  <2>7. p >= duration => cache[track][p].key = Final[p].key
    BY <2>1, <2>3, <2>4, <2>5, <2>6
  <2>8. ~(p >= duration) => \E i \in DOMAIN segments : HoldsPosition(i, p)
    BY <2>1, <2>3, <2>5
  <2>9. \A i \in DOMAIN segments : HoldsPosition(i, p) =>
          segments[i].entries[p - segments[i].start + 1].key = Final[p].key
    BY <2>1, <2>3, <2>4, KnownKey
  <2>10. UpdateTemporalOffset(track, p, Final[p].temporal)
    BY <1>1, <1>3 DEF CompletePictureEntry
  <2>11. Final[p] = [temporal |-> Final[p].temporal, key |-> Final[p].key]
    BY <2>1, <2>2, FinalType
  <2> QED BY ONLY <2>7, <2>8, <2>9, <2>10, <2>11, OffsetCompletes
<1> QED BY <1>2, <1>3

(* The keys of a list with a completed entry are known.                    *)
LEMMA CompletedKeys ==
  ASSUME NEW list, IsTable(list), KeysKnown(list),
         NEW i \in 1 .. Len(list), NEW k \in 1 .. Len(list[i].entries),
         NEW x, x.key = Final[list[i].start + k - 1].key, NEW new, new = CompletedList(list, i, k, x)
  PROVE  KeysKnown(new)
<1>1. /\ SamePlaces(list, new)
      /\ \A j \in 1 .. Len(list) : Len(new[j].entries) = Len(list[j].entries)
      /\ \A j \in 1 .. Len(list) : \A n \in 1 .. Len(list[j].entries) :
           new[j].entries[n] = IF j = i /\ n = k THEN x ELSE list[j].entries[n]
  <2>1. /\ IsTable(list) /\ i \in 1 .. Len(list) /\ k \in 1 .. Len(list[i].entries)
        /\ new = CompletedList(list, i, k, x)
    OBVIOUS
  <2>2. /\ SamePlaces(list, new)
        /\ \A j \in 1 .. Len(list) : Len(new[j].entries) = Len(list[j].entries)
    BY ONLY <2>1, SegmentCompleted
  <2>3. \A j \in 1 .. Len(list) : \A n \in 1 .. Len(list[j].entries) :
          new[j].entries[n] = IF j = i /\ n = k THEN x ELSE list[j].entries[n]
    BY ONLY <2>1, SegmentCompleted
  <2> QED BY <2>2, <2>3
<1>2. ASSUME NEW j \in 1 .. Len(list), NEW n \in 1 .. Len(list[j].entries)
      PROVE  new[j].entries[n].key = Final[list[j].start + n - 1].key
  BY <1>1 DEF KeysKnown
<1>3. ASSUME NEW j \in 1 .. Len(new), NEW n \in 1 .. Len(new[j].entries)
      PROVE  new[j].entries[n].key = Final[new[j].start + n - 1].key
  <2>1. j \in 1 .. Len(list) /\ new[j].start = list[j].start
    BY <1>1, <1>3 DEF SamePlaces
  <2>2. n \in 1 .. Len(list[j].entries)
    BY <1>1, <1>3, <2>1
  <2> QED BY ONLY <1>2, <2>1, <2>2
<1> QED BY ONLY <1>3 DEF KeysKnown

LEMMA CompleteEntryEntries ==
  ASSUME LayoutInv, WholeInv, EntriesInv, KeysInv,
         NEW p \in 0 .. (config.frames - 1), CompleteEntry(p)
  PROVE  EntriesInv' /\ KeysInv'
<1>1. /\ pc \in {"track", "completing"} /\ indexStatus = "ok" /\ p \in requireUpdates[track]
      /\ UpdateIndexEntry(track, p, Final[p])
      /\ UNCHANGED <<supplied, written, partitions, track, endOfSamples, ignored, pc>>
  BY CompletesPicture DEF CompleteEntry, fileVars
<1>2. /\ config \in Configs /\ track \in Element /\ CachedInv /\ QueueInv /\ SteadyInv
      /\ NothingRequiredInv /\ (~IsCBE => SegmentsInv) /\ FileEntries(partitions, ignored)
      /\ p \in Nat
  BY <1>1, Known DEF FileTypeInv, EntriesInv
<1>3. track \in VBEElement /\ ~IsCBE /\ DOMAIN cache = Element
  <2>1. track \notin CBEElement
    BY <1>1, <1>2 DEF CachedInv
  <2>2. track \in VBEElement /\ ~IsCBE
    BY <1>2, <2>1, ConfigFacts DEF VBEElement
  <2> QED BY <1>1, <2>2, Known DEF WaitingEntriesInv, Waits, Element, Elements
<1>4. /\ IsTable(segments) /\ DOMAIN segments = 1 .. Len(segments) /\ SegmentsInv
      /\ \A i \in 1 .. Len(segments) : Len(segments[i].entries) = segments[i].duration
      /\ duration = written /\ duration \in Nat
  BY <1>1, <1>2, <1>3, VariableFacts
<1>5. p < supplied[track] /\ (p < duration => \E i \in 1 .. Len(segments) : HoldsPosition(i, p))
  BY <1>1, <1>2, <1>3 DEF CachedInv
<1>6. DOMAIN cache[track] = duration .. (supplied[track] - 1) /\ supplied[track] \in Nat
  BY <1>1, <1>2, <1>3, <1>4, Known
     DEF FileTypeInv, WaitingEntriesInv, Waits, VBEElement, Element, Elements, CBEElement
<1>7. Final[p] \in [temporal : Int, key : Nat]
  BY <1>2, <1>3, FinalType
<1>8. ~(IsCBE \/ p < 0 \/ (p >= duration /\ p \notin DOMAIN cache[track]))
  BY <1>3, <1>4, <1>2, <1>5, <1>6
<1>9. \/ /\ p >= duration
         /\ cache' = [cache EXCEPT ![track][p] = CacheEntry(Final[p], @.canStart)]
         /\ segments' = segments
      \/ /\ p < duration /\ cache' = cache
         /\ \E i \in DOMAIN segments :
              /\ HoldsPosition(i, p)
              /\ segments' = [segments EXCEPT
                   ![i].entries[p - segments[i].start + 1] =
                     SegmentEntry(Final[p], @.offset, @.slices)]
  <2>1. p >= duration \/ p < duration
    BY <1>2, <1>4
  <2> QED BY <1>1, <1>4, <1>5, <1>8, <2>1, Zenon DEF UpdateIndexEntry
<1>10. /\ requireUpdates' = [requireUpdates EXCEPT ![track] = StillRequired(track, p)]
       /\ UNCHANGED <<config, elementSize, firstSegment, flushed, duration, indexStatus>>
  <2>1. p >= duration \/ p < duration
    BY <1>2, <1>4
  <2> QED BY <1>1, <1>4, <1>5, <1>8, <2>1, Zenon DEF UpdateIndexEntry
<1>11. /\ Element' = Element /\ Elements' = Elements /\ CBEElement' = CBEElement
       /\ VBEElement' = VBEElement /\ IsCBE' = IsCBE
  BY <1>10, SameConfig
<1>12. /\ SamePlaces(segments, segments') /\ CachedInv'
       /\ Right(segments', OpenAt') /\ KeysInv'
  <2>1. CASE /\ p >= duration
             /\ cache' = [cache EXCEPT ![track][p] = CacheEntry(Final[p], @.canStart)]
             /\ segments' = segments
    <3>1. PICK f, new : f = cache[track] /\ new = CacheEntry(Final[p], cache[track][p].canStart)
      OBVIOUS
    <3>2. Shown(new) = Final[p]
      BY <1>7, <3>1, ShownEntry
    <3>3. cache' = [cache EXCEPT ![track] = [f EXCEPT ![p] = new]]
      BY <2>1, <3>1, Zenon
    <3>4. /\ \A e \in Element : e # track => cache'[e] = cache[e]
          /\ cache'[track] = [f EXCEPT ![p] = new]
      BY <1>2, <1>3, <3>3
    <3>5. \A e \in Element : DOMAIN cache'[e] = DOMAIN cache[e]
      BY <3>1, <3>4
    <3>6. \A e \in Element : \A q \in DOMAIN cache[e] :
            IF e = track /\ q = p THEN Shown(cache'[e][q]) = Final[q]
                                  ELSE cache'[e][q] = cache[e][q]
      BY <3>1, <3>2, <3>4
    <3>7. SamePlaces(segments, segments')
      BY <2>1 DEF SamePlaces
    <3>8. CachedInv' /\ \A q : q # p /\ q \notin OpenAt' => q \notin OpenAt
      BY <1>1, <1>3, <1>10, <3>5, <3>6, <3>7, CompletedCached
    <3>9. Right(segments, OpenAt')
      <4>1. \A q \in Nat : q < duration /\ q \notin OpenAt' => q \notin OpenAt
        BY <1>2, <1>4, <2>1, <3>8
      <4>2. PICK less : less = OpenAt'
        OBVIOUS
      <4> QED BY <1>4, <4>1, <4>2, RightBefore DEF SegmentsInv
    <3>10. KeysInv'
      <4>1. ASSUME config.mpeg2, NEW e \in VBEElement, NEW q \in DOMAIN cache'[e]
            PROVE  cache'[e][q].key = Final[q].key
        <5>1. e = track /\ e \in Element
          BY <1>2, <1>3, OneVariable DEF VBEElement
        <5>2. q \in DOMAIN cache[e] /\ cache[e][q].key = Final[q].key
          BY <1>1, <1>3, <3>5, <4>1, <5>1 DEF KeysInv
        <5>3. CASE q = p
          <6>1. Shown(cache'[e][q]) = Final[q]
            BY <3>6, <5>1, <5>2, <5>3
          <6>2. Shown(cache'[e][q]).key = cache'[e][q].key
            BY DEF Shown
          <6> QED BY <6>1, <6>2
        <5>4. CASE q # p
          BY <3>6, <5>1, <5>2, <5>4
        <5> QED BY <5>3, <5>4
      <4>2. config.mpeg2 => KeysKnown(segments)
        BY <1>1, <1>3 DEF KeysInv
      <4> QED BY <1>10, <1>11, <2>1, <4>1, <4>2 DEF KeysInv
    <3> QED BY <2>1, <3>7, <3>8, <3>9, <3>10
  <2>2. CASE /\ p < duration /\ cache' = cache
             /\ \E i \in DOMAIN segments :
                  /\ HoldsPosition(i, p)
                  /\ segments' = [segments EXCEPT
                       ![i].entries[p - segments[i].start + 1] =
                         SegmentEntry(Final[p], @.offset, @.slices)]
    <3>1. PICK i \in 1 .. Len(segments) :
            /\ HoldsPosition(i, p)
            /\ segments' = [segments EXCEPT
                 ![i].entries[p - segments[i].start + 1] =
                   SegmentEntry(Final[p], @.offset, @.slices)]
      BY <1>4, <2>2
    <3>2. PICK list, k, x, new :
            /\ list = segments /\ k = p - segments[i].start + 1 /\ new = segments'
            /\ x = SegmentEntry(Final[p], segments[i].entries[k].offset, segments[i].entries[k].slices)
      OBVIOUS
    <3>3. new = CompletedList(list, i, k, x)
      BY <3>1, <3>2, Zenon DEF CompletedList
    <3>4. k \in 1 .. Len(list[i].entries) /\ p = list[i].start + k - 1
      <4>1. IsSegment(segments[i]) /\ Len(segments[i].entries) = segments[i].duration
        BY <1>4 DEF IsTable
      <4>2. PICK s \in Nat, d \in Nat : s = segments[i].start /\ d = segments[i].duration
        BY <4>1 DEF IsSegment
      <4>3. s <= p /\ p < s + d
        BY <3>1, <4>2 DEF HoldsPosition
      <4>4. k = p - s + 1 /\ Len(list[i].entries) = d /\ list[i].start = s
        BY <3>2, <4>1, <4>2
      <4> QED BY <1>2, <4>3, <4>4
    <3>5. Shown(x) = Final[p]
      BY <1>7, <3>2, ShownEntry
    <3>6. IsTable(list) /\ Disjoint(list) /\ i \in 1 .. Len(list) /\ Right(list, OpenAt)
          /\ \A j \in 1 .. Len(list) : Len(list[j].entries) = list[j].duration
      BY <1>4, <3>2 DEF SegmentsInv
    <3>7. SamePlaces(list, new)
      BY <3>3, <3>4, <3>6, SegmentCompleted
    <3>8. \A q \in DOMAIN cache[track] : q # p
      BY <1>2, <1>4, <1>6, <2>2
    <3>9. CachedInv' /\ \A q : q # p /\ q \notin OpenAt' => q \notin OpenAt
      BY <1>1, <1>3, <1>10, <2>2, <3>2, <3>7, <3>8, CompletedCached
    <3>10. PICK open, less : open = OpenAt /\ less = OpenAt'
      OBVIOUS
    <3>11. Right(new, less)
      <4>1. Right(list, open) /\ \A q : q # p /\ q \notin less => q \notin open
        BY <3>6, <3>9, <3>10
      <4> QED BY <1>2, <3>3, <3>4, <3>5, <3>6, <4>1, CompletedRight
    <3>12. KeysInv'
      <4>1. config.mpeg2 => KeysKnown(list)
            /\ \A e \in VBEElement : \A q \in DOMAIN cache[e] : cache[e][q].key = Final[q].key
        BY <1>1, <1>3, <3>2 DEF KeysInv
      <4>2. x.key = Final[list[i].start + k - 1].key
        <5>1. x.key = Shown(x).key
          BY DEF Shown
        <5> QED BY <3>4, <3>5, <5>1
      <4>3. config.mpeg2 => KeysKnown(new)
        BY ONLY <3>3, <3>4, <3>6, <4>1, <4>2, CompletedKeys
      <4> QED BY <1>10, <1>11, <2>2, <3>2, <4>1, <4>3 DEF KeysInv
    <3> QED BY <3>2, <3>7, <3>9, <3>10, <3>11, <3>12
  <2> QED BY <1>9, <2>1, <2>2
<1>13. QueueInv'
  BY <1>1, <1>2, <1>11 DEF QueueInv
<1>14. SegmentsInv'
  <2>1. Disjoint(segments')
    BY <1>4, <1>12 DEF SegmentsInv, Disjoint, SamePlaces
  <2>2. \A i \in 1 .. Len(segments') : segments'[i].start + segments'[i].duration <= duration
    BY <1>4, <1>12 DEF SegmentsInv, SamePlaces
  <2> QED BY <1>1, <1>4, <1>10, <1>12, <2>1, <2>2 DEF SegmentsInv
<1>15. SteadyInv'
  BY <1>2, <1>3, <1>10, <1>11 DEF SteadyInv, CreatesDeltas
<1>16. NothingRequiredInv'
  <2>1. Required' \subseteq Required
    <3>1. \A e \in Element : requireUpdates'[e] \subseteq requireUpdates[e]
      BY <1>2, <1>10 DEF CachedInv, StillRequired
    <3> QED BY <1>11, <3>1 DEF Required
  <2> QED BY <1>1, <1>2, <1>11, <2>1 DEF NothingRequiredInv
<1>17. FileEntries(partitions', ignored')
  BY <1>1, <1>2
<1> QED BY <1>1, <1>10, <1>12, <1>13, <1>14, <1>15, <1>16, <1>17 DEF EntriesInv
-----------------------------------------------------------------------------
(* An edit unit is indexed.                                                *)

(* The configurations whose frames are as they should be.                  *)
RegularFrames == \A c \in Configs : Regular(c)

LEMMA SteadySizes ==
  ASSUME RegularFrames, config \in Configs,
         NEW p \in FirstRegular(config) .. (config.frames - 1),
         NEW q \in FirstRegular(config) .. (config.frames - 1)
  PROVE  /\ \A i, j \in DOMAIN Elements :
              Elements[i] = Elements[j] /\ Elements[i] \in CBEElement =>
                config.sizes[p][i] = config.sizes[q][j]
         /\ IsCBE => config.sizes[p] = config.sizes[q]
<1>1. /\ \A r \in 0 .. (config.frames - 1) : config.sizes[r] \in [DOMAIN config.elements -> Nat]
      /\ \A i, j \in DOMAIN config.elements :
           config.elements[i] = config.elements[j] /\ config.elements[i] \in config.cbe =>
             config.sizes[p][i] = config.sizes[q][j]
  BY DEF RegularFrames, Regular
<1>2. p \in 0 .. (config.frames - 1) /\ q \in 0 .. (config.frames - 1)
  <2>1. FirstRegular(config) \in {0, 1} /\ config.frames \in Nat
    BY ConfigFacts DEF FirstRegular
  <2> QED BY <2>1
<1>3. config.sizes[p] \in [DOMAIN config.elements -> Nat]
      /\ config.sizes[q] \in [DOMAIN config.elements -> Nat]
  BY <1>1, <1>2
<1>4. ASSUME IsCBE PROVE config.sizes[p] = config.sizes[q]
  <2>1. \A i \in DOMAIN config.elements : config.elements[i] \in config.cbe
    BY <1>4 DEF IsCBE, Element, Elements, CBEElement, Range
  <2>2. \A i \in DOMAIN config.elements : config.sizes[p][i] = config.sizes[q][i]
    BY <1>1, <2>1
  <2> QED BY <1>3, <2>2
<1> QED BY <1>1, <1>4 DEF Elements, CBEElement

(* What the picture has cached for the edit unit; no other element has.    *)
LEMMA PicturesEntry ==
  ASSUME LayoutInv, WholeInv, EntriesInv, indexStatus = "ok", ~IsCBE,
         Supplied(config, supplied, duration + 1)
  PROVE  /\ \E c : /\ NonDefaultEntries \subseteq {Shown(c)} /\ EntryForUnit = Shown(c)
                   /\ duration \notin OpenAt => Shown(c) = Final[duration]
         /\ Cardinality(NonDefaultEntries) <= 1
         /\ KeysInv /\ config.mpeg2 => EntryForUnit.key = Final[duration].key
<1>1. /\ config \in Configs /\ CachedInv /\ WaitingEntriesInv /\ duration = written
      /\ duration \in Nat /\ VBEElement # {} /\ supplied \in [Element -> 0 .. config.frames]
      /\ config.frames \in Nat
  BY Known, ConfigFacts, VariableFacts DEF EntriesInv, FileTypeInv
<1>2. PICK v \in VBEElement : TRUE
  BY <1>1
<1>3. v \in Element
  BY DEF VBEElement
<1>4. duration \in DOMAIN cache[v]
  <2>1. supplied[v] \in Nat /\ supplied[v] >= duration + 1
    BY <1>1, <1>3 DEF Supplied, Element, Elements
  <2>2. DOMAIN cache[v] = duration .. (supplied[v] - 1)
    BY <1>1 DEF WaitingEntriesInv, Waits, VBEElement, Element, Elements, CBEElement
  <2> QED BY <1>1, <2>1, <2>2
<1>5. PICK c : c = cache[v][duration]
  OBVIOUS
<1>6. Shown(c) \in CachedEntries
  BY <1>3, <1>4, <1>5 DEF CachedEntries
<1>7. CachedEntries \subseteq {Shown(c)}
  <2> SUFFICES ASSUME NEW e \in Element, duration \in DOMAIN cache[e]
               PROVE  Shown(cache[e][duration]) = Shown(c)
    BY DEF CachedEntries
  <2>1. e \notin CBEElement
    BY <1>1 DEF CachedInv
  <2>2. e \in VBEElement
    BY <2>1 DEF VBEElement
  <2>3. e = v
    BY <1>1, <2>2, OneVariable
  <2> QED BY <1>5, <2>3
<1>8. NonDefaultEntries \subseteq {Shown(c)}
  BY <1>7 DEF NonDefaultEntries
<1>9. EntryForUnit = Shown(c)
  <2>1. CASE NonDefaultEntries = {}
    <3>1. IsDefault(Shown(c))
      BY <1>6, <2>1 DEF NonDefaultEntries
    <3>2. Shown(c) = [temporal |-> 0, key |-> DefaultKey]
      BY <3>1 DEF IsDefault, Shown
    <3> QED BY <2>1, <3>2 DEF EntryForUnit
  <2>2. CASE NonDefaultEntries # {}
    <3>1. NonDefaultEntries = {Shown(c)}
      BY <1>8, <2>2
    <3>2. EntryForUnit = CHOOSE entry \in {Shown(c)} : TRUE
      BY <3>1 DEF EntryForUnit
    <3> QED BY <3>2
  <2> QED BY <2>1, <2>2
<1>10. duration \notin OpenAt => Shown(c) = Final[duration]
  BY <1>1, <1>4, <1>5 DEF CachedInv
<1>11. Cardinality(NonDefaultEntries) <= 1
  <2>1. IsFiniteSet({Shown(c)}) /\ Cardinality({Shown(c)}) = 1
    BY FS_Singleton
  <2>2. Cardinality(NonDefaultEntries) <= Cardinality({Shown(c)})
    BY <1>8, <2>1, FS_Subset
  <2> QED BY <2>1, <2>2
<1>12. KeysInv /\ config.mpeg2 => EntryForUnit.key = Final[duration].key
  BY <1>4, <1>5, <1>9 DEF KeysInv, Shown
<1> QED BY <1>8, <1>9, <1>10, <1>11, <1>12

(* The table takes every edit unit.                                        *)
LEMMA UnitTaken ==
  ASSUME RegularFrames, LayoutInv, WholeInv, EntriesInv, indexStatus = "ok",
         Supplied(config, supplied, duration + 1), UpdateIndex(config.sizes[duration])
  PROVE  /\ duration \in 0 .. (config.frames - 1)
         /\ elementSize' = ElementSizes(config.sizes[duration])
         /\ IsCBE => UpdateCBEIndex(config.sizes[duration]) /\ UNCHANGED cache
         /\ ~IsCBE => UpdateVBEIndex(config.sizes[duration]) /\ UNCHANGED firstSegment
         /\ duration' = duration + 1
         /\ UNCHANGED <<config, requireUpdates, flushed, indexStatus>>
<1>1. /\ config \in Configs /\ duration \in Nat /\ config.frames \in Nat /\ SteadyInv
      /\ supplied \in [Element -> 0 .. config.frames] /\ Element # {}
  BY Known, ConfigFacts DEF EntriesInv, FileTypeInv
<1>2. duration \in 0 .. (config.frames - 1)
  <2>1. PICK e \in Element : supplied[e] \in 0 .. config.frames
    BY <1>1
  <2>2. supplied[e] >= duration + 1
    BY DEF Supplied, Element, Elements
  <2> QED BY <1>1, <2>1, <2>2
<1>3. duration \in duration .. (config.frames - 1)
  BY <1>1, <1>2
<1>4. ~SizeChanged(config.sizes[duration])
  BY <1>1, <1>3 DEF SizeChanged, SteadyInv
<1>5. IsCBE => ~CBEIndexFails(config.sizes[duration])
  BY <1>1, <1>3 DEF CBEIndexFails, CannotExtend, SteadyInv
<1>6. ~IsCBE => ~(Cardinality(NonDefaultEntries) > 1)
  <2> SUFFICES ASSUME ~IsCBE PROVE ~(Cardinality(NonDefaultEntries) > 1)
    OBVIOUS
  <2>1. PICK c : NonDefaultEntries \subseteq {Shown(c)}
    BY PicturesEntry
  <2>2. IsFiniteSet({Shown(c)})
    BY FS_Singleton
  <2>3. Cardinality(NonDefaultEntries) \in Nat
    BY <2>1, <2>2, FS_Subset, FS_CardinalityType
  <2> QED BY <2>3, PicturesEntry
<1> QED BY <1>2, <1>4, <1>5, <1>6 DEF UpdateIndex

(* The size of the main segment of a constant table after an edit unit.    *)
LEMMA MainSegmentSized ==
  ASSUME SizesInv, NEW sizes, UpdateCBEIndex(sizes), NEW size \in Nat, size = ContentPackageSize(sizes)
  PROVE  IF duration = 0 /\ firstSegment # <<>>
           THEN firstSegment' # <<>> /\ segments'[1].byteCount = segments[1].byteCount
           ELSE segments'[1].byteCount = size
<1>1. IsUnits(segments[1])
  BY DEF SizesInv, Sizes
<1>2. CASE duration = 0 /\ firstSegment # <<>>
  <2>1. \E s : firstSegment' = <<s>>
    BY <1>2 DEF UpdateCBEIndex
  <2>2. segments' = <<[segments[1] EXCEPT !.start = 1]>>
    BY <1>2 DEF UpdateCBEIndex
  <2>3. [segments[1] EXCEPT !.start = 1].byteCount = segments[1].byteCount
    BY <1>1, UnitsMoved
  <2>4. segments'[1] = [segments[1] EXCEPT !.start = 1]
    BY <2>2
  <2> QED BY <1>2, <2>1, <2>3, <2>4
<1>3. CASE ~(duration = 0 /\ firstSegment # <<>>)
  <2>1. PICK main, n, start :
          /\ main = WithDeltas(segments[1], sizes) /\ n = MergedUnits(sizes)
          /\ start = IF DropsFirst(sizes) THEN 0 ELSE Extend(main, size, n).start
    OBVIOUS
  <2>2. IsUnits(main) /\ n \in Nat
    BY <1>1, <2>1, UnitsWithDeltas DEF MergedUnits
  <2>3. IsUnits(Extend(main, size, n)) /\ Extend(main, size, n).byteCount = size
    BY <2>2, UnitsExtended
  <2>4. PICK t : t = Extend(main, size, n)
    OBVIOUS
  <2>5. [t EXCEPT !.start = start].byteCount = size
    BY <2>3, <2>4, UnitsMoved
  <2>6. segments' = <<[t EXCEPT !.start = start]>>
    BY <1>3, <2>1, <2>4 DEF UpdateCBEIndex
  <2>7. segments'[1] = [t EXCEPT !.start = start]
    BY <2>6
  <2> QED BY <1>3, <2>5, <2>7
<1> QED BY <1>2, <1>3

LEMMA UnitSteady ==
  ASSUME RegularFrames, LayoutInv, WholeInv, EntriesInv, indexStatus = "ok",
         Supplied(config, supplied, duration + 1), UpdateIndex(config.sizes[duration])
  PROVE  SteadyInv'
<1>1. PICK d, sizes : d = duration /\ sizes = config.sizes[duration]
  OBVIOUS
<1>2. /\ config \in Configs /\ d \in 0 .. (config.frames - 1) /\ config.frames \in Nat /\ SteadyInv
      /\ elementSize' = ElementSizes(sizes) /\ duration' = d + 1 /\ config' = config
      /\ IsCBE => UpdateCBEIndex(sizes) /\ SizesInv
      /\ ~IsCBE => firstSegment' = firstSegment
  BY <1>1, Known, ConfigFacts, UnitTaken DEF EntriesInv
<1>3. /\ Element' = Element /\ Elements' = Elements /\ CBEElement' = CBEElement /\ IsCBE' = IsCBE
  BY <1>2, SameConfig
<1>4. PICK size \in Nat : size = ContentPackageSize(sizes)
  BY <1>1, <1>2, SizeFacts
<1>5. IsCBE => IF d = 0 /\ firstSegment # <<>>
                 THEN firstSegment' # <<>> /\ segments'[1].byteCount = segments[1].byteCount
                 ELSE segments'[1].byteCount = size
  BY <1>1, <1>2, <1>4, MainSegmentSized
<1>6. d + 1 # 0 /\ (d + 1 = 1 => d = 0) /\ (d + 1 <= 1 => d = 0) /\ d \in Nat
  BY <1>2
<1>7. IsCBE /\ config.avci /\ d = 0 => firstSegment # <<>> /\ firstSegment' # <<>>
  <2>1. d = 0 => d <= 1
    OBVIOUS
  <2> QED BY <1>1, <1>2, <1>5, <2>1 DEF SteadyInv
<1>8. ~(d = 0 /\ firstSegment # <<>>) \/ ~IsCBE => d \in FirstRegular(config) .. (config.frames - 1)
  <2>1. FirstRegular(config) = 1 => IsCBE /\ config.avci
    BY DEF FirstRegular, IsCBE, CBEElement, Element, Elements
  <2>2. FirstRegular(config) \in {0, 1}
    BY DEF FirstRegular
  <2>3. ASSUME ~(d = 0 /\ firstSegment # <<>>) \/ ~IsCBE PROVE FirstRegular(config) = 0 \/ d # 0
    BY <1>7, <2>1, <2>2, <2>3
  <2> QED BY <1>2, <2>2, <2>3
<1>9. ASSUME NEW p \in (d + 1) .. (config.frames - 1), ~(d = 0 /\ firstSegment # <<>>) \/ ~IsCBE
      PROVE  /\ \A i, j \in DOMAIN Elements :
                  Elements[i] = Elements[j] /\ Elements[i] \in CBEElement =>
                    config.sizes[p][i] = sizes[j]
             /\ IsCBE => config.sizes[p] = sizes
  <2>1. d \in FirstRegular(config) .. (config.frames - 1)
    BY <1>8, <1>9
  <2>2. p \in FirstRegular(config) .. (config.frames - 1)
    <3>1. FirstRegular(config) \in {0, 1}
      BY DEF FirstRegular
    <3> QED BY <1>2, <2>1, <3>1
  <2> QED BY <1>1, <1>2, <2>1, <2>2, SteadySizes
<1>10. ASSUME ~CreatesDeltas', NEW p \in (d + 1) .. (config.frames - 1),
              NEW i \in DOMAIN Elements, Elements[i] \in CBEElement
       PROVE  elementSize'[Elements[i]] = config.sizes[p][i]
  <2>1. Elements[i] \in Element
    BY DEF Element, Range
  <2>2. p \in d .. (config.frames - 1)
    BY <1>2
  <2>3. CASE ~CreatesDeltas
    <3>1. elementSize'[Elements[i]] = elementSize[Elements[i]]
      BY <1>2, <2>1, <2>3 DEF ElementSizes
    <3> QED BY <1>1, <1>2, <1>10, <2>2, <2>3, <3>1 DEF SteadyInv
  <2>4. CASE CreatesDeltas
    <3>1. PICK j \in DOMAIN Elements :
            Elements[j] = Elements[i] /\ elementSize'[Elements[i]] = sizes[j]
      BY <1>2, <1>10, <2>1, <2>4 DEF ElementSizes
    <3>2. ~(d = 0 /\ firstSegment # <<>>) \/ ~IsCBE
      BY <1>2, <1>5, <1>6, <1>10 DEF CreatesDeltas
    <3> QED BY <1>9, <1>10, <3>1, <3>2
  <2> QED BY <2>3, <2>4
<1>11. ASSUME IsCBE, NEW p \in (d + 1) .. (config.frames - 1)
       PROVE  segments'[1].byteCount \in {0, ContentPackageSize(config.sizes[p])}
  <2>1. CASE d = 0 /\ firstSegment # <<>>
    <3>1. segments[1].byteCount = 0
      BY <1>1, <1>2, <1>11, <2>1 DEF SizesInv, Sizes, NonFirstSize
    <3> QED BY <1>5, <1>11, <2>1, <3>1
  <2>2. CASE ~(d = 0 /\ firstSegment # <<>>)
    <3>1. config.sizes[p] = sizes
      BY <1>9, <1>11, <2>2
    <3> QED BY <1>4, <1>5, <1>11, <2>2, <3>1
  <2> QED BY <2>1, <2>2
<1>12. ~IsCBE => firstSegment' = <<>>
  BY <1>2 DEF SteadyInv
<1>13. IsCBE /\ config.avci /\ duration' <= 1 => firstSegment' # <<>>
  BY <1>2, <1>6, <1>7
<1> QED BY <1>2, <1>3, <1>10, <1>11, <1>12, <1>13 DEF SteadyInv
(* new is the list old with the edit unit d at the end of its last segment,*)
(* the n-th, which may be a new one.                                       *)
Grown(old, new, n, d, open) ==
  /\ IsTable(old) /\ IsTable(new) /\ n \in Nat \ {0} /\ Len(new) = n
  /\ \A i \in 1 .. (n - 1) : i \in 1 .. Len(old) /\ new[i] = old[i]
  /\ new[n].duration > 0 /\ new[n].start + new[n].duration = d + 1
  /\ Len(new[n].entries) = new[n].duration
  /\ d \notin open => Shown(new[n].entries[new[n].duration]) = Final[d]
  /\ \/ Len(old) = n - 1 /\ new[n].start = d /\ new[n].duration = 1
     \/ /\ Len(old) = n /\ new[n].start = old[n].start /\ new[n].duration = old[n].duration + 1
        /\ \A k \in 1 .. old[n].duration : new[n].entries[k] = old[n].entries[k]

LEMMA UnitGrows ==
  ASSUME LayoutInv, WholeInv, EntriesInv, indexStatus = "ok", ~IsCBE,
         Supplied(config, supplied, duration + 1), NEW sizes, UpdateVBEIndex(sizes)
  PROVE  \E n : /\ Grown(segments, segments', n, duration, OpenAt)
                /\ segments'[n].entries[segments'[n].duration].key = EntryForUnit.key
<1>1. /\ IsTable(segments) /\ DOMAIN segments = 1 .. Len(segments) /\ Len(segments) \in Nat
      /\ duration \in Nat /\ VariableTableInv /\ (segments = <<>> <=> Len(segments) = 0)
      /\ \A i \in 1 .. Len(segments) : Len(segments[i].entries) = segments[i].duration
  BY VariableFacts, TableLen
<1>2. pc \notin Finished
  <2>1. pc \in Finished => pc \in Ending /\ ~HavePackages(1)
    BY Known DEF Finished, Ending, ProgressInv
  <2>2. HavePackages(1)
    BY VariableFacts, HaveSupplied
  <2> QED BY <2>1, <2>2
<1>3. PICK m \in 0 .. duration : Spans(segments, m, duration)
  BY <1>1, <1>2 DEF VariableTableInv
<1>4. \A o, ss : duration \notin OpenAt => Shown(SegmentEntry(EntryForUnit, o, ss)) = Final[duration]
  <2>1. PICK c : EntryForUnit = Shown(c) /\ (duration \notin OpenAt => Shown(c) = Final[duration])
    BY PicturesEntry
  <2>2. \A o, ss : Shown(SegmentEntry(Shown(c), o, ss)) = Shown(c)
    BY DEF Shown, SegmentEntry
  <2> QED BY <2>1, <2>2
<1>5. CASE RequireNewSegment
  <2>1. PICK z, s : z = NewSegment(duration) /\ s = AddToSegment(z, sizes)
    OBVIOUS
  <2>2. segments' = Append(segments, s)
    BY <1>5, <2>1 DEF UpdateVBEIndex
  <2>3. IsSegment(z) /\ z.start = duration /\ z.duration = 0 /\ Len(z.entries) = 0
    BY <1>1, <2>1, NewSegmentIs
  <2>4. /\ IsSegment(s) /\ s.start = z.start /\ s.duration = z.duration + 1
        /\ Len(s.entries) = Len(z.entries) + 1
        /\ \E o, ss : s.entries[Len(z.entries) + 1] = SegmentEntry(EntryForUnit, o, ss)
    <3>1. IsSegment(z) /\ s = AddToSegment(z, sizes)
      BY <2>1, <2>3
    <3> QED BY ONLY <3>1, AddedSegment
  <2>5. s.start = duration /\ s.duration = 1 /\ Len(s.entries) = 1
        /\ \E o, ss : s.entries[1] = SegmentEntry(EntryForUnit, o, ss)
    BY ONLY <2>3, <2>4
  <2>6. duration \notin OpenAt => Shown(s.entries[1]) = Final[duration]
    BY <1>4, <2>5
  <2>7. /\ IsTable(segments') /\ Len(segments') = Len(segments) + 1
        /\ \A i \in 1 .. Len(segments) : segments'[i] = segments[i]
        /\ segments'[Len(segments) + 1] = s
    BY <1>1, <2>2, <2>4, TableAppend
  <2>8. PICK n \in Nat \ {0} : n = Len(segments) + 1
    BY <1>1
  <2>9. n - 1 = Len(segments) /\ segments'[n] = s
    BY <1>1, <2>7, <2>8
  <2>10. Grown(segments, segments', n, duration, OpenAt)
    <3>1. /\ IsTable(segments) /\ IsTable(segments') /\ Len(segments') = n
          /\ \A i \in 1 .. (n - 1) : i \in 1 .. Len(segments) /\ segments'[i] = segments[i]
          /\ Len(segments) = n - 1
      BY ONLY <1>1, <2>7, <2>8, <2>9
    <3>2. 1 > 0
      OBVIOUS
    <3> QED BY ONLY <2>5, <2>6, <2>9, <3>1, <3>2, n \in Nat \ {0} DEF Grown
  <2>11. segments'[n].entries[segments'[n].duration].key = EntryForUnit.key
    BY <2>5, <2>9 DEF SegmentEntry
  <2> QED BY <2>10, <2>11
<1>6. CASE ~RequireNewSegment
  <2>1. segments # <<>>
    BY <1>6 DEF RequireNewSegment
  <2>2. PICK n \in 1 .. Len(segments) : n = Len(segments)
    <3>1. PICK l \in Nat : l = Len(segments) /\ l # 0
      BY <1>1, <2>1
    <3>2. l \in 1 .. l
      BY <3>1
    <3> QED BY <3>1, <3>2
  <2>3. PICK r, s : r = segments[n] /\ s = AddToSegment(r, sizes)
    OBVIOUS
  <2>4. segments' = [segments EXCEPT ![n] = s]
    BY <1>6, <2>2, <2>3 DEF UpdateVBEIndex
  <2>5. IsSegment(r) /\ Len(r.entries) = r.duration
    BY <1>1, <2>3 DEF IsTable
  <2>6. PICK a \in Nat, d \in Nat : a = r.start /\ d = r.duration
    BY <2>5 DEF IsSegment
  <2>7. /\ IsSegment(s) /\ s.start = a /\ s.duration = d + 1 /\ Len(s.entries) = d + 1
        /\ \A k \in 1 .. d : s.entries[k] = r.entries[k]
        /\ \E o, ss : s.entries[d + 1] = SegmentEntry(EntryForUnit, o, ss)
    <3>1. IsSegment(r) /\ s = AddToSegment(r, sizes)
      BY <2>3, <2>5
    <3>2. /\ IsSegment(s) /\ s.start = r.start /\ s.duration = r.duration + 1
          /\ Len(s.entries) = Len(r.entries) + 1
          /\ \A k \in 1 .. Len(r.entries) : s.entries[k] = r.entries[k]
          /\ \E o, ss : s.entries[Len(r.entries) + 1] = SegmentEntry(EntryForUnit, o, ss)
      BY ONLY <3>1, AddedSegment
    <3>3. Len(r.entries) = d /\ r.duration = d /\ r.start = a
      BY <2>5, <2>6
    <3> QED BY ONLY <3>2, <3>3
  <2>8. duration \notin OpenAt => Shown(s.entries[d + 1]) = Final[duration]
    BY <1>4, <2>7
  <2>9. /\ IsTable(segments') /\ Len(segments') = Len(segments)
        /\ \A i \in 1 .. Len(segments) : segments'[i] = IF i = n THEN s ELSE segments[i]
    <3>1. PICK list, out : list = segments /\ out = [list EXCEPT ![n] = s]
      OBVIOUS
    <3>2. /\ IsTable(out) /\ Len(out) = Len(list)
          /\ \A i \in 1 .. Len(list) : out[i] = IF i = n THEN s ELSE list[i]
      BY <1>1, <2>7, <3>1, TableExcept
    <3> QED BY <2>4, <3>1, <3>2
  <2>10. a + d = duration
    <3>1. segments[Len(segments)].start + segments[Len(segments)].duration = duration
      BY <1>1, <1>3, <2>1, SpansSome
    <3> QED BY <2>2, <2>3, <2>6, <3>1
  <2>11. n \in Nat \ {0} /\ \A i \in 1 .. (n - 1) : i \in 1 .. Len(segments) /\ i # n
    <3>1. PICK l \in Nat : l = Len(segments) /\ l = n
      BY <1>1, <2>2
    <3>2. n \in 1 .. l /\ l \in Nat
      BY <3>1
    <3>3. n \in Nat \ {0} /\ \A i \in 1 .. (n - 1) : i \in 1 .. l /\ i # n
      BY ONLY <3>2
    <3> QED BY <3>1, <3>3
  <2>12. segments'[n] = s /\ \A i \in 1 .. (n - 1) : segments'[i] = segments[i]
    BY <2>9, <2>11
  <2>13. d + 1 > 0 /\ a + (d + 1) = duration + 1
    BY <1>1, <2>10
  <2>14. Grown(segments, segments', n, duration, OpenAt)
    BY <1>1, <2>2, <2>3, <2>6, <2>7, <2>8, <2>9, <2>11, <2>12, <2>13 DEF Grown
  <2>15. segments'[n].entries[segments'[n].duration].key = EntryForUnit.key
    BY <2>7, <2>12 DEF SegmentEntry
  <2> QED BY <2>14, <2>15
<1> QED BY <1>5, <1>6

(* What holds of a list that has grown.                                    *)
LEMMA GrownList ==
  ASSUME NEW old, NEW new, NEW n, NEW d \in Nat, NEW open, Grown(old, new, n, d, open),
         Right(old, open), Disjoint(old),
         \A i \in 1 .. Len(old) : /\ Len(old[i].entries) = old[i].duration
                                  /\ old[i].start + old[i].duration <= d
  PROVE  /\ Right(new, open) /\ Disjoint(new)
         /\ \A i \in 1 .. Len(new) : new[i].start + new[i].duration <= d + 1
         /\ \A p \in Nat, i \in 1 .. Len(old) :
              old[i].start <= p /\ p < old[i].start + old[i].duration =>
                \E j \in 1 .. Len(new) : new[j].start <= p /\ p < new[j].start + new[j].duration
         /\ \E j \in 1 .. Len(new) : new[j].start <= d /\ d < new[j].start + new[j].duration
<1>1. /\ IsTable(old) /\ IsTable(new) /\ n \in Nat \ {0} /\ Len(new) = n
      /\ \A i \in 1 .. (n - 1) : i \in 1 .. Len(old) /\ new[i] = old[i]
      /\ new[n].duration > 0 /\ new[n].start + new[n].duration = d + 1
      /\ Len(new[n].entries) = new[n].duration
      /\ d \notin open => Shown(new[n].entries[new[n].duration]) = Final[d]
  BY DEF Grown
<1>2. n \in 1 .. n /\ \A i \in 1 .. n : i = n \/ i \in 1 .. (n - 1)
  BY <1>1
<1>3. PICK b \in Nat, c \in Nat : b = new[n].start /\ c = new[n].duration
  BY <1>1, <1>2 DEF IsTable, IsSegment
<1>4. c > 0 /\ b + c = d + 1 /\ Len(new[n].entries) = c
  BY <1>1, <1>3
<1>5. \A i \in 1 .. Len(old) : \E s \in Nat, l \in Nat :
        s = old[i].start /\ l = old[i].duration /\ s + l <= d
  BY <1>1 DEF IsTable, IsSegment
<1>6. \/ Len(old) = n - 1 /\ b = d /\ c = 1
      \/ /\ Len(old) = n /\ b = old[n].start /\ c = old[n].duration + 1
         /\ \A k \in 1 .. old[n].duration : new[n].entries[k] = old[n].entries[k]
  BY <1>3 DEF Grown
<1>7. Right(new, open)
  <2> SUFFICES ASSUME NEW i \in 1 .. n, NEW k \in 1 .. Len(new[i].entries),
                      NEW p, p = new[i].start + k - 1, p \notin open
               PROVE  Shown(new[i].entries[k]) = Final[p]
    BY <1>1 DEF Right
  <2>1. CASE i # n
    <3>1. new[i] = old[i] /\ i \in 1 .. Len(old)
      BY <1>1, <1>2, <2>1
    <3> QED BY <3>1 DEF Right
  <2>2. CASE i = n
    <3>1. k \in 1 .. c /\ p = b + k - 1
      BY <1>3, <1>4, <2>2
    <3>2. CASE k = c
      <4>1. p = d
        BY <1>4, <3>1, <3>2
      <4> QED BY <1>1, <1>3, <2>2, <3>2, <4>1
    <3>3. CASE k # c
      <4>1. /\ Len(old) = n /\ b = old[n].start /\ c = old[n].duration + 1
            /\ \A l \in 1 .. old[n].duration : new[n].entries[l] = old[n].entries[l]
        BY <1>6, <3>1, <3>3
      <4>2. n \in 1 .. Len(old)
        BY <1>2, <4>1
      <4>3. PICK l \in Nat : l = old[n].duration /\ Len(old[n].entries) = l
        BY <1>5, <4>2
      <4>4. k \in 1 .. l
        <5>1. c = l + 1 /\ k \in 1 .. c /\ k # c
          BY <3>1, <3>3, <4>1, <4>3
        <5> QED BY ONLY <5>1, l \in Nat
      <4>5. k \in 1 .. Len(old[n].entries) /\ p = old[n].start + k - 1
        BY <3>1, <4>1, <4>3, <4>4
      <4>6. Shown(old[n].entries[k]) = Final[old[n].start + k - 1]
        BY <4>2, <4>5 DEF Right
      <4> QED BY <2>2, <4>1, <4>3, <4>4, <4>5, <4>6
    <3> QED BY <3>2, <3>3
  <2> QED BY <2>1, <2>2
<1>8. ASSUME NEW i \in 1 .. n PROVE new[i].start + new[i].duration <= d + 1
  <2>1. CASE i = n
    BY <1>3, <1>4, <2>1
  <2>2. CASE i # n
    <3>1. new[i] = old[i] /\ i \in 1 .. Len(old)
      BY <1>1, <1>2, <2>2
    <3>2. PICK s \in Nat, l \in Nat : s = old[i].start /\ l = old[i].duration /\ s + l <= d
      BY <1>5, <3>1
    <3> QED BY <3>1, <3>2
  <2> QED BY <2>1, <2>2
<1>9. ASSUME NEW i \in 1 .. n, NEW j \in 1 .. n, i < j
      PROVE  new[i].start + new[i].duration <= new[j].start
  <2>1. i \in 1 .. (n - 1) /\ i \in 1 .. Len(old) /\ new[i] = old[i]
    <3>1. i \in 1 .. (n - 1)
      BY <1>1, <1>9
    <3> QED BY <1>1, <3>1
  <2>2. CASE j # n
    <3>1. new[j] = old[j] /\ j \in 1 .. Len(old)
      BY <1>1, <1>2, <2>2
    <3> QED BY <1>9, <2>1, <3>1 DEF Disjoint
  <2>3. CASE j = n /\ Len(old) = n - 1
    <3>1. b = d
      BY <1>1, <1>6, <2>3
    <3>2. PICK s \in Nat, l \in Nat : s = old[i].start /\ l = old[i].duration /\ s + l <= d
      BY <1>5, <2>1
    <3> QED BY <1>3, <2>1, <2>3, <3>1, <3>2
  <2>4. CASE j = n /\ Len(old) # n - 1
    <3>1. b = old[n].start /\ n \in 1 .. Len(old)
      BY <1>2, <1>6, <2>4
    <3>2. old[i].start + old[i].duration <= old[n].start
      BY <1>9, <2>1, <2>4, <3>1 DEF Disjoint
    <3> QED BY <1>3, <2>1, <2>4, <3>1, <3>2
  <2> QED BY <2>2, <2>3, <2>4
<1>10. ASSUME NEW p \in Nat, NEW i \in 1 .. Len(old),
              old[i].start <= p, p < old[i].start + old[i].duration
       PROVE  \E j \in 1 .. Len(new) : new[j].start <= p /\ p < new[j].start + new[j].duration
  <2>1. CASE i \in 1 .. (n - 1)
    <3>1. new[i] = old[i] /\ i \in 1 .. Len(new)
      BY <1>1, <2>1
    <3> QED BY <1>10, <3>1
  <2>2. CASE i \notin 1 .. (n - 1)
    <3>1. i = n /\ b = old[n].start /\ c = old[n].duration + 1
      BY <1>1, <1>6, <2>2
    <3>2. PICK l \in Nat : l = old[n].duration
      BY <1>5, <3>1
    <3>3. b <= p /\ p < b + l
      BY <1>10, <3>1, <3>2
    <3>4. p < b + c /\ c = l + 1
      BY <3>1, <3>2, <3>3
    <3> QED BY <1>1, <1>2, <1>3, <3>3, <3>4
  <2> QED BY <2>1, <2>2
<1>11. new[n].start <= d /\ d < new[n].start + new[n].duration
  BY <1>3, <1>4
<1>12. Disjoint(new)
  BY <1>1, <1>9 DEF Disjoint
<1> QED BY <1>1, <1>2, <1>7, <1>8, <1>10, <1>11, <1>12

(* Once it is indexed an edit unit is in the segments and not in the cache. *)
LEMMA UnitEntries ==
  ASSUME RegularFrames, LayoutInv, WholeInv, EntriesInv, indexStatus = "ok",
         Supplied(config, supplied, duration + 1), UpdateIndex(config.sizes[duration]),
         supplied' = supplied, ignored' = ignored
  PROVE  /\ config' = config /\ IsCBE' = IsCBE /\ Element' = Element
         /\ indexStatus' = "ok" /\ Required' = Required
         /\ CachedInv' /\ (~IsCBE => SegmentsInv') /\ SteadyInv'
<1>1. PICK d, sizes : d = duration /\ sizes = config.sizes[duration]
  OBVIOUS
<1>2. /\ config \in Configs /\ d \in Nat /\ CachedInv /\ (~IsCBE => SegmentsInv)
  BY <1>1, Known DEF EntriesInv, FileTypeInv
<1>3. /\ ~IsCBE => UpdateVBEIndex(sizes)
      /\ duration' = d + 1 /\ config' = config /\ requireUpdates' = requireUpdates
      /\ flushed' = flushed /\ indexStatus' = "ok"
  BY <1>1, UnitTaken
<1>4. /\ Element' = Element /\ Elements' = Elements /\ CBEElement' = CBEElement
      /\ VBEElement' = VBEElement /\ IsCBE' = IsCBE
  BY <1>3, SameConfig
<1>5. Required' = Required /\ OpenAt' = OpenAt
  BY <1>3, <1>4 DEF Required, OpenAt
<1>6. SteadyInv'
  BY UnitSteady
<1>7. CASE IsCBE
  <2>1. VBEElement = {}
    BY <1>2, <1>7, ConfigFacts
  <2>2. CachedInv'
    BY <1>2, <1>3, <1>4, <1>7, <2>1 DEF CachedInv
  <2> QED BY <1>3, <1>4, <1>5, <1>6, <1>7, <2>2
<1>8. CASE ~IsCBE
  <2>1. /\ VariableTableInv /\ SegmentsInv
        /\ \A i \in 1 .. Len(segments) : Len(segments[i].entries) = segments[i].duration
    BY <1>2, <1>8, VariableFacts
  <2>2. PICK n : Grown(segments, segments', n, duration, OpenAt)
    BY <1>3, <1>8, UnitGrows
  <2>3. PICK old, new, open : old = segments /\ new = segments' /\ open = OpenAt
    OBVIOUS
  <2>4. /\ Grown(old, new, n, d, open) /\ Right(old, open) /\ Disjoint(old)
        /\ \A i \in 1 .. Len(old) : /\ Len(old[i].entries) = old[i].duration
                                    /\ old[i].start + old[i].duration <= d
    BY <1>1, <2>1, <2>2, <2>3 DEF SegmentsInv
  <2>5. /\ Right(new, open) /\ Disjoint(new)
        /\ \A i \in 1 .. Len(new) : new[i].start + new[i].duration <= d + 1
        /\ \A p \in Nat, i \in 1 .. Len(old) :
             old[i].start <= p /\ p < old[i].start + old[i].duration =>
               \E j \in 1 .. Len(new) : new[j].start <= p /\ p < new[j].start + new[j].duration
        /\ \E j \in 1 .. Len(new) : new[j].start <= d /\ d < new[j].start + new[j].duration
    BY ONLY <1>2, <2>4, GrownList
  <2>6. SegmentsInv'
    <3>1. Inside(flushed', 0 .. (duration' - 1))
      <4>1. 0 .. (d - 1) \subseteq 0 .. (duration' - 1)
        BY <1>2, <1>3
      <4> QED BY <1>1, <1>3, <2>1, <4>1 DEF SegmentsInv, Inside
    <3>2. duration' > 0
      BY <1>2, <1>3
    <3> QED BY <1>3, <1>5, <2>1, <2>3, <2>5, <3>1, <3>2 DEF SegmentsInv
  <2>7. \A e \in Element : cache'[e] = [p \in DOMAIN cache[e] \ {d} |-> cache[e][p]]
    BY <1>1, <1>3, <1>8 DEF UpdateVBEIndex, NotTaken
  <2>8. \A e \in CBEElement : DOMAIN cache'[e] = {}
    <3>1. CBEElement \subseteq Element
      BY <1>2, ConfigFacts
    <3> QED BY <1>2, <1>8, <2>7, <3>1 DEF CachedInv
  <2>9. ASSUME NEW e \in VBEElement, NEW p \in DOMAIN cache'[e], p \notin OpenAt'
        PROVE  Shown(cache'[e][p]) = Final[p]
    <3>1. e \in Element
      BY DEF VBEElement
    <3>2. PICK f : f = cache[e]
      OBVIOUS
    <3>3. cache'[e] = [q \in DOMAIN f \ {d} |-> f[q]]
      BY <2>7, <3>1, <3>2
    <3>4. p \in DOMAIN f /\ cache'[e][p] = f[p]
      BY <2>9, <3>3
    <3>5. Shown(f[p]) = Final[p]
      BY <1>2, <1>5, <2>9, <3>2, <3>4 DEF CachedInv
    <3> QED BY <3>4, <3>5
  <2>10. ASSUME NEW e \in VBEElement, NEW p \in requireUpdates'[e]
         PROVE  /\ p < supplied'[e]
                /\ p < duration' => \E i \in 1 .. Len(segments') :
                     segments'[i].start <= p /\ p < segments'[i].start + segments'[i].duration
    <3>1. p \in requireUpdates[e] /\ p \in Nat
      BY <1>2, <1>3, <2>10 DEF CachedInv, VBEElement
    <3>2. p < supplied[e] /\ (p < d => \E i \in 1 .. Len(segments) : HoldsPosition(i, p))
      BY <1>1, <1>2, <3>1 DEF CachedInv
    <3>3. ASSUME p < d
          PROVE  \E j \in 1 .. Len(new) : new[j].start <= p /\ p < new[j].start + new[j].duration
      <4>1. PICK i \in 1 .. Len(old) : old[i].start <= p /\ p < old[i].start + old[i].duration
        BY <2>3, <3>2, <3>3 DEF HoldsPosition
      <4> QED BY <2>5, <3>1, <4>1
    <3>4. p < d + 1 => p < d \/ p = d
      BY <1>2, <3>1
    <3> QED BY <1>3, <2>3, <2>5, <3>2, <3>3, <3>4
  <2>11. CachedInv'
    BY <1>2, <1>3, <1>4, <1>8, <2>8, <2>9, <2>10 DEF CachedInv, HoldsPosition
  <2> QED BY <1>3, <1>4, <1>5, <1>6, <2>6, <2>11
<1> QED BY <1>7, <1>8

(* Both packages are indexed before any is written.                        *)
LEMMA PreIndexEntries ==
  ASSUME RegularFrames, LayoutInv, WholeInv, EntriesInv, PreIndex
  PROVE  EntriesInv'
<1>1. /\ pc = "preindex" /\ indexStatus = "ok" /\ duration < PreIndexed
      /\ UpdateIndex(config.sizes[duration])
      /\ UNCHANGED <<supplied, written, partitions, endOfSamples, ignored, pc>>
  BY DEF PreIndex, fileVars
<1>2. /\ written = 0 /\ HavePackages(1) /\ duration \in Nat /\ FileTypeInv
      /\ QueueInv /\ NothingRequiredInv /\ FileEntries(partitions, ignored)
  BY <1>1, Known DEF ProgressInv, FileTypeInv, Starting, EntriesInv
<1>3. Supplied(config, supplied, duration + 1)
  <2>1. CASE HavePackages(2)
    <3>1. Supplied(config, supplied, written + 2) /\ duration + 1 \in Nat /\ duration + 1 <= 2
          /\ written + 2 = 2
      BY <1>1, <1>2, <2>1, HaveSupplied DEF PreIndexed
    <3> QED BY <1>2, <3>1, FewerSupplied
  <2>2. CASE ~HavePackages(2)
    <3>1. Supplied(config, supplied, written + 1) /\ duration + 1 = 1 /\ written + 1 = 1
      BY <1>1, <1>2, <2>2, HaveSupplied DEF PreIndexed
    <3> QED BY <3>1
  <2> QED BY <2>1, <2>2
<1>4. /\ config' = config /\ IsCBE' = IsCBE /\ Element' = Element
      /\ indexStatus' = "ok" /\ Required' = Required
      /\ CachedInv' /\ (~IsCBE => SegmentsInv') /\ SteadyInv'
  BY <1>1, <1>3, UnitEntries
<1>5. QueueInv'
  BY <1>1, <1>2, <1>4 DEF QueueInv
<1>6. NothingRequiredInv'
  BY <1>1, <1>2, <1>4 DEF NothingRequiredInv
<1>7. FileEntries(partitions', ignored')
  BY <1>1, <1>2
<1> QED BY <1>4, <1>5, <1>6, <1>7 DEF EntriesInv

LEMMA WriteEssenceEntries ==
  ASSUME RegularFrames, LayoutInv, WholeInv, EntriesInv, WriteEssence
  PROVE  EntriesInv'
<1>1. /\ pc = "essence" /\ indexStatus = "ok" /\ IndexesUnit
      /\ UNCHANGED <<supplied, endOfSamples, ignored>>
  BY DEF WriteEssence, IndexesUnit
<1>2. /\ HavePackages(1) /\ duration \in Nat /\ written \in Nat /\ FileTypeInv
      /\ QueueInv /\ NothingRequiredInv /\ FileEntries(partitions, ignored)
      /\ CachedInv /\ (~IsCBE => SegmentsInv) /\ SteadyInv /\ written <= duration
      /\ IsFile(partitions)
  BY <1>1, Known DEF ProgressInv, FileTypeInv, Starting, EntriesInv
<1>3. /\ config' = config /\ IsCBE' = IsCBE /\ Element' = Element
      /\ indexStatus' = "ok" /\ Required' = Required
      /\ CachedInv' /\ (~IsCBE => SegmentsInv') /\ SteadyInv'
  <2>1. CASE IsIndexed
    <3>1. UNCHANGED indexVars
      BY <1>1, <2>1 DEF IndexesUnit
    <3>2. /\ config' = config /\ cache' = cache /\ requireUpdates' = requireUpdates
          /\ elementSize' = elementSize /\ firstSegment' = firstSegment /\ segments' = segments
          /\ flushed' = flushed /\ duration' = duration /\ indexStatus' = indexStatus
          /\ supplied' = supplied /\ ignored' = ignored
      BY <1>1, <3>1 DEF indexVars
    <3>3. /\ Element' = Element /\ Elements' = Elements /\ CBEElement' = CBEElement
          /\ VBEElement' = VBEElement /\ IsCBE' = IsCBE
      BY <3>2, SameConfig
    <3>4. Required' = Required /\ OpenAt' = OpenAt
      BY <3>2, <3>3 DEF Required, OpenAt
    <3>5. CachedInv'
      BY <1>2, <3>2, <3>3, <3>4 DEF CachedInv, HoldsPosition
    <3>6. ~IsCBE => SegmentsInv'
      BY <1>2, <3>2, <3>3, <3>4 DEF SegmentsInv
    <3>7. SteadyInv'
      BY <1>2, <3>2, <3>3 DEF SteadyInv, CreatesDeltas
    <3> QED BY <1>1, <3>2, <3>3, <3>4, <3>5, <3>6, <3>7
  <2>2. CASE ~IsIndexed
    <3>1. duration = written /\ UpdateIndex(config.sizes[duration])
      BY <1>1, <1>2, <2>2 DEF IsIndexed, IndexesUnit
    <3>2. Supplied(config, supplied, duration + 1)
      BY <1>2, <3>1, HaveSupplied
    <3> QED BY <1>1, <3>1, <3>2, UnitEntries
  <2> QED BY <2>1, <2>2
<1>4. /\ partitions' = [partitions EXCEPT ![Len(partitions)].essence = Append(@, written)]
      /\ written' = written + 1 /\ pc' = "loop"
  BY <1>3 DEF WriteEssence
<1>5. QueueInv'
  <2>1. ASSUME NEW e \in Element PROVE supplied[e] <= written + 1 + MaxPackages
    <3>1. supplied[e] \in 0 .. config.frames /\ config.frames \in Nat
      BY <1>2, ConfigFacts DEF FileTypeInv
    <3>2. supplied[e] \in Nat /\ MaxPackages \in Nat
      BY <3>1, QueueConstants
    <3>3. supplied[e] <= written + MaxPackages
      BY <1>2 DEF QueueInv
    <3> QED BY <1>2, <3>2, <3>3
  <2> QED BY <1>1, <1>3, <1>4, <2>1 DEF QueueInv
<1>6. NothingRequiredInv'
  BY <1>1, <1>2, <1>3, <1>4 DEF NothingRequiredInv
<1>7. FileEntries(partitions', ignored')
  <2>1. /\ Len(partitions') = Len(partitions)
        /\ \A i \in 1 .. Len(partitions) : partitions'[i].index = partitions[i].index
    BY <1>1, <1>3, <1>4, EssenceAppended
  <2>2. \A i \in 1 .. (Len(partitions) - 1) : partitions'[i].essence = partitions[i].essence
    <3>1. PICK n \in Nat : n = Len(partitions) /\ DOMAIN partitions = 1 .. n
      BY <1>2, FileLen
    <3>2. ASSUME NEW i \in 1 .. (Len(partitions) - 1) PROVE partitions'[i] = partitions[i]
      <4>1. i \in 1 .. (n - 1)
        BY <3>1
      <4>2. i \in 1 .. n /\ i # n
        BY <4>1
      <4>3. i \in DOMAIN partitions /\ i # Len(partitions)
        BY <3>1, <4>2
      <4> QED BY <1>4, <4>3
    <3> QED BY <3>2
  <2> QED BY <1>1, <1>2, <2>1, <2>2, EntriesStay
<1> QED BY <1>3, <1>5, <1>6, <1>7 DEF EntriesInv
-----------------------------------------------------------------------------
(* Segments are written to a partition.                                    *)

(* What has entries is not written while it may fail.                      *)
CanWrite == ~(duration = 0 \/ DurationFails)

LEMMA VariableCanWrite ==
  ASSUME LayoutInv, WholeInv, EntriesInv, indexStatus = "ok", ~IsCBE,
         HaveSegments \/ flushed # <<>>
  PROVE  CanWrite
<1>1. config \in Configs /\ SegmentsInv /\ duration \in Nat /\ IsTable(segments)
  BY Known, VariableFacts DEF FileTypeInv, EntriesInv
<1>2. InputDuration = NoDuration
  BY <1>1, ConfigFacts DEF SinglePass
<1>3. duration # 0
  <2>1. CASE flushed # <<>>
    BY <1>1, <2>1 DEF SegmentsInv
  <2>2. CASE HaveSegments
    <3>1. segments # <<>> /\ segments[1].duration > 0
      BY <2>2 DEF HaveSegments
    <3>2. 1 \in 1 .. Len(segments)
      <4>1. Len(segments) \in Nat /\ Len(segments) # 0
        BY <1>1, <3>1, TableLen
      <4> QED BY <4>1
    <3>3. IsSegment(segments[1])
      BY <1>1, <3>2 DEF IsTable
    <3>4. PICK s \in Nat, n \in Nat : s = segments[1].start /\ n = segments[1].duration
      BY <3>3 DEF IsSegment
    <3>5. s + n <= duration /\ n > 0
      BY <1>1, <3>1, <3>2, <3>4 DEF SegmentsInv
    <3> QED BY <3>4, <3>5
  <2> QED BY <2>1, <2>2
<1> QED BY <1>2, <1>3 DEF CanWrite, DurationFails

LEMMA ConstantCanWrite ==
  ASSUME LayoutInv, WholeInv, indexStatus = "ok", IsCBE, pc \in {"index", "footer"}, duration > 0
  PROVE  CanWrite
<1>1. duration \in Nat /\ ConstantTableInv
  BY Known DEF FileTypeInv, WholeInv
<1>2. InputDuration # NoDuration => duration = InputDuration
  BY <1>1 DEF ConstantTableInv, Ending, SinglePass
<1> QED BY <1>1, <1>2 DEF CanWrite, DurationFails

LEMMA EarlyCanWrite ==
  ASSUME RegularFrames, LayoutInv, indexStatus = "ok", pc = "preindex", duration >= PreIndexed
  PROVE  CanWrite
<1>1. /\ config \in Configs /\ duration \in Nat /\ written = 0 /\ IsCBE
      /\ duration = written \/ duration <= 2
      /\ Supplied(config, supplied, duration)
      /\ supplied \in [Element -> 0 .. config.frames] /\ Element # {} /\ config.frames \in Nat
      /\ InputDuration \in Nat \cup {NoDuration}
  BY Known, ConfigFacts DEF FileTypeInv, ProgressInv
<1>2. duration \in {1, 2}
  <2>1. PreIndexed \in {1, 2}
    BY DEF PreIndexed
  <2> QED BY <1>1, <2>1
<1>3. duration <= config.frames
  <2>1. PICK e \in Element : supplied[e] \in 0 .. config.frames
    BY <1>1
  <2>2. supplied[e] >= duration
    BY <1>1 DEF Supplied, Element, Elements
  <2> QED BY <1>1, <2>1, <2>2
<1>4. InputDuration = NoDuration \/ InputDuration >= 2 \/ config.frames <= InputDuration
  BY <1>1 DEF RegularFrames, Regular, InputDuration
<1>5. InputDuration # NoDuration => ~(InputDuration < duration)
  BY <1>1, <1>2, <1>3, <1>4
<1> QED BY <1>1, <1>2, <1>5 DEF CanWrite, DurationFails

(* What the table keeps when a partition is written.                       *)
TableKept ==
  /\ config' = config /\ indexStatus' = "ok" /\ Required' = Required
  /\ CachedInv' /\ (~IsCBE => SegmentsInv') /\ SteadyInv'

LEMMA UntouchedKept ==
  ASSUME LayoutInv, EntriesInv, indexStatus = "ok", UNCHANGED <<supplied, ignored>>,
         UNCHANGED <<config, cache, requireUpdates, elementSize, firstSegment, segments, flushed,
                     duration, indexStatus>>
  PROVE  TableKept
<1>1. CachedInv /\ (~IsCBE => SegmentsInv) /\ SteadyInv
  BY DEF EntriesInv
<1>2. /\ Element' = Element /\ Elements' = Elements /\ CBEElement' = CBEElement
      /\ VBEElement' = VBEElement /\ IsCBE' = IsCBE
  BY SameConfig
<1>3. Required' = Required /\ OpenAt' = OpenAt
  BY <1>2 DEF Required, OpenAt
<1>4. CachedInv'
  BY <1>1, <1>2, <1>3 DEF CachedInv, HoldsPosition
<1>5. ~IsCBE => SegmentsInv'
  BY <1>1, <1>2, <1>3 DEF SegmentsInv
<1>6. SteadyInv'
  BY <1>1, <1>2 DEF SteadyInv, CreatesDeltas
<1> QED BY <1>3, <1>4, <1>5, <1>6 DEF TableKept

LEMMA ConstantFlushed ==
  ASSUME LayoutInv, WholeInv, EntriesInv, indexStatus = "ok", IsCBE, CanWrite,
         UNCHANGED <<supplied, ignored>>, NEW isFooter \in BOOLEAN, NEW final \in BOOLEAN,
         WriteSegments(isFooter, final)
  PROVE  TableKept /\ IsTable(output') /\ NoEntries(output')
<1>1. ConstantTable /\ InputDuration \in Nat \cup {NoDuration}
  BY Known, ConfigFacts DEF WholeInv, ConstantTableInv
<1>2. /\ haveWritten' = TRUE /\ output' = CBESegments(final)
      /\ UNCHANGED <<config, cache, requireUpdates, elementSize, firstSegment, segments, flushed,
                     duration, indexStatus>>
  BY DEF CanWrite, WriteSegments
<1>3. TableKept
  BY <1>2, UntouchedKept
<1>4. ~IndexFails
  BY <1>2 DEF IndexFails
<1>5. IsTable(output') /\ NoEntries(output')
  BY <1>1, <1>4, ConstantFlush
<1> QED BY <1>3, <1>5

(* A variable table's segments are complete when they are written.         *)
LEMMA VariableFlushed ==
  ASSUME LayoutInv, WholeInv, EntriesInv, indexStatus = "ok", ~IsCBE, CanWrite,
         \A p \in Required : p >= written,
         UNCHANGED <<supplied, ignored>>, NEW isFooter \in BOOLEAN, NEW final \in BOOLEAN,
         WriteSegments(isFooter, final)
  PROVE  TableKept /\ Describes(output', 0 .. (written - 1), ignored)
<1>1. /\ config \in Configs /\ CachedInv /\ SegmentsInv /\ SteadyInv
      /\ IsTable(segments) /\ IsTable(flushed) /\ duration = written /\ duration \in Nat
      /\ \A i \in 1 .. Len(segments) : Len(segments[i].entries) = segments[i].duration
  BY Known, VariableFacts DEF FileTypeInv, EntriesInv
<1>2. /\ output' = VBESegments(IF Repeats(isFooter) THEN flushed \o segments ELSE segments)
      /\ flushed' = IF Keeps(isFooter) THEN flushed \o segments
                    ELSE IF Repeats(isFooter) THEN <<>> ELSE flushed
      /\ segments' = <<>>
      /\ UNCHANGED <<config, cache, requireUpdates, elementSize, firstSegment, duration,
                     indexStatus>>
  BY DEF CanWrite, WriteSegments
<1>3. /\ Element' = Element /\ Elements' = Elements /\ CBEElement' = CBEElement
      /\ VBEElement' = VBEElement /\ IsCBE' = IsCBE
  BY <1>2, SameConfig
<1>4. Required' = Required /\ OpenAt' = OpenAt
  BY <1>2, <1>3 DEF Required, OpenAt
<1>5. PICK new, old, less, units :
        new = segments /\ old = flushed /\ less = ignored /\ units = 0 .. (duration - 1)
  OBVIOUS
<1>6. Describes(new, units, less)
  <2>1. \A q \in Nat : q < duration /\ q \notin less => q \notin OpenAt
    BY <1>1, <1>5 DEF OpenAt
  <2>2. Right(new, less) /\ Inside(new, units)
    BY <1>1, <1>5, <2>1, RightBefore DEF SegmentsInv
  <2> QED BY <1>1, <1>5, <2>2 DEF Describes
<1>7. Describes(old, units, less)
  BY <1>1, <1>5 DEF SegmentsInv, Describes
<1>8. PICK all : all = old \o new
  OBVIOUS
<1>9. Describes(all, units, less)
  BY ONLY <1>6, <1>7, <1>8, JoinedDescribe
<1>10. PICK list, out : /\ list = (IF Repeats(isFooter) THEN all ELSE new)
                        /\ out = output'
  OBVIOUS
<1>11. Describes(list, units, less) /\ out = VBESegments(list)
  BY <1>2, <1>5, <1>6, <1>8, <1>9, <1>10
<1>12. IsTable(out) /\ SameEntries(list, out)
  BY ONLY <1>11, VariableWritten DEF Describes
<1>13. Describes(out, units, less)
  <2>1. Right(out, less)
    BY ONLY <1>11, <1>12, SameEntriesRight DEF Describes
  <2>2. Inside(out, units)
    BY ONLY <1>11, <1>12 DEF Describes, Inside, SameEntries
  <2> QED BY <1>12, <2>1, <2>2 DEF Describes
<1>14. Describes(flushed', units, less)
  <2>1. Describes(<<>>, units, less)
    BY EmptyTable, NothingDescribed
  <2> QED BY <1>2, <1>5, <1>7, <1>8, <1>9, <2>1
<1>15. CachedInv'
  <2>1. \A e \in VBEElement : \A p \in requireUpdates[e] : p \in Nat /\ p >= duration
    BY <1>1 DEF CachedInv, Required, VBEElement
  <2>2. ASSUME NEW e \in VBEElement, NEW p \in requireUpdates[e] PROVE ~(p < duration)
    BY <1>1, <2>1
  <2> QED BY <1>1, <1>2, <1>3, <1>4, <2>2 DEF CachedInv
<1>16. SegmentsInv'
  <2>1. Right(<<>>, OpenAt) /\ Len(<<>>) = 0
    BY EmptyTable
  <2>2. \A i \in 1 .. Len(<<>>) : FALSE
    BY <2>1
  <2>3. Disjoint(<<>>)
    BY <2>2 DEF Disjoint
  <2>4. duration > 0
    BY <1>1 DEF CanWrite
  <2> QED BY <1>2, <1>4, <1>5, <1>14, <2>1, <2>2, <2>3, <2>4 DEF SegmentsInv, Describes
<1>17. SteadyInv'
  BY <1>1, <1>2, <1>3 DEF SteadyInv, CreatesDeltas
<1> QED BY <1>1, <1>2, <1>4, <1>5, <1>10, <1>13, <1>15, <1>16, <1>17 DEF TableKept
-----------------------------------------------------------------------------
(* The steps that write partitions.                                        *)

LEMMA KeptEntries ==
  ASSUME LayoutInv, EntriesInv, indexStatus = "ok", TableKept,
         UNCHANGED <<supplied, written, ignored, endOfSamples>>, pc # "completing",
         pc' # "completing", pc' = "partition" => IsCBE,
         FileEntries(partitions', ignored)
  PROVE  EntriesInv'
<1>1. /\ CachedInv /\ QueueInv /\ NothingRequiredInv
      /\ config' = config /\ Required' = Required
  BY DEF EntriesInv, TableKept
<1>2. Element' = Element /\ IsCBE' = IsCBE
  BY <1>1, SameConfig
<1>3. QueueInv'
  BY <1>1, <1>2 DEF QueueInv
<1>4. NothingRequiredInv'
  <2>1. pc' = "partition" => Required = {}
    BY <1>1, ConstantRequired
  <2> QED BY <1>1, <1>2, <2>1 DEF NothingRequiredInv
<1> QED BY <1>2, <1>3, <1>4 DEF EntriesInv, TableKept

(* All the essence is before a partition that is added.                    *)
LEMMA UnitsSoFar ==
  ASSUME LayoutInv
  PROVE  IsFile(partitions) /\ UnitsBefore(partitions, Len(partitions) + 1) = 0 .. (written - 1)
  BY DEF LayoutInv, FileTypeInv, PartitionsInv, LaidOut

LEMMA FileEntriesNow ==
  ASSUME EntriesInv
  PROVE  FileEntries(partitions, ignored)
  BY DEF EntriesInv

LEMMA AddedEntries ==
  ASSUME LayoutInv, EntriesInv, NEW x, Describes(x, 0 .. (written - 1), ignored), NEW offset,
         partitions' = Append(partitions, Partition(x, offset))
  PROVE  FileEntries(partitions', ignored)
<1>1. PICK list, gone, units, new :
        /\ list = partitions /\ gone = ignored /\ units = 0 .. (written - 1)
        /\ new = partitions'
  OBVIOUS
<1>2. /\ SoFar(list, units, gone) /\ Describes(x, units, gone)
      /\ new = Append(list, Partition(x, offset))
  BY <1>1, UnitsSoFar, FileEntriesNow DEF SoFar
<1>3. FileEntries(new, gone)
  BY ONLY <1>2, EntriesAdded DEF SoFar
<1> QED BY <1>1, <1>3

LEMMA EmptyDescribes == \A units, gone : Describes(<<>>, units, gone)
  BY EmptyTable, NothingDescribed

LEMMA WriteCBEIndexEntries ==
  ASSUME RegularFrames, LayoutInv, WholeInv, EntriesInv, WriteCBEIndex
  PROVE  EntriesInv'
<1>1. /\ pc = "preindex" /\ indexStatus = "ok" /\ duration >= PreIndexed
      /\ WriteSegments(FALSE, FALSE) /\ pc' \in {"essence", "partition"}
      /\ UNCHANGED <<supplied, written, ignored, endOfSamples>>
      /\ \/ partitions' = [partitions EXCEPT ![1].index = output']
         \/ partitions' = Append(partitions, Partition(output', NoOffset))
  BY DEF WriteCBEIndex
<1>2. IsCBE
  BY <1>1, Known DEF ProgressInv
<1>3. TableKept /\ IsTable(output') /\ NoEntries(output')
  BY <1>1, <1>2, EarlyCanWrite, ConstantFlushed
<1>4. PICK x : x = output' /\ IsTable(x) /\ NoEntries(x)
  BY <1>3
<1>5. FileEntries(partitions', ignored)
  <2>1. CASE partitions' = [partitions EXCEPT ![1].index = output']
    <3>1. PICK list, gone, new : list = partitions /\ gone = ignored /\ new = partitions'
      OBVIOUS
    <3>2. IsFile(list) /\ FileEntries(list, gone) /\ new = WithIndex(list, 1, x)
      BY <1>4, <2>1, <3>1, UnitsSoFar, FileEntriesNow DEF WithIndex
    <3>3. 1 \in DOMAIN list
      <4>1. Len(list) \in Nat \ {0} /\ DOMAIN list = 1 .. Len(list)
        BY <3>2, FileLen
      <4> QED BY <4>1
    <3>4. FileEntries(new, gone)
      BY ONLY <1>4, <3>2, <3>3, EntriesPut
    <3> QED BY <3>1, <3>4
  <2>2. CASE partitions' = Append(partitions, Partition(output', NoOffset))
    <3>1. Describes(x, 0 .. (written - 1), ignored)
      BY <1>4, NothingDescribed
    <3> QED BY <1>4, <2>2, <3>1, AddedEntries
  <2> QED BY <1>1, <2>1, <2>2
<1> QED BY <1>1, <1>2, <1>3, <1>5, KeptEntries

LEMMA StartPartitionEntries ==
  ASSUME LayoutInv, WholeInv, EntriesInv, StartPartition
  PROVE  EntriesInv'
<1>1. /\ pc = "partition" /\ indexStatus = "ok" /\ pc' = "essence"
      /\ UNCHANGED <<supplied, written, ignored, endOfSamples>>
  BY DEF StartPartition
<1>2. \A p \in Required : p >= written
  BY <1>1 DEF EntriesInv, NothingRequiredInv
<1>3. CASE ~IsCBE /\ HaveSegments
  <2>1. WriteSegments(FALSE, TRUE) /\ partitions' = partitions \o NewPartitions(output')
    BY <1>3 DEF StartPartition
  <2>2. TableKept /\ Describes(output', 0 .. (written - 1), ignored)
    BY <1>1, <1>2, <1>3, <2>1, VariableCanWrite, VariableFlushed
  <2>3. FileEntries(partitions', ignored)
    <3>1. PICK list, gone, units, x, new :
            /\ list = partitions /\ gone = ignored /\ units = 0 .. (written - 1)
            /\ x = output' /\ new = partitions'
      OBVIOUS
    <3>2. IsFile(list) /\ SoFar(list, units, gone) /\ Describes(x, units, gone)
      BY <2>2, <3>1, UnitsSoFar, FileEntriesNow DEF SoFar
    <3>3. PICK p, q, r : /\ p = Partition(x, bodyOffset) /\ q = Partition(x, NoOffset)
                         /\ r = Partition(<<>>, bodyOffset)
      OBVIOUS
    <3>4. CASE BodyPartitions
      <4>1. new = list \o <<p>>
        BY <2>1, <3>1, <3>3, <3>4 DEF NewPartitions
      <4>2. new = Append(list, Partition(x, bodyOffset))
        BY <3>2, <3>3, <4>1, ConcatOneTwo
      <4>3. FileEntries(new, gone)
        BY <3>2, <4>2, EntriesAdded DEF SoFar
      <4> QED BY <3>1, <4>3
    <3>5. CASE ~BodyPartitions
      <4>1. new = list \o <<q, r>>
        BY <2>1, <3>1, <3>3, <3>5 DEF NewPartitions
      <4>2. PICK one : one = Append(list, q)
        OBVIOUS
      <4>3. new = Append(one, r)
        BY <3>2, <4>1, <4>2, ConcatOneTwo
      <4>4. one = Append(list, Partition(x, NoOffset)) /\ new = Append(one, Partition(<<>>, bodyOffset))
        BY <3>3, <4>2, <4>3
      <4>5. SoFar(one, units, gone)
        BY <3>2, <4>4, EntriesAdded
      <4>6. PICK none : none = <<>> /\ new = Append(one, Partition(none, bodyOffset))
        BY <4>4
      <4>7. Describes(none, units, gone)
        BY <4>6, EmptyDescribes
      <4>8. FileEntries(new, gone)
        BY <4>5, <4>6, <4>7, EntriesAdded DEF SoFar
      <4> QED BY <3>1, <4>8
    <3> QED BY <3>4, <3>5
  <2> QED BY <1>1, <2>2, <2>3, KeptEntries
<1>4. CASE ~(~IsCBE /\ HaveSegments)
  <2>1. /\ UNCHANGED indexVars
        /\ partitions' = Append(partitions, Partition(<<>>, bodyOffset))
    BY <1>4 DEF StartPartition
  <2>2. TableKept
    BY <1>1, <2>1, UntouchedKept DEF indexVars
  <2>3. PICK none : none = <<>> /\ partitions' = Append(partitions, Partition(none, bodyOffset))
    BY <2>1
  <2>4. FileEntries(partitions', ignored)
    BY <2>3, EmptyDescribes, AddedEntries
  <2> QED BY <1>1, <2>2, <2>4, KeptEntries
<1> QED BY <1>3, <1>4

(* At the end no entry is to be completed any more.                        *)
LEMMA EndFlushed ==
  ASSUME LayoutInv, WholeInv, EntriesInv, indexStatus = "ok", pc \in {"index", "footer"},
         IF IsCBE THEN duration > 0 ELSE HaveSegments \/ flushed # <<>>,
         UNCHANGED <<supplied, ignored>>, NEW isFooter \in BOOLEAN, WriteSegments(isFooter, TRUE)
  PROVE  TableKept /\ Describes(output', 0 .. (written - 1), ignored)
<1>1. CASE IsCBE
  <2>1. TableKept /\ IsTable(output') /\ NoEntries(output')
    BY <1>1, ConstantCanWrite, ConstantFlushed
  <2> QED BY <2>1, NothingDescribed
<1>2. CASE ~IsCBE
  <2>1. endOfSamples
    BY AllWritten DEF Completing
  <2>2. Required = {}
    BY <2>1 DEF EntriesInv, NothingRequiredInv
  <2> QED BY <1>2, <2>2, VariableCanWrite, VariableFlushed
<1> QED BY <1>1, <1>2

LEMMA WriteIndexPartitionEntries ==
  ASSUME LayoutInv, WholeInv, EntriesInv, WriteIndexPartition
  PROVE  EntriesInv'
<1>1. /\ pc = "index" /\ indexStatus = "ok" /\ pc' \in {"misplaced", "footer"}
      /\ UNCHANGED <<supplied, written, ignored, endOfSamples>>
  BY DEF WriteIndexPartition
<1>2. CASE NeedsIndexPartition
  <2>1. WriteSegments(FALSE, TRUE) /\ partitions' = Append(partitions, Partition(output', NoOffset))
    BY <1>2 DEF WriteIndexPartition
  <2>2. IF IsCBE THEN duration > 0 ELSE HaveSegments \/ flushed # <<>>
    BY <1>2 DEF NeedsIndexPartition
  <2>3. TableKept /\ Describes(output', 0 .. (written - 1), ignored)
    BY <1>1, <2>1, <2>2, EndFlushed
  <2>4. PICK x : x = output' /\ Describes(x, 0 .. (written - 1), ignored)
    BY <2>3
  <2>5. FileEntries(partitions', ignored)
    BY <2>1, <2>4, AddedEntries
  <2> QED BY <1>1, <2>3, <2>5, KeptEntries
<1>3. CASE ~NeedsIndexPartition
  <2>1. UNCHANGED indexVars /\ partitions' = partitions
    BY <1>3 DEF WriteIndexPartition
  <2>2. TableKept
    BY <1>1, <2>1, UntouchedKept DEF indexVars
  <2> QED BY <1>1, <2>1, <2>2, FileEntriesNow, KeptEntries
<1> QED BY <1>2, <1>3

LEMMA WriteFooterEntries ==
  ASSUME LayoutInv, WholeInv, EntriesInv, WriteFooter
  PROVE  EntriesInv'
<1>1. /\ pc = "footer" /\ indexStatus = "ok" /\ pc' = "rewrite"
      /\ UNCHANGED <<supplied, written, ignored, endOfSamples>>
  BY DEF WriteFooter
<1>2. CASE HaveFooterSegments
  <2>1. WriteSegments(TRUE, TRUE) /\ partitions' = Append(partitions, Partition(output', NoOffset))
    BY <1>2 DEF WriteFooter
  <2>2. IF IsCBE THEN duration > 0 ELSE HaveSegments \/ flushed # <<>>
    BY <1>2 DEF HaveFooterSegments
  <2>3. TableKept /\ Describes(output', 0 .. (written - 1), ignored)
    BY <1>1, <2>1, <2>2, EndFlushed
  <2>4. PICK x : x = output' /\ Describes(x, 0 .. (written - 1), ignored)
    BY <2>3
  <2>5. FileEntries(partitions', ignored)
    BY <2>1, <2>4, AddedEntries
  <2> QED BY <1>1, <2>3, <2>5, KeptEntries
<1>3. CASE ~HaveFooterSegments
  <2>1. UNCHANGED indexVars /\ partitions' = Append(partitions, Partition(<<>>, NoOffset))
    BY <1>3 DEF WriteFooter
  <2>2. TableKept
    BY <1>1, <2>1, UntouchedKept DEF indexVars
  <2>3. PICK none : none = <<>> /\ partitions' = Append(partitions, Partition(none, NoOffset))
    BY <2>1
  <2>4. FileEntries(partitions', ignored)
    BY <2>3, EmptyDescribes, AddedEntries
  <2> QED BY <1>1, <2>2, <2>4, KeptEntries
<1> QED BY <1>2, <1>3

LEMMA RewriteEntries ==
  ASSUME LayoutInv, WholeInv, EntriesInv, Rewrite
  PROVE  EntriesInv'
<1>1. /\ pc = "rewrite" /\ indexStatus = "ok" /\ pc' = "closed"
      /\ UNCHANGED <<supplied, written, ignored, endOfSamples>>
  BY DEF Rewrite
<1>2. CASE Rewrites
  <2>1. /\ IsCBE /\ duration > 0 /\ indexStatus' = "ok" /\ WriteSegments(FALSE, TRUE)
        /\ cbePartition \in DOMAIN partitions
        /\ partitions' = WithIndex(partitions, cbePartition, output')
    BY <1>2, Rewritten DEF Rewrite, WithIndex
  <2>2. CanWrite
    BY <1>1, <2>1 DEF WriteSegments, IndexFails, CanWrite
  <2>3. TableKept /\ IsTable(output') /\ NoEntries(output')
    BY <1>1, <2>1, <2>2, ConstantFlushed
  <2>4. PICK list, gone, new, x, n :
          /\ list = partitions /\ gone = ignored /\ new = partitions' /\ x = output'
          /\ n = cbePartition
    OBVIOUS
  <2>5. /\ IsFile(list) /\ FileEntries(list, gone) /\ new = WithIndex(list, n, x)
        /\ IsTable(x) /\ NoEntries(x) /\ n \in DOMAIN list
    BY <2>1, <2>3, <2>4, UnitsSoFar, FileEntriesNow
  <2>6. FileEntries(new, gone)
    BY ONLY <2>5, EntriesPut
  <2> QED BY <1>1, <2>3, <2>4, <2>6, KeptEntries
<1>3. CASE ~Rewrites
  <2>1. UNCHANGED indexVars /\ partitions' = partitions
    BY <1>3 DEF Rewrite
  <2>2. TableKept
    BY <1>1, <2>1, UntouchedKept DEF indexVars
  <2> QED BY <1>1, <2>1, <2>2, FileEntriesNow, KeptEntries
<1> QED BY <1>2, <1>3
-----------------------------------------------------------------------------
(* The invariant holds at the start and in every step.                     *)

LEMMA InitEntries ==
  ASSUME Init
  PROVE  EntriesInv
<1>1. /\ config \in Configs /\ duration = 0 /\ indexStatus = "ok" /\ written = 0
      /\ segments = <<NewSegment(0)>> /\ flushed = <<>>
      /\ firstSegment = (IF RequireIndexTableSegmentPair THEN <<NewSegment(0)>> ELSE <<>>)
      /\ cache = [e \in Element |-> <<>>] /\ requireUpdates = [e \in Element |-> {}]
      /\ supplied = [e \in Element |-> 0]
      /\ pc = "idle" /\ endOfSamples = FALSE /\ ignored = {}
  BY DEF Init, InitIndexTable
<1>2. PICK s : s = NewSegment(0)
  OBVIOUS
<1>3. IsSegment(s) /\ s.start = 0 /\ s.duration = 0 /\ s.entries = <<>> /\ s.byteCount = 0
  BY <1>2, NewSegmentIs DEF NewSegment
<1>4. IsTable(<<s>>) /\ NoEntries(<<s>>) /\ Len(<<s>>) = 1 /\ <<s>>[1] = s /\ <<s>> # <<>>
  BY <1>3, OneWithoutEntries
<1>5. segments = <<s>> /\ (firstSegment # <<>> <=> RequireIndexTableSegmentPair)
  BY <1>1, <1>2, <1>4
<1>6. FileEntries(partitions, ignored)
  <2>1. PICK list, o : list = partitions /\ list = <<Partition(<<>>, o)>>
    BY DEF Init
  <2>2. PICK p : p = Partition(<<>>, o)
    OBVIOUS
  <2>3. p.index = <<>>
    BY <2>2, NewPartition
  <2>4. list = <<p>>
    BY <2>1, <2>2
  <2>5. ASSUME NEW i \in 1 .. Len(list) PROVE list[i].index = <<>>
    <3>1. Len(list) = 1 /\ list[1] = p
      BY <2>4
    <3>2. i = 1
      BY <2>5, <3>1
    <3> QED BY <2>3, <3>1, <3>2
  <2>6. FileEntries(list, ignored)
    BY <2>5, EmptyDescribes DEF FileEntries
  <2> QED BY <2>1, <2>6
<1>7. QueueInv
  <2>1. 0 <= 0 + MaxPackages
    BY QueueConstants
  <2> QED BY <1>1, <2>1 DEF QueueInv
<1>8. CachedInv
  <2>1. CBEElement \subseteq Element /\ VBEElement \subseteq Element
    BY <1>1, ConfigFacts DEF VBEElement
  <2>2. \A e \in Element : cache[e] = <<>> /\ DOMAIN cache[e] = {} /\ requireUpdates[e] = {}
    <3>1. DOMAIN <<>> = {}
      OBVIOUS
    <3> QED BY <1>1, <3>1
  <2>3. requireUpdates \in [Element -> SUBSET Nat]
    BY <1>1
  <2> QED BY <2>1, <2>2, <2>3 DEF CachedInv
<1>9. SegmentsInv
  <2>1. Right(segments, OpenAt)
    BY <1>4, <1>5, NoEntriesRight
  <2>2. Right(flushed, ignored) /\ Inside(flushed, 0 .. (duration - 1))
    BY <1>1, EmptyDescribes DEF Describes
  <2>3. \A i \in 1 .. Len(segments) : i = 1 /\ segments[i] = s
    <3>1. \A i \in 1 .. 1 : i = 1
      OBVIOUS
    <3> QED BY <1>4, <1>5, <3>1
  <2>4. Disjoint(segments)
    <3>1. \A i, j \in 1 .. Len(segments) : ~(i < j)
      BY <2>3
    <3> QED BY <3>1 DEF Disjoint
  <2>5. \A i \in 1 .. Len(segments) : segments[i].start + segments[i].duration <= duration
    BY <1>1, <1>3, <2>3
  <2> QED BY <1>1, <2>1, <2>2, <2>4, <2>5 DEF SegmentsInv
<1>10. NothingRequiredInv
  BY <1>1 DEF NothingRequiredInv
<1>11. SteadyInv
  <2>1. CreatesDeltas
    BY <1>1 DEF CreatesDeltas
  <2>2. segments[1].byteCount = 0
    BY <1>3, <1>4, <1>5
  <2> QED BY <1>5, <2>1, <2>2 DEF SteadyInv, RequireIndexTableSegmentPair
<1> QED BY <1>1, <1>6, <1>7, <1>8, <1>9, <1>10, <1>11 DEF EntriesInv

(* The keys that a step leaves alone.                                      *)
LEMMA KeysStay ==
  ASSUME KeysInv, config' = config, indexStatus' = "ok" => indexStatus = "ok",
         ~IsCBE => /\ \A e \in Element : \A p \in DOMAIN cache'[e] :
                        p \in DOMAIN cache[e] /\ cache'[e][p] = cache[e][p]
                   /\ segments' = segments \/ segments' = <<>>
  PROVE  KeysInv'
<1>1. VBEElement' = VBEElement /\ IsCBE' = IsCBE /\ VBEElement \subseteq Element
  BY SameConfig DEF VBEElement
<1>2. KeysKnown(<<>>)
  BY EmptyTable DEF KeysKnown
<1> QED BY <1>1, <1>2 DEF KeysInv

LEMMA DecisionsKeys ==
  ASSUME KeysInv,
         \/ \E e \in Element : StartFrame(e)
         \/ LeaveLoop \/ FirstPackage \/ WhileWaiting \/ NextPackage \/ CompleteWrite \/ EndSamples
         \/ UNCHANGED vars
  PROVE  KeysInv'
<1>1. UNCHANGED indexVars
  BY DEF StartFrame, LeaveLoop, FirstPackage, WhileWaiting, NextPackage, CompleteWrite,
         EndSamples, vars
<1> QED BY <1>1, KeysStay DEF indexVars

LEMMA GivenUpKeys ==
  ASSUME KeysInv, IgnoreEntries \/ GiveUpPreviousGOP
  PROVE  KeysInv'
<1>1. UNCHANGED <<config, cache, segments, indexStatus>>
  BY DEF IgnoreEntries, GiveUpPreviousGOP, IgnoreRequiredUpdates
<1> QED BY <1>1, KeysStay

(* A partition takes all the segments of a variable table.                 *)
LEMMA PartitionKeys ==
  ASSUME KeysInv, WriteCBEIndex \/ StartPartition \/ WriteIndexPartition \/ WriteFooter \/ Rewrite
  PROVE  KeysInv'
<1>1. \/ \E isFooter, final : WriteSegments(isFooter, final)
      \/ UNCHANGED indexVars
  BY DEF WriteCBEIndex, StartPartition, WriteIndexPartition, WriteFooter, Rewrite
<1>2. config' = config /\ cache' = cache /\ (indexStatus' = "ok" => indexStatus = "ok")
  BY <1>1 DEF WriteSegments, IndexFails, indexVars
<1>3. ~IsCBE => segments' = segments \/ segments' = <<>>
  BY <1>1 DEF WriteSegments, IndexFails, indexVars
<1> QED BY <1>2, <1>3, KeysStay

(* Only a constant table is indexed before the first package is written.   *)
LEMMA PreIndexKeys ==
  ASSUME LayoutInv, KeysInv, PreIndex
  PROVE  KeysInv'
<1>1. IsCBE /\ indexStatus = "ok"
  BY Known DEF PreIndex, ProgressInv
<1>2. config' = config
  BY DEF PreIndex, UpdateIndex, IndexFails
<1> QED BY <1>1, <1>2, KeysStay

(* The picture's entry has its key from the start.                         *)
LEMMA WriteFrameKeys ==
  ASSUME LayoutInv, EntriesInv, KeysInv, NEW complete \in BOOLEAN, WriteFrame(complete)
  PROVE  KeysInv'
<1>1. /\ indexStatus = "ok" /\ pc = "track" /\ config' = config
  BY DEF WriteFrame, IndexFails, AddIndexEntry, indexVars
<1>2. CASE indexStatus' # "ok" \/ UNCHANGED indexVars
  <2>1. CASE indexStatus' # "ok"
    BY <2>1 DEF KeysInv
  <2>2. CASE UNCHANGED indexVars
    BY <1>1, <2>2, KeysStay DEF indexVars
  <2> QED BY <1>2, <2>1, <2>2
<1>3. CASE ~(indexStatus' # "ok" \/ UNCHANGED indexVars)
  <2>1. PICK n, shown : /\ n = supplied[track]
                        /\ shown = IF complete THEN Final[n] ELSE IncompleteEntry(n, DefaultKey)
    OBVIOUS
  <2>2. /\ track \in VBEElement
        /\ AddIndexEntry(track, n, shown, n \in GOPStart, ~complete)
    BY <1>3, <2>1 DEF WriteFrame, IndexFails
  <2>3. PICK entry : entry = CacheEntry(shown, n \in GOPStart)
    OBVIOUS
  <2>4. /\ cache' = [cache EXCEPT ![track] = CacheWith(track, n, entry)]
        /\ segments' = segments
    BY <1>3, <2>2, <2>3 DEF AddIndexEntry, IndexFails
  <2>5. config.mpeg2 => entry.key = Final[n].key
    <3>1. config.mpeg2 => shown.key = Final[n].key
      BY <2>1 DEF IncompleteEntry
    <3> QED BY <2>3, <3>1 DEF CacheEntry
  <2>6. VBEElement' = VBEElement /\ IsCBE' = IsCBE /\ DOMAIN cache = Element
    BY <1>1, SameConfig, Known DEF WaitingEntriesInv, Waits, Element, Elements
  <2>7. config \in Configs /\ track \in Element
    BY <1>1, Known DEF FileTypeInv
  <2>8. ASSUME ~IsCBE, config.mpeg2, NEW e \in VBEElement, NEW p \in DOMAIN cache'[e]
        PROVE  cache'[e][p].key = Final[p].key
    <3>1. e = track
      BY <2>2, <2>7, OneVariable
    <3>2. cache'[e] = CacheWith(track, n, entry)
      BY <2>4, <2>6, <2>7, <3>1
    <3>3. /\ p \in DOMAIN cache[track] \cup {n}
          /\ cache'[e][p] = IF p = n THEN entry ELSE cache[track][p]
      BY <2>8, <3>2 DEF CacheWith
    <3>4. \A q \in DOMAIN cache[track] : cache[track][q].key = Final[q].key
      BY <1>1, <2>2, <2>8 DEF KeysInv
    <3> QED BY <2>5, <2>8, <3>3, <3>4
  <2>9. ~IsCBE /\ config.mpeg2 => KeysKnown(segments)
    BY <1>1 DEF KeysInv
  <2> QED BY <1>1, <2>4, <2>6, <2>8, <2>9 DEF KeysInv
<1> QED BY <1>2, <1>3

LEMMA GrownKeys ==
  ASSUME NEW old, NEW new, NEW n, NEW d \in Nat, NEW open, Grown(old, new, n, d, open),
         KeysKnown(old), \A i \in 1 .. Len(old) : Len(old[i].entries) = old[i].duration,
         new[n].entries[new[n].duration].key = Final[d].key
  PROVE  KeysKnown(new)
<1>1. /\ IsTable(old) /\ IsTable(new) /\ n \in Nat \ {0} /\ Len(new) = n
      /\ \A i \in 1 .. (n - 1) : i \in 1 .. Len(old) /\ new[i] = old[i]
      /\ new[n].duration > 0 /\ new[n].start + new[n].duration = d + 1
      /\ Len(new[n].entries) = new[n].duration
  BY DEF Grown
<1>2. n \in 1 .. n /\ \A i \in 1 .. n : i = n \/ i \in 1 .. (n - 1)
  BY <1>1
<1>3. PICK b \in Nat, c \in Nat : b = new[n].start /\ c = new[n].duration
  BY <1>1, <1>2 DEF IsTable, IsSegment
<1>4. c > 0 /\ b + c = d + 1 /\ Len(new[n].entries) = c
  BY <1>1, <1>3
<1>5. \/ Len(old) = n - 1 /\ b = d /\ c = 1
      \/ /\ Len(old) = n /\ b = old[n].start /\ c = old[n].duration + 1
         /\ \A k \in 1 .. old[n].duration : new[n].entries[k] = old[n].entries[k]
  BY <1>3 DEF Grown
<1> SUFFICES ASSUME NEW i \in 1 .. n, NEW k \in 1 .. Len(new[i].entries)
             PROVE  new[i].entries[k].key = Final[new[i].start + k - 1].key
  BY <1>1 DEF KeysKnown
<1>6. CASE i # n
  <2>1. new[i] = old[i] /\ i \in 1 .. Len(old)
    BY <1>1, <1>2, <1>6
  <2> QED BY <2>1 DEF KeysKnown
<1>7. CASE i = n /\ k = c
  <2>1. b + k - 1 = d
    BY <1>4, <1>7
  <2> QED BY <1>3, <1>7, <2>1
<1>8. CASE i = n /\ k # c
  <2>1. k \in 1 .. c
    BY <1>4, <1>8
  <2>2. /\ Len(old) = n /\ b = old[n].start /\ c = old[n].duration + 1
        /\ \A l \in 1 .. old[n].duration : new[n].entries[l] = old[n].entries[l]
    BY <1>5, <1>8, <2>1
  <2>3. n \in 1 .. Len(old)
    BY <1>2, <2>2
  <2>4. PICK l \in Nat : l = old[n].duration /\ Len(old[n].entries) = l
    BY <1>1, <2>3 DEF IsTable, IsSegment
  <2>5. k \in 1 .. l
    BY <1>8, <2>1, <2>2, <2>4
  <2>6. old[n].entries[k].key = Final[old[n].start + k - 1].key
    BY <2>3, <2>4, <2>5 DEF KeysKnown
  <2> QED BY <1>3, <1>8, <2>2, <2>4, <2>5, <2>6
<1> QED BY <1>6, <1>7, <1>8

LEMMA WriteEssenceKeys ==
  ASSUME RegularFrames, LayoutInv, WholeInv, EntriesInv, KeysInv, WriteEssence
  PROVE  KeysInv'
<1>1. /\ pc = "essence" /\ indexStatus = "ok"
      /\ IF IsIndexed THEN UNCHANGED indexVars ELSE UpdateIndex(config.sizes[written])
  BY DEF WriteEssence
<1>2. CASE IsIndexed \/ IsCBE
  <2>1. config' = config /\ (~IsCBE => cache' = cache /\ segments' = segments)
    BY <1>1, <1>2 DEF UpdateIndex, IndexFails, indexVars
  <2> QED BY <1>1, <2>1, KeysStay
<1>3. CASE ~(IsIndexed \/ IsCBE)
  <2>1. /\ duration = written /\ duration \in Nat /\ UpdateIndex(config.sizes[duration])
        /\ \A i \in 1 .. Len(segments) : Len(segments[i].entries) = segments[i].duration
    BY <1>1, <1>3, VariableFacts
  <2>2. Supplied(config, supplied, duration + 1)
    <3>1. HavePackages(1)
      BY <1>1, Known DEF ProgressInv, Starting
    <3> QED BY <2>1, <3>1, HaveSupplied
  <2>3. UpdateVBEIndex(config.sizes[duration]) /\ config' = config /\ indexStatus' = "ok"
    BY <1>1, <1>3, <2>1, <2>2, UnitTaken
  <2>4. PICK n : /\ Grown(segments, segments', n, duration, OpenAt)
                 /\ segments'[n].entries[segments'[n].duration].key = EntryForUnit.key
    BY <1>1, <1>3, <2>2, <2>3, UnitGrows
  <2>5. config.mpeg2 => EntryForUnit.key = Final[duration].key
    BY <1>1, <1>3, <2>2, PicturesEntry
  <2>6. config.mpeg2 =>
          /\ KeysKnown(segments)
          /\ \A e \in VBEElement : \A p \in DOMAIN cache[e] : cache[e][p].key = Final[p].key
    BY <1>1, <1>3 DEF KeysInv
  <2>7. config.mpeg2 => KeysKnown(segments')
    <3>1. PICK old, new, d, open :
            old = segments /\ new = segments' /\ d = duration /\ open = OpenAt
      OBVIOUS
    <3>2. ASSUME config.mpeg2 PROVE KeysKnown(new)
      <4>1. /\ Grown(old, new, n, d, open) /\ KeysKnown(old) /\ d \in Nat
            /\ \A i \in 1 .. Len(old) : Len(old[i].entries) = old[i].duration
            /\ new[n].entries[new[n].duration].key = Final[d].key
        BY <2>1, <2>4, <2>5, <2>6, <3>1, <3>2
      <4> QED BY ONLY <4>1, GrownKeys
    <3> QED BY <3>1, <3>2
  <2>8. \A e \in Element : \A p \in DOMAIN cache'[e] :
          p \in DOMAIN cache[e] /\ cache'[e][p] = cache[e][p]
    <3>1. \A e \in Element : cache'[e] = [p \in NotTaken(e) |-> cache[e][p]]
      BY <2>3 DEF UpdateVBEIndex
    <3>2. ASSUME NEW e \in Element, NEW p \in DOMAIN cache'[e]
          PROVE  p \in DOMAIN cache[e] /\ cache'[e][p] = cache[e][p]
      <4>1. cache'[e] = [q \in NotTaken(e) |-> cache[e][q]]
        BY <3>1
      <4> QED BY <3>2, <4>1 DEF NotTaken
    <3> QED BY <3>2
  <2>9. VBEElement' = VBEElement /\ VBEElement \subseteq Element
    BY <2>3, SameConfig DEF VBEElement
  <2>10. config.mpeg2 =>
           \A e \in VBEElement : \A p \in DOMAIN cache'[e] : cache'[e][p].key = Final[p].key
    BY <2>6, <2>8, <2>9
  <2> QED BY <2>3, <2>7, <2>9, <2>10 DEF KeysInv
<1> QED BY <1>2, <1>3

LEMMA InitKeys ==
  ASSUME Init
  PROVE  KeysInv
<1>1. segments = <<NewSegment(0)>> /\ cache = [e \in Element |-> <<>>]
  BY DEF Init, InitIndexTable
<1>2. PICK s : s = NewSegment(0)
  OBVIOUS
<1>3. s.entries = <<>>
  BY <1>2 DEF NewSegment
<1>4. <<s>>[1] = s /\ Len(<<s>>) = 1
  OBVIOUS
<1>5. KeysKnown(<<s>>)
  <2> SUFFICES ASSUME NEW i \in 1 .. 1, NEW k \in 1 .. Len(<<s>>[i].entries) PROVE FALSE
    BY <1>4 DEF KeysKnown
  <2>1. i = 1 /\ Len(<<>>) = 0
    BY EmptyTable
  <2> QED BY <1>3, <1>4, <2>1
<1>6. \A e \in VBEElement : e \in Element /\ DOMAIN cache[e] = {}
  <2>1. DOMAIN <<>> = {}
    OBVIOUS
  <2> QED BY <1>1, <2>1 DEF VBEElement
<1> QED BY <1>1, <1>2, <1>5, <1>6 DEF KeysInv

LEMMA NextEntries ==
  ASSUME RegularFrames, LayoutInv, WholeInv, EntriesInv, KeysInv, [Next]_vars
  PROVE  EntriesInv' /\ KeysInv'
<1>1. CASE \E e \in Element : StartFrame(e)
  BY <1>1, DecisionsEntries, DecisionsKeys
<1>2. CASE \E p \in 0 .. (config.frames - 1) : CompleteEntry(p)
  BY <1>2, CompleteEntryEntries
<1>3. CASE \E complete \in BOOLEAN : WriteFrame(complete)
  BY <1>3, WriteFrameEntries, WriteFrameKeys
<1>4. CASE \/ LeaveLoop \/ FirstPackage \/ WhileWaiting \/ NextPackage
           \/ CompleteWrite \/ EndSamples
  BY <1>4, DecisionsEntries, DecisionsKeys
<1>5. CASE PreIndex \/ WriteCBEIndex \/ StartPartition \/ WriteEssence
  <2>1. EntriesInv'
    BY <1>5, PreIndexEntries, WriteCBEIndexEntries, StartPartitionEntries, WriteEssenceEntries
  <2>2. KeysInv'
    BY <1>5, PreIndexKeys, PartitionKeys, WriteEssenceKeys
  <2> QED BY <2>1, <2>2
<1>6. CASE IgnoreEntries \/ GiveUpPreviousGOP
  BY <1>6, IgnoreEntriesEntries, GiveUpPreviousGOPEntries, GivenUpKeys
<1>7. CASE WriteIndexPartition \/ WriteFooter \/ Rewrite
  BY <1>7, WriteIndexPartitionEntries, WriteFooterEntries, RewriteEntries, PartitionKeys
<1>8. CASE Done \/ UNCHANGED vars
  BY <1>8, StutterEntries, DecisionsKeys DEF Done
<1> QED BY <1>1, <1>2, <1>3, <1>4, <1>5, <1>6, <1>7, <1>8 DEF Next

(* The index in a file only describes essence that is before it, and its   *)
(* entries are what the picture shows, but at the positions the stream     *)
(* never completes; and as long as the frames have the sizes they should   *)
(* have, the table refuses nothing: no cache of entries overflows, and no  *)
(* entry is completed after its segment was flushed.                       *)
THEOREM FlushedEntriesAreComplete ==
  ASSUME \A c \in Configs : Regular(c)
  PROVE  Spec => []FlushedEntriesComplete
<1>0. RegularFrames
  BY DEF RegularFrames
<1>1. Init => EntriesInv /\ KeysInv
  BY InitEntries, InitKeys
<1>2. LayoutInv /\ WholeInv /\ EntriesInv /\ KeysInv /\ [Next]_vars => EntriesInv' /\ KeysInv'
  BY <1>0, NextEntries
<1>3. Init => WholeInv
  BY InitWhole
<1>4. LayoutInv /\ LayoutInv' /\ WholeInv /\ [Next]_vars => WholeInv'
  BY NextWhole
<1>5. LayoutInv /\ EntriesInv => FlushedEntriesComplete
  <2> SUFFICES ASSUME LayoutInv, EntriesInv PROVE FlushedEntriesComplete
    OBVIOUS
  <2>1. DOMAIN partitions = 1 .. Len(partitions)
    BY FileLen DEF LayoutInv, FileTypeInv
  <2>2. ASSUME NEW i \in DOMAIN partitions, NEW s \in DOMAIN partitions[i].index,
               NEW k \in DOMAIN partitions[i].index[s].entries,
               NEW p, p = partitions[i].index[s].start + k - 1
        PROVE  /\ \E j \in 1 .. (i - 1) : p \in Range(partitions[j].essence)
               /\ p \notin ignored => Shown(partitions[i].index[s].entries[k]) = Final[p]
    <3>1. PICK list, units : list = partitions[i].index /\ units = UnitsBefore(partitions, i)
      OBVIOUS
    <3>2. Describes(list, units, ignored)
      BY <2>1, <3>1 DEF EntriesInv, FileEntries
    <3>3. s \in 1 .. Len(list) /\ k \in 1 .. Len(list[s].entries)
      <4>1. s \in 1 .. Len(list)
        BY <3>1, <3>2, TableLen DEF Describes
      <4>2. IsSegment(list[s])
        BY <3>2, <4>1 DEF Describes, IsTable
      <4>3. DOMAIN list[s].entries = 1 .. Len(list[s].entries)
        BY <4>2 DEF IsSegment
      <4> QED BY <2>2, <3>1, <4>1, <4>3
    <3>4. p \in units
      BY <2>2, <3>1, <3>2, <3>3 DEF Describes, Inside
    <3>5. p \notin ignored => Shown(list[s].entries[k]) = Final[p]
      BY <2>2, <3>1, <3>2, <3>3 DEF Describes, Right
    <3> QED BY <3>1, <3>4, <3>5 DEF UnitsBefore
  <2> QED BY <2>2 DEF FlushedEntriesComplete, EntriesInv
<1> QED BY <1>1, <1>2, <1>3, <1>4, <1>5, LayoutInvariant, PTL DEF Spec

=============================================================================
