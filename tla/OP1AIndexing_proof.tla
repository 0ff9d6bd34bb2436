-------------------------- MODULE OP1AIndexing_proof --------------------------
(***************************************************************************)
(* Proof that the index of an OP-1a file is complete and leads to every    *)
(* element: for any elements, sizes, GOPs, order in which entries are      *)
(* completed and partitions started, with the table in the body, repeated  *)
(* in the footer or constant.                                              *)
(*                                                                         *)
(* An entry is right, still required, or given up; and one that is still   *)
(* required is in the cache or in a segment that has not been flushed.     *)
(* The entries of a variable table hold the sums of the sizes before them, *)
(* and the segments of a constant one describe every edit unit they cover. *)
(***************************************************************************)
EXTENDS OP1AIndexing, OP1AIndexTable_proof

Stages == {"writing", "completing", "indexed", "footer", "closed"}
Default == [temporal |-> 0, key |-> DefaultKey]

-----------------------------------------------------------------------------
(* Lists of segments. *)

(* What segments[i] holds comes before what segments[j] holds.             *)
Disjoint(list) ==
  \A i, j \in 1 .. Len(list) : i < j => list[i].start + list[i].duration <= list[j].start

-----------------------------------------------------------------------------
(* The inductive invariant. *)

Open == ignored \cup UNION {requireUpdates[e] : e \in Element}

TypeInv ==
  /\ config \in Configs /\ indexStatus \in {"ok", "failed"} /\ stage \in Stages
  /\ duration \in Nat /\ haveWritten \in BOOLEAN
  /\ cache \in [Element -> Range(cache)]
  /\ requireUpdates \in [Element -> SUBSET Nat]
  /\ lastAdded \in [Element -> Int]
  /\ \A list \in {firstSegment, segments, flushed, inBody, inFooter, output} : IsTable(list)

RightInv ==
  /\ Right(segments, Open)
  /\ \A list \in {flushed, inBody, inFooter, output} : Right(list, ignored)

(* The entries that wait in the cache.                                     *)
CacheInv ==
  /\ \A e \in Element : e = Picture \/ requireUpdates[e] = {}
  /\ \A e \in CBEElement : DOMAIN cache[e] = {} /\ requireUpdates[e] = {}
  /\ \A e \in VBEElement :
       /\ lastAdded[e] >= duration - 1
       /\ DOMAIN cache[e] = duration .. lastAdded[e]
       /\ e # Picture => \A p \in DOMAIN cache[e] : Shown(cache[e][p]) = Default
       /\ e = Picture =>
            /\ lastAdded[e] < config.editUnits
            /\ \A p \in DOMAIN cache[e] :
                 /\ p \notin Open => Shown(cache[e][p]) = Final[p]
                 /\ cache[e][p].canStart = (p \in GOPStart)
            /\ \A p \in requireUpdates[e] :
                 /\ p <= lastAdded[e]
                 /\ p < duration => \E i \in 1 .. Len(segments) : HoldsPosition(i, p)

(* The segments that have not been flushed.                                *)
SegmentInv ==
  /\ \A i \in 1 .. Len(segments) :
       LET s == segments[i] IN
       /\ Len(s.entries) = s.duration /\ s.start + s.duration <= duration
       /\ s.duration > 0 \/ (i = 1 /\ duration = 0)
       /\ s.duration <= MaxSegmentEntries
       /\ i > 1 => \/ s.start \in GOPStart
                   \/ segments[i - 1].duration = MaxSegmentEntries
  /\ Disjoint(segments)

(* Where what was flushed ends, the segments begin.                        *)
Kept == IF RepeatIndexTable THEN flushed ELSE inBody
SpansInv ==
  IF stage \in {"footer", "closed"}
    THEN Spans(IF RepeatIndexTable THEN inFooter ELSE inBody \o inFooter, 0, duration)
    ELSE /\ inFooter = <<>>
         /\ \E m \in 0 .. duration : Spans(Kept, 0, m) /\ Spans(segments, m, duration)

VariableInv == CacheInv /\ SegmentInv /\ (indexStatus = "ok" => SpansInv)

(* What has been written of it, and is to be written again.                *)
ConstantWritten ==
  /\ ~haveWritten => inBody = <<>>
  /\ stage \notin {"footer", "closed"} =>
       /\ inFooter = <<>>
       /\ haveWritten => /\ inBody # <<>>
                         /\ InputDuration # NoDuration => Spans(inBody, 0, InputDuration)
  /\ stage \in {"footer", "closed"} =>
       /\ RepeatIndexTable => Spans(inFooter, 0, duration)
       /\ ~RepeatIndexTable =>
            \/ inBody = <<>> /\ Spans(inFooter, 0, duration)
            \/ inBody # <<>> /\ inFooter = <<>>
       /\ inBody # <<>> /\ (stage = "closed" \/ InputDuration # NoDuration) =>
            Spans(inBody, 0, duration)

IndexingInv ==
  /\ TypeInv
  /\ RightInv
  /\ IF IsCBE THEN /\ \A e \in Element : requireUpdates[e] = {}
                   /\ ConstantInv
                   /\ indexStatus = "ok" => ConstantWritten
              ELSE VariableInv
  /\ indexStatus = "ok" /\ stage # "writing" =>
       /\ duration > 0 /\ InputDuration \in {duration, NoDuration}
       /\ \A e \in Element : requireUpdates[e] = {}

(* Besides, of a variable table: a data element can always start a          *)
(* partition, the entries of an MPEG-2 picture have had their keys from the *)
(* beginning, and the segments are cut at GOPs.                             *)
KeysInv ==
  /\ \A p \in DOMAIN cache[Picture] : cache[Picture][p].key = Final[p].key
  /\ KeysKnown(segments)

GOPInv ==
  ~IsCBE => /\ \A e \in VBEElement \ {Picture} : \A p \in DOMAIN cache[e] : cache[e][p].canStart
            /\ config.mpeg2 => KeysInv
            /\ SegmentsCutAtGOPs

-----------------------------------------------------------------------------
(* Configurations, and the start. *)

LEMMA ConfigFacts ==
  ASSUME config \in Configs
  PROVE  /\ CBEElement \subseteq Element
         /\ IsCBE => VBEElement = {}
         /\ ~IsCBE => /\ Picture \in VBEElement
                      /\ \A p \in 0 .. (config.editUnits - 1) :
                           Final[p] \in [temporal : Int, key : Nat]
         /\ config.editUnits \in Nat /\ config.avci \in BOOLEAN
         /\ config.clip => IsCBE /\ ~config.avci
         /\ RepeatIndexTable \in BOOLEAN
         /\ InputDuration \in Nat \cup {NoDuration}
  BY IndexTableAssumption, IndexingAssumption
     DEF Element, Elements, CBEElement, VBEElement, IsCBE, RepeatIndexTable, InputDuration

LEMMA SameConfig ==
  ASSUME config' = config
  PROVE  /\ Element' = Element /\ Elements' = Elements /\ CBEElement' = CBEElement
         /\ VBEElement' = VBEElement /\ IsCBE' = IsCBE
         /\ RepeatIndexTable' = RepeatIndexTable /\ InputDuration' = InputDuration
         /\ RequireIndexTableSegmentPair' = RequireIndexTableSegmentPair
  BY DEF Element, Elements, CBEElement, VBEElement, IsCBE, RepeatIndexTable, InputDuration,
         RequireIndexTableSegmentPair

LEMMA InitInv == Init => IndexingInv
<1> SUFFICES ASSUME Init PROVE IndexingInv
  OBVIOUS
<1> USE DEF Init, InitIndexTable
<1>1. /\ IsTable(<<NewSegment(0)>>) /\ Len(<<NewSegment(0)>>) = 1
      /\ <<NewSegment(0)>>[1] = NewSegment(0)
      /\ NewSegment(0).start = 0 /\ NewSegment(0).duration = 0 /\ NewSegment(0).entries = <<>>
  BY NewSegmentIs, OneSegment
<1>2. segments = <<NewSegment(0)>> /\ firstSegment \in {<<>>, <<NewSegment(0)>>}
  OBVIOUS
<1>3. NoEntries(segments) /\ NoEntries(firstSegment)
  <2>1. NoEntries(<<NewSegment(0)>>)
    BY <1>1 DEF NoEntries
  <2> QED BY <1>2, <2>1, EmptyTable
<1>4. \A e \in Element : DOMAIN cache[e] = {} /\ requireUpdates[e] = {} /\ lastAdded[e] = -1
  OBVIOUS
<1>5. TypeInv
  <2>1. IsTable(firstSegment) /\ IsTable(segments)
    BY <1>1, <1>2, EmptyTable
  <2>2. \A list \in {firstSegment, segments, flushed, inBody, inFooter, output} : IsTable(list)
    BY <2>1, EmptyTable
  <2>3. cache \in [Element -> Range(cache)]
    BY DEF Range
  <2>4. requireUpdates \in [Element -> SUBSET Nat] /\ lastAdded \in [Element -> Int]
    OBVIOUS
  <2>5. config \in Configs /\ indexStatus \in {"ok", "failed"} /\ stage \in Stages
    BY DEF Stages
  <2>6. duration \in Nat /\ haveWritten \in BOOLEAN
    OBVIOUS
  <2> QED BY ONLY <2>2, <2>3, <2>4, <2>5, <2>6 DEF TypeInv
<1>6. RightInv
  BY <1>3, NoEntriesRight, EmptyTable DEF RightInv
<1>7. ASSUME IsCBE PROVE ConstantInv /\ ConstantWritten
  <2>1. ConstantInv
    BY <1>1, <1>2, <1>3 DEF ConstantInv, FirstUnits, RequireIndexTableSegmentPair
  <2> QED BY <2>1 DEF ConstantWritten
<1>8. ASSUME ~IsCBE PROVE VariableInv
  <2>1. config.editUnits \in Nat
    BY ConfigFacts
  <2>2. CacheInv
    <3>1. \A e \in Element : requireUpdates[e] = {}
      BY <1>4
    <3>2. ASSUME NEW e \in VBEElement
          PROVE  /\ lastAdded[e] >= duration - 1 /\ DOMAIN cache[e] = duration .. lastAdded[e]
                 /\ lastAdded[e] < config.editUnits
                 /\ \A p \in DOMAIN cache[e] : FALSE
                 /\ \A p \in requireUpdates[e] : FALSE
      <4>1. e \in Element
        BY DEF VBEElement
      <4>2. DOMAIN cache[e] = {} /\ requireUpdates[e] = {} /\ lastAdded[e] = -1 /\ duration = 0
        BY <1>4, <4>1
      <4>3. 0 .. (-1) = {} /\ -1 >= 0 - 1 /\ -1 < config.editUnits
        BY ONLY <2>1
      <4> QED BY ONLY <4>2, <4>3
    <3>3. \A e \in CBEElement : e \in Element
      BY ConfigFacts
    <3> QED BY ONLY <1>4, <3>1, <3>2, <3>3 DEF CacheInv
  <2>3. SegmentInv
    BY <1>1, <1>2, SegmentConstants DEF SegmentInv, Disjoint
  <2>4. Spans(segments, 0, 0) /\ Spans(<<>>, 0, 0)
    BY <1>1, <1>2, SpansOne, SpansNone
  <2>5. SpansInv
    BY <2>4 DEF SpansInv, Kept
  <2> QED BY <2>2, <2>3, <2>5 DEF VariableInv
<1> QED BY <1>4, <1>5, <1>6, <1>7, <1>8 DEF IndexingInv

-----------------------------------------------------------------------------
(* Failures. *)

LEMMA Failed ==
  ASSUME IndexingInv, IndexFails, ignored' = ignored, stage' \in Stages,
         IsTable(inBody'), Right(inBody', ignored), IsTable(inFooter'), Right(inFooter', ignored)
  PROVE  IndexingInv'
<1> USE DEF IndexFails
<1>0. config' = config
  OBVIOUS
<1>1. /\ Element' = Element /\ CBEElement' = CBEElement /\ VBEElement' = VBEElement
      /\ IsCBE' = IsCBE
  BY <1>0, SameConfig
<1>2. Open' = Open
  BY <1>1 DEF Open
<1>3. TypeInv'
  BY <1>1 DEF IndexingInv, TypeInv
<1>4. RightInv'
  BY <1>2 DEF IndexingInv, RightInv
<1>5. IsCBE => (\A e \in Element' : requireUpdates'[e] = {}) /\ ConstantInv'
  BY <1>1 DEF IndexingInv, ConstantInv, FirstUnits
<1>6. ~IsCBE => CacheInv' /\ SegmentInv'
  BY <1>1, <1>2 DEF IndexingInv, VariableInv, CacheInv, SegmentInv, HoldsPosition
<1>7. indexStatus' # "ok"
  OBVIOUS
<1> QED BY <1>1, <1>3, <1>4, <1>5, <1>6, <1>7 DEF IndexingInv, VariableInv

LEMMA FailedHere ==
  ASSUME IndexingInv, IndexFails, UNCHANGED <<ignored, inBody, inFooter, stage>>
  PROVE  IndexingInv'
  BY Failed DEF IndexingInv, TypeInv, RightInv

-----------------------------------------------------------------------------
(* Entries that are added, completed and given up. *)

(* A step that changes nothing but entries which are still in the cache, or *)
(* whether they are required.                                               *)
LEMMA EntriesChange ==
  ASSUME IndexingInv, ~IsCBE,
         UNCHANGED <<config, firstSegment, segments, flushed, duration, haveWritten,
                     indexStatus, output, inBody, inFooter, stage>>,
         stage = "writing", ignored \subseteq ignored', cache' \in [Element -> Range(cache')],
         requireUpdates' \in [Element -> SUBSET Nat], lastAdded' \in [Element -> Int],
         Right(segments, Open'), CacheInv'
  PROVE  IndexingInv'
<1>0. config' = config
  OBVIOUS
<1>1. /\ Element' = Element /\ IsCBE' = IsCBE /\ RepeatIndexTable' = RepeatIndexTable
      /\ InputDuration' = InputDuration
  BY <1>0, SameConfig
<1>2. TypeInv'
  BY <1>1 DEF IndexingInv, TypeInv
<1>3. RightInv'
  BY MoreOpen DEF IndexingInv, RightInv
<1>4. SegmentInv'
  BY DEF IndexingInv, VariableInv, SegmentInv
<1>5. indexStatus' = "ok" => SpansInv'
  BY <1>1 DEF IndexingInv, VariableInv, SpansInv, Kept
<1>6. stage' = "writing"
  OBVIOUS
<1> QED BY <1>1, <1>2, <1>3, <1>4, <1>5, <1>6 DEF IndexingInv, VariableInv

LEMMA AddEntryInv ==
  ASSUME IndexingInv, NEW e \in VBEElement, NEW p, p = lastAdded[e] + 1, NEW shown,
         NEW canStart, NEW require \in BOOLEAN,
         AddIndexEntry(e, p, shown, canStart, require), stage = "writing",
         UNCHANGED <<ignored, inBody, inFooter, stage>>,
         e # Picture => Shown(shown) = Default /\ ~require,
         e = Picture => /\ p < config.editUnits
                        /\ require \/ Shown(shown) = Final[p]
                        /\ canStart = (p \in GOPStart)
  PROVE  IndexingInv'
<1>0. CASE IndexFails
  BY <1>0, FailedHere
<1>1. CASE ~IndexFails
  <2> DEFINE entry == CacheEntry(shown, canStart)
  <2>1. /\ ~IsCBE
        /\ cache' = [cache EXCEPT ![e] = CacheWith(e, p, entry)]
        /\ requireUpdates' = [requireUpdates EXCEPT ![e] = IF require THEN @ \cup {p} ELSE @]
        /\ lastAdded' = [lastAdded EXCEPT ![e] = IF p > @ THEN p ELSE @]
        /\ UNCHANGED <<config, firstSegment, segments, flushed, duration, haveWritten,
                       indexStatus, output>>
    BY <1>1 DEF AddIndexEntry
  <2>2. /\ Shown(entry) = Shown(shown) /\ entry.canStart = canStart
    BY DEF Shown, CacheEntry
  <2> HIDE DEF entry
  <2>3. /\ e \in Element /\ e \notin CBEElement /\ lastAdded \in [Element -> Int]
        /\ cache \in [Element -> Range(cache)] /\ requireUpdates \in [Element -> SUBSET Nat]
        /\ duration \in Nat
    BY DEF VBEElement, IndexingInv, TypeInv
  <2>4. /\ lastAdded[e] >= duration - 1 /\ DOMAIN cache[e] = duration .. lastAdded[e]
        /\ lastAdded[e] \in Int
    BY <2>1, <2>3 DEF IndexingInv, VariableInv, CacheInv
  <2>5. p \in Nat /\ p >= duration /\ p > lastAdded[e] /\ p \notin DOMAIN cache[e]
        /\ duration .. p = (duration .. lastAdded[e]) \cup {p}
    BY <2>3, <2>4
  <2>6. /\ DOMAIN cache' = Element /\ cache' \in [Element -> Range(cache')]
        /\ \A d \in Element : d # e => cache'[d] = cache[d]
        /\ cache'[e] = CacheWith(e, p, entry)
    BY <2>1, <2>3 DEF Range
  <2>7. /\ DOMAIN cache'[e] = duration .. p
        /\ cache'[e][p] = entry
        /\ \A q \in DOMAIN cache[e] : cache'[e][q] = cache[e][q]
    BY <2>4, <2>5, <2>6 DEF CacheWith
  <2>8. /\ lastAdded' \in [Element -> Int] /\ lastAdded'[e] = p
        /\ \A d \in Element : d # e => lastAdded'[d] = lastAdded[d]
    BY <2>1, <2>3, <2>5
  <2>9. /\ requireUpdates' \in [Element -> SUBSET Nat]
        /\ requireUpdates'[e] = IF require THEN requireUpdates[e] \cup {p} ELSE requireUpdates[e]
        /\ \A d \in Element : d # e => requireUpdates'[d] = requireUpdates[d]
    BY <2>1, <2>3, <2>5
  <2>10. /\ Element' = Element /\ CBEElement' = CBEElement /\ VBEElement' = VBEElement
    BY <2>1, SameConfig
  <2>11. Open \subseteq Open' /\ (require => p \in Open')
    BY <2>3, <2>9, <2>10 DEF Open
  <2>12. Right(segments, Open')
    BY <2>11, MoreOpen DEF IndexingInv, RightInv
  <2>13. CacheInv'
    <3>1. CacheInv
      BY <2>1 DEF IndexingInv, VariableInv
    <3>2. \A d \in Element' : d = Picture \/ requireUpdates'[d] = {}
      <4>1. e # Picture => requireUpdates'[e] = {}
        BY <2>3, <2>9, <3>1 DEF CacheInv
      <4> QED BY <2>9, <2>10, <3>1, <4>1 DEF CacheInv
    <3>3. \A d \in CBEElement' : DOMAIN cache'[d] = {} /\ requireUpdates'[d] = {}
      <4>1. \A d \in CBEElement : d \in Element /\ d # e
        BY <2>3, ConfigFacts DEF IndexingInv, TypeInv
      <4> QED BY <2>6, <2>9, <2>10, <3>1, <4>1 DEF CacheInv
    <3>4. ASSUME NEW d \in VBEElement, d # e
          PROVE  /\ lastAdded'[d] = lastAdded[d] /\ cache'[d] = cache[d]
                 /\ requireUpdates'[d] = requireUpdates[d]
      BY <2>6, <2>8, <2>9, <3>4 DEF VBEElement
    <3>5. ASSUME NEW d \in VBEElement'
          PROVE  lastAdded'[d] >= duration' - 1 /\ DOMAIN cache'[d] = duration' .. lastAdded'[d]
      <4>1. CASE d = e
        BY <4>1, <2>1, <2>3, <2>5, <2>7, <2>8
      <4>2. CASE d # e
        BY <4>2, <2>1, <2>10, <3>1, <3>4 DEF CacheInv
      <4> QED BY <4>1, <4>2
    <3>6. ASSUME NEW d \in VBEElement', d # Picture, NEW q \in DOMAIN cache'[d]
          PROVE  Shown(cache'[d][q]) = Default
      <4>1. CASE d = e /\ q = p
        BY <4>1, <2>2, <2>7, <3>6
      <4>2. CASE d = e /\ q # p
        <5>1. q \in DOMAIN cache[e]
          BY <4>2, <2>4, <2>5, <2>7, <3>6
        <5> QED BY <4>2, <5>1, <2>7, <3>1, <3>6 DEF CacheInv
      <4>3. CASE d # e
        BY <4>3, <2>10, <3>1, <3>4, <3>6 DEF CacheInv
      <4> QED BY <4>1, <4>2, <4>3
    <3>7. ASSUME NEW q \in DOMAIN cache'[Picture], Picture \in VBEElement
          PROVE  /\ q \notin Open' => Shown(cache'[Picture][q]) = Final[q]
                 /\ cache'[Picture][q].canStart = (q \in GOPStart)
      <4>1. CASE Picture = e /\ q = p
        <5>1. cache'[Picture][q] = entry
          BY <4>1, <2>7
        <5>2. entry.canStart = (q \in GOPStart)
          BY <4>1, <2>2
        <5>3. q \notin Open' => Shown(entry) = Final[q]
          BY <4>1, <2>2, <2>11
        <5> QED BY <5>1, <5>2, <5>3
      <4>2. CASE ~(Picture = e /\ q = p)
        <5>1. q \in DOMAIN cache[Picture] /\ cache'[Picture][q] = cache[Picture][q]
          <6>1. CASE Picture = e
            BY <6>1, <4>2, <2>4, <2>5, <2>7, <3>7
          <6>2. CASE Picture # e
            BY <6>2, <3>4, <3>7
          <6> QED BY <6>1, <6>2
        <5>2. /\ q \notin Open => Shown(cache[Picture][q]) = Final[q]
              /\ cache[Picture][q].canStart = (q \in GOPStart)
          BY <5>1, <3>1, <3>7 DEF CacheInv
        <5>3. q \notin Open' => q \notin Open
          BY <2>11
        <5> QED BY ONLY <5>1, <5>2, <5>3
      <4> QED BY <4>1, <4>2
    <3>8. ASSUME NEW q \in requireUpdates'[Picture], Picture \in VBEElement
          PROVE  /\ q <= lastAdded'[Picture]
                 /\ q < duration => \E i \in 1 .. Len(segments) : HoldsPosition(i, q)
      <4>0. Picture \in Element
        BY <3>8 DEF VBEElement
      <4>1. CASE q \in requireUpdates[Picture]
        <5>1. q <= lastAdded[Picture]
              /\ (q < duration => \E i \in 1 .. Len(segments) : HoldsPosition(i, q))
          BY <4>1, <3>1, <3>8 DEF CacheInv
        <5>2. lastAdded[Picture] <= lastAdded'[Picture]
          BY <4>0, <2>3, <2>5, <2>8
        <5>3. q \in Nat /\ lastAdded[Picture] \in Int /\ lastAdded'[Picture] \in Int
          BY <4>0, <4>1, <2>3, <2>8
        <5> QED BY <5>1, <5>2, <5>3
      <4>2. CASE q \notin requireUpdates[Picture]
        <5>1. Picture = e /\ q = p
          BY <4>0, <4>2, <2>9, <3>8
        <5> QED BY <5>1, <2>3, <2>5, <2>8
      <4> QED BY <4>1, <4>2
    <3>9. Picture \in VBEElement =>
            lastAdded'[Picture] < config'.editUnits
      <4>1. CASE Picture = e
        BY <4>1, <2>1, <2>8
      <4>2. CASE Picture # e
        BY <4>2, <2>1, <3>1, <3>4 DEF CacheInv
      <4> QED BY <4>1, <4>2
    <3>10. \A i, q : HoldsPosition(i, q)' <=> HoldsPosition(i, q)
      BY <2>1 DEF HoldsPosition
    <3>11. duration' = duration /\ segments' = segments
      BY <2>1
    <3> QED BY <2>10, <3>2, <3>3, <3>5, <3>6, <3>7, <3>8, <3>9, <3>10, <3>11, Zenon DEF CacheInv
  <2>14. ignored \subseteq ignored'
    OBVIOUS
  <2> QED BY <2>1, <2>6, <2>8, <2>9, <2>12, <2>13, <2>14, EntriesChange
<1> QED BY <1>0, <1>1

LEMMA WriteDataFrameInv ==
  ASSUME IndexingInv, NEW e \in Element, WriteDataFrame(e)
  PROVE  IndexingInv'
<1> DEFINE shown == [temporal |-> 0, key |-> DefaultKey]
<1>1. /\ stage = "writing" /\ e \in VBEElement /\ e # Picture
      /\ AddIndexEntry(e, lastAdded[e] + 1, shown, TRUE, FALSE)
      /\ UNCHANGED <<ignored, inBody, inFooter, stage>>
  BY DEF WriteDataFrame, Running
<1>2. Shown(shown) = Default
  BY DEF Shown, Default
<1> HIDE DEF shown
<1> QED BY <1>1, <1>2, AddEntryInv

LEMMA ShownIsAll ==
  ASSUME NEW entry \in [temporal : Int, key : Nat]
  PROVE  /\ Shown(entry) = entry
         /\ \A c : Shown(CacheEntry(entry, c)) = entry
         /\ \A o, s : Shown(SegmentEntry(entry, o, s)) = entry
  BY DEF Shown, CacheEntry, SegmentEntry

LEMMA FinalType ==
  ASSUME IndexingInv, ~IsCBE, NEW p \in Nat, p < config.editUnits
  PROVE  Final[p] \in [temporal : Int, key : Nat]
<1>1. config.editUnits \in Nat /\ \A q \in 0 .. (config.editUnits - 1) :
        Final[q] \in [temporal : Int, key : Nat]
  BY ConfigFacts DEF IndexingInv, TypeInv
<1>2. p \in 0 .. (config.editUnits - 1)
  BY <1>1
<1> QED BY <1>1, <1>2

LEMMA PictureNext ==
  ASSUME IndexingInv, Picture \in VBEElement
  PROVE  ~IsCBE /\ Picture \in Element /\ lastAdded[Picture] + 1 \in Nat
<1>1. ~IsCBE /\ Picture \in Element
  BY ConfigFacts DEF VBEElement, IndexingInv, TypeInv
<1>2. lastAdded[Picture] \in Int /\ duration \in Nat /\ lastAdded[Picture] >= duration - 1
  BY <1>1 DEF IndexingInv, TypeInv, VariableInv, CacheInv
<1> QED BY <1>1, <1>2

LEMMA WritePictureFrameInv ==
  ASSUME IndexingInv, NEW complete \in BOOLEAN, NEW key \in {0, 1},
         WritePictureFrame(complete, key)
  PROVE  IndexingInv'
<1> DEFINE p == lastAdded[Picture] + 1
           shown == IF complete THEN Final[p] ELSE IncompleteEntry(p, key)
<1>1. /\ stage = "writing" /\ Picture \in VBEElement /\ p < config.editUnits
      /\ AddIndexEntry(Picture, p, shown, p \in GOPStart, ~complete)
      /\ UNCHANGED <<ignored, inBody, inFooter, stage>>
  BY DEF WritePictureFrame, Running
<1>2. ~complete \/ Shown(shown) = Final[p]
  <2>1. p \in Nat /\ ~IsCBE
    BY <1>1, PictureNext
  <2>2. Shown(Final[p]) = Final[p]
    BY <1>1, <2>1, FinalType, ShownIsAll
  <2> QED BY <2>2
<1>3. p = lastAdded[Picture] + 1
  OBVIOUS
<1> HIDE DEF p, shown
<1>4. PICK require \in BOOLEAN : require = ~complete
  <2>1. (~complete) \in {TRUE, FALSE}
    OBVIOUS
  <2> QED BY <2>1
<1>5. PICK canStart : canStart = (p \in GOPStart)
  OBVIOUS
<1>6. AddIndexEntry(Picture, p, shown, canStart, require)
  BY <1>1, <1>4, <1>5
<1>7. require \/ Shown(shown) = Final[p]
  BY <1>2, <1>4
<1> QED BY <1>1, <1>3, <1>5, <1>6, <1>7, AddEntryInv

LEMMA GiveUpPreviousGOPInv ==
  ASSUME IndexingInv, GiveUpPreviousGOP
  PROVE  IndexingInv'
<1>1. /\ stage = "writing" /\ Picture \in VBEElement
      /\ ignored' = ignored \cup requireUpdates[Picture]
      /\ requireUpdates' = [e \in Element |-> IF e \in {Picture} THEN {} ELSE requireUpdates[e]]
      /\ UNCHANGED <<config, cache, lastAdded, firstSegment, segments, flushed, duration,
                     haveWritten, indexStatus, output, inBody, inFooter, stage>>
  BY DEF GiveUpPreviousGOP, IgnoreRequiredUpdates, Running
<1>2. ~IsCBE /\ Picture \in Element
  BY <1>1, PictureNext
<1>3. requireUpdates \in [Element -> SUBSET Nat] /\ TypeInv /\ CacheInv
  BY <1>2 DEF IndexingInv, TypeInv, VariableInv
<1>4. /\ Element' = Element /\ CBEElement' = CBEElement /\ VBEElement' = VBEElement
  BY <1>1, SameConfig
<1>5. \A e \in Element : requireUpdates[e] = {} \/ e = Picture
  BY <1>3 DEF CacheInv
<1>6. requireUpdates' \in [Element -> SUBSET Nat] /\ \A e \in Element : requireUpdates'[e] = {}
  BY <1>1, <1>3, <1>5
<1>7. Open' = Open
  <2>1. Open' = ignored'
    BY <1>4, <1>6 DEF Open
  <2>2. Open = ignored \cup requireUpdates[Picture]
    BY <1>2, <1>5 DEF Open
  <2> QED BY <2>1, <2>2, <1>1
<1>8. CacheInv'
  <2>1. \A e \in CBEElement : e \in Element
    BY <1>3, ConfigFacts DEF TypeInv
  <2>2. ASSUME NEW e \in VBEElement
        PROVE  /\ e \in Element /\ requireUpdates'[e] = {}
               /\ lastAdded'[e] = lastAdded[e] /\ cache'[e] = cache[e] /\ duration' = duration
               /\ config' = config
    BY <1>1, <1>6 DEF VBEElement
  <2>3. \A e \in VBEElement :
          /\ lastAdded'[e] >= duration' - 1 /\ DOMAIN cache'[e] = duration' .. lastAdded'[e]
          /\ e # Picture => \A p \in DOMAIN cache'[e] : Shown(cache'[e][p]) = Default
    BY <2>2, <1>3 DEF CacheInv
  <2>4. \A e \in VBEElement : e = Picture =>
          /\ lastAdded'[e] < config'.editUnits
          /\ \A p \in DOMAIN cache'[e] :
               /\ p \notin Open' => Shown(cache'[e][p]) = Final[p]
               /\ cache'[e][p].canStart = (p \in GOPStart)
          /\ \A p \in requireUpdates'[e] : FALSE
    <3> SUFFICES ASSUME NEW e \in VBEElement, e = Picture
                 PROVE  /\ lastAdded'[e] < config'.editUnits
                        /\ \A p \in DOMAIN cache'[e] :
                             /\ p \notin Open' => Shown(cache'[e][p]) = Final[p]
                             /\ cache'[e][p].canStart = (p \in GOPStart)
                        /\ \A p \in requireUpdates'[e] : FALSE
      BY Zenon
    <3>1. /\ lastAdded[e] < config.editUnits
          /\ \A p \in DOMAIN cache[e] : p \notin Open => Shown(cache[e][p]) = Final[p]
          /\ \A p \in DOMAIN cache[e] : cache[e][p].canStart = (p \in GOPStart)
      BY <1>3, Zenon DEF CacheInv
    <3>2. /\ lastAdded'[e] = lastAdded[e] /\ cache'[e] = cache[e] /\ config' = config
          /\ requireUpdates'[e] = {}
      BY <2>2
    <3> QED BY ONLY <3>1, <3>2, <1>7
  <2>5. \A e \in CBEElement : DOMAIN cache'[e] = {} /\ requireUpdates'[e] = {}
    BY <1>1, <1>3, <1>6, <2>1 DEF CacheInv
  <2>6. \A e \in Element : requireUpdates'[e] = {}
    BY <1>6
  <2> QED BY ONLY <1>4, <2>3, <2>4, <2>5, <2>6, Zenon DEF CacheInv
<1>9. Right(segments, Open') /\ ignored \subseteq ignored'
  BY <1>1, <1>7 DEF IndexingInv, RightInv
<1> QED BY <1>1, <1>2, <1>3, <1>4, <1>6, <1>8, <1>9, EntriesChange DEF TypeInv

(* A step that completes an entry in a segment.                             *)
LEMMA SegmentsChange ==
  ASSUME IndexingInv, ~IsCBE,
         UNCHANGED <<config, firstSegment, cache, lastAdded, flushed, duration, haveWritten,
                     indexStatus, output, ignored, inBody, inFooter, stage>>,
         stage = "writing", requireUpdates' \in [Element -> SUBSET Nat],
         IsTable(segments'), SamePlaces(segments, segments'),
         \A i \in 1 .. Len(segments) : Len(segments'[i].entries) = Len(segments[i].entries),
         Right(segments', Open'), CacheInv'
  PROVE  IndexingInv'
<1>0. config' = config
  OBVIOUS
<1>1. /\ Element' = Element /\ IsCBE' = IsCBE /\ RepeatIndexTable' = RepeatIndexTable
      /\ InputDuration' = InputDuration
  BY <1>0, SameConfig
<1>2. TypeInv'
  BY <1>1 DEF IndexingInv, TypeInv
<1>3. RightInv'
  BY DEF IndexingInv, RightInv
<1>4. /\ Len(segments') = Len(segments)
      /\ \A i \in 1 .. Len(segments) : /\ segments'[i].start = segments[i].start
                                       /\ segments'[i].duration = segments[i].duration
  BY DEF SamePlaces
<1>5. SegmentInv'
  <2>1. SegmentInv
    BY DEF IndexingInv, VariableInv
  <2>2. Disjoint(segments')
    BY <1>4, <2>1 DEF SegmentInv, Disjoint
  <2>3. \A i \in 1 .. Len(segments) : i > 1 => i - 1 \in 1 .. Len(segments)
    BY TableLen DEF IndexingInv, TypeInv
  <2> QED BY <1>4, <2>1, <2>2, <2>3 DEF SegmentInv
<1>6. indexStatus' = "ok" => SpansInv'
  <2>1. \A first, end : Spans(segments, first, end) => Spans(segments', first, end)
    BY SamePlacesSpans DEF IndexingInv, TypeInv
  <2> QED BY <1>1, <2>1 DEF IndexingInv, VariableInv, SpansInv, Kept
<1>7. stage' = "writing"
  OBVIOUS
<1> QED BY <1>1, <1>2, <1>3, <1>5, <1>6, <1>7 DEF IndexingInv, VariableInv

(* A position is in one segment only.                                       *)
LEMMA HeldOnce ==
  ASSUME TypeInv, SegmentInv, NEW i \in 1 .. Len(segments), NEW j \in 1 .. Len(segments),
         NEW p \in Nat, HoldsPosition(i, p), HoldsPosition(j, p)
  PROVE  i = j
<1>1. IsSegment(segments[i]) /\ IsSegment(segments[j])
  BY DEF TypeInv, IsTable
<1>2. PICK a \in Nat, b \in Nat, c \in Nat, d \in Nat :
        /\ a = segments[i].start /\ b = segments[i].duration
        /\ c = segments[j].start /\ d = segments[j].duration
  BY <1>1 DEF IsSegment
<1>3. a <= p /\ p < a + b /\ c <= p /\ p < c + d
  BY <1>2 DEF HoldsPosition
<1>4. (i < j => a + b <= c) /\ (j < i => c + d <= a)
  BY <1>2 DEF SegmentInv, Disjoint
<1> QED BY <1>3, <1>4

(* The completed entry leaves the rest of what the cache knows.             *)
LEMMA CompletedCache ==
  ASSUME IndexingInv, ~IsCBE, Picture \in VBEElement, NEW p \in requireUpdates[Picture],
         config' = config, lastAdded' = lastAdded, duration' = duration, ignored' = ignored,
         requireUpdates' = [requireUpdates EXCEPT ![Picture] = StillRequired(Picture, p)],
         DOMAIN cache' = Element, \A e \in Element : e # Picture => cache'[e] = cache[e],
         DOMAIN cache'[Picture] = DOMAIN cache[Picture],
         \A q \in DOMAIN cache[Picture] :
           /\ cache'[Picture][q].canStart = cache[Picture][q].canStart
           /\ IF q = p THEN Shown(cache'[Picture][q]) = Final[q]
                       ELSE cache'[Picture][q] = cache[Picture][q],
         SamePlaces(segments, segments')
  PROVE  /\ CacheInv' /\ requireUpdates' \in [Element -> SUBSET Nat]
         /\ \A q : q # p /\ q \notin Open' => q \notin Open
<1>1. TypeInv /\ CacheInv /\ Picture \in Element /\ requireUpdates \in [Element -> SUBSET Nat]
  BY DEF IndexingInv, TypeInv, VariableInv, VBEElement
<1>2. /\ Element' = Element /\ CBEElement' = CBEElement /\ VBEElement' = VBEElement
  BY SameConfig
<1>3. /\ requireUpdates' \in [Element -> SUBSET Nat]
      /\ requireUpdates'[Picture] = requireUpdates[Picture] \ {p}
      /\ \A e \in Element : e # Picture => requireUpdates'[e] = requireUpdates[e]
  BY <1>1 DEF StillRequired
<1>4. \A q : q # p /\ q \notin Open' => q \notin Open
  <2> SUFFICES ASSUME NEW q, q # p, q \notin Open' PROVE q \notin Open
    OBVIOUS
  <2>1. q \notin ignored /\ \A e \in Element : q \notin requireUpdates'[e]
    BY <1>2 DEF Open
  <2>2. \A e \in Element : q \notin requireUpdates[e]
    BY <2>1, <1>3
  <2> QED BY <2>1, <2>2 DEF Open
<1>5. \A e \in Element : e = Picture \/ requireUpdates'[e] = {}
  BY <1>1, <1>3 DEF CacheInv
<1>6. ASSUME NEW e \in CBEElement PROVE DOMAIN cache'[e] = {} /\ requireUpdates'[e] = {}
  <2>1. e \in Element /\ e # Picture
    BY <1>1, ConfigFacts DEF TypeInv, VBEElement
  <2>2. DOMAIN cache[e] = {} /\ requireUpdates[e] = {}
    BY <1>1 DEF CacheInv
  <2> QED BY <1>3, <2>1, <2>2
<1>7. ASSUME NEW e \in VBEElement
      PROVE  /\ lastAdded'[e] >= duration' - 1 /\ DOMAIN cache'[e] = duration' .. lastAdded'[e]
             /\ e # Picture => \A q \in DOMAIN cache'[e] : Shown(cache'[e][q]) = Default
  <2>1. e \in Element
    BY DEF VBEElement
  <2>2. /\ lastAdded[e] >= duration - 1 /\ DOMAIN cache[e] = duration .. lastAdded[e]
        /\ e # Picture => \A q \in DOMAIN cache[e] : Shown(cache[e][q]) = Default
    BY <1>1 DEF CacheInv
  <2>3. DOMAIN cache'[e] = DOMAIN cache[e] /\ (e # Picture => cache'[e] = cache[e])
    BY <2>1
  <2> QED BY <2>2, <2>3
<1>8. lastAdded'[Picture] < config'.editUnits
  BY <1>1 DEF CacheInv
<1>9. ASSUME NEW q \in DOMAIN cache'[Picture]
      PROVE  /\ q \notin Open' => Shown(cache'[Picture][q]) = Final[q]
             /\ cache'[Picture][q].canStart = (q \in GOPStart)
  <2>1. /\ q \in DOMAIN cache[Picture]
        /\ cache'[Picture][q].canStart = cache[Picture][q].canStart
    OBVIOUS
  <2>2. /\ q \notin Open => Shown(cache[Picture][q]) = Final[q]
        /\ cache[Picture][q].canStart = (q \in GOPStart)
    BY <2>1, <1>1 DEF CacheInv
  <2>3. q \notin Open' => Shown(cache'[Picture][q]) = Final[q]
    BY <1>4, <2>1, <2>2
  <2> QED BY ONLY <2>1, <2>2, <2>3
<1>10. ASSUME NEW q \in requireUpdates'[Picture]
       PROVE  /\ q <= lastAdded'[Picture]
              /\ q < duration' => \E i \in 1 .. Len(segments') : HoldsPosition(i, q)'
  <2>1. q \in requireUpdates[Picture]
    BY <1>3
  <2>2. /\ q <= lastAdded[Picture]
        /\ q < duration => \E i \in 1 .. Len(segments) : HoldsPosition(i, q)
    BY <1>1, <2>1 DEF CacheInv
  <2>3. \A i \in 1 .. Len(segments) : HoldsPosition(i, q) => HoldsPosition(i, q)'
    BY DEF HoldsPosition, SamePlaces
  <2>4. Len(segments') = Len(segments)
    BY DEF SamePlaces
  <2> QED BY <2>2, <2>3, <2>4
<1>11. CacheInv'
  BY ONLY <1>2, <1>5, <1>6, <1>7, <1>8, <1>9, <1>10, Zenon DEF CacheInv
<1> QED BY <1>3, <1>4, <1>11

(* Either way of completing the entry makes it what it shall be.            *)
LEMMA CompletesPicture ==
  ASSUME IndexingInv, GOPInv, NEW p \in Nat, CompleteEntry(p)
  PROVE  /\ UpdateIndexEntry(Picture, p, Final[p]) /\ ~IsCBE
         /\ Final[p] \in [temporal : Int, key : Nat]
<1>1. /\ Picture \in VBEElement /\ p \in requireUpdates[Picture]
      /\ CompletePictureEntry(Picture, p)
  BY DEF CompleteEntry
<1>2. ~IsCBE /\ Picture \in Element
  BY <1>1, PictureNext
<1>3. TypeInv /\ CacheInv /\ SegmentInv /\ duration \in Nat /\ lastAdded[Picture] \in Int
      /\ config.editUnits \in Nat /\ IsTable(segments)
  BY <1>2, ConfigFacts DEF IndexingInv, VariableInv, TypeInv
<1>4. /\ p <= lastAdded[Picture] /\ lastAdded[Picture] < config.editUnits
      /\ p < duration => \E i \in 1 .. Len(segments) : HoldsPosition(i, p)
      /\ DOMAIN cache[Picture] = duration .. lastAdded[Picture]
  BY <1>1, <1>3 DEF CacheInv
<1>5. Final[p] \in [temporal : Int, key : Nat]
  BY <1>2, <1>3, <1>4, FinalType
<1>6. CASE ~config.mpeg2
  BY <1>1, <1>2, <1>5, <1>6 DEF CompletePictureEntry
<1>7. CASE config.mpeg2
  <2>1. KeysInv
    BY <1>2, <1>7 DEF GOPInv
  <2>2. p >= duration => cache[Picture][p].key = Final[p].key
    BY <1>3, <1>4, <2>1 DEF KeysInv
  <2>3. ~(p >= duration) => \E i \in DOMAIN segments : HoldsPosition(i, p)
    BY <1>3, <1>4, TableLen
  <2>4. \A i \in DOMAIN segments : HoldsPosition(i, p) =>
          segments[i].entries[p - segments[i].start + 1].key = Final[p].key
    <3>1. \A i \in 1 .. Len(segments) : Len(segments[i].entries) = segments[i].duration
      BY <1>3 DEF SegmentInv
    <3> QED BY <1>3, <2>1, <3>1, KnownKey DEF KeysInv
  <2>5. UpdateTemporalOffset(Picture, p, Final[p].temporal)
    BY <1>1, <1>7 DEF CompletePictureEntry
  <2>6. Final[p] = [temporal |-> Final[p].temporal, key |-> Final[p].key]
    BY <1>5
  <2>7. UpdateIndexEntry(Picture, p, Final[p])
    BY ONLY <2>2, <2>3, <2>4, <2>5, <2>6, OffsetCompletes
  <2> QED BY <1>2, <1>5, <2>7
<1> QED BY <1>6, <1>7

LEMMA CompleteEntryInv ==
  ASSUME IndexingInv, GOPInv, NEW p \in Nat, CompleteEntry(p)
  PROVE  IndexingInv'
<1>1. /\ stage = "writing" /\ Picture \in VBEElement /\ p \in requireUpdates[Picture]
      /\ UpdateIndexEntry(Picture, p, Final[p])
      /\ UNCHANGED <<ignored, inBody, inFooter, stage>>
  BY CompletesPicture DEF CompleteEntry, Running
<1>2. ~IsCBE /\ Picture \in Element
  BY <1>1, PictureNext
<1>3. TypeInv /\ CacheInv /\ SegmentInv /\ duration \in Nat /\ lastAdded[Picture] \in Int
      /\ config.editUnits \in Nat
  BY <1>2, ConfigFacts DEF IndexingInv, VariableInv, TypeInv
<1>4. /\ p <= lastAdded[Picture] /\ lastAdded[Picture] < config.editUnits
      /\ p < duration => \E i \in 1 .. Len(segments) : HoldsPosition(i, p)
  BY <1>1, <1>3 DEF CacheInv
<1>5. Final[p] \in [temporal : Int, key : Nat]
  BY <1>2, <1>3, <1>4, FinalType
<1>6. DOMAIN segments = 1 .. Len(segments)
  BY <1>3, TableLen DEF TypeInv
<1>7. CASE IndexFails
  BY <1>1, <1>7, FailedHere
<1>8. CASE ~IndexFails /\ p >= duration
  <2>1. /\ p \in DOMAIN cache[Picture]
        /\ cache' = [cache EXCEPT ![Picture][p] = CacheEntry(Final[p], @.canStart)]
        /\ requireUpdates' = [requireUpdates EXCEPT ![Picture] = StillRequired(Picture, p)]
        /\ UNCHANGED <<config, lastAdded, firstSegment, segments, flushed, duration,
                       haveWritten, indexStatus, output>>
    BY <1>1, <1>8 DEF UpdateIndexEntry
  <2>2. cache \in [Element -> Range(cache)]
    BY <1>3 DEF TypeInv
  <2>3. /\ DOMAIN cache' = Element /\ cache' \in [Element -> Range(cache')]
        /\ \A e \in Element : e # Picture => cache'[e] = cache[e]
        /\ cache'[Picture] = [cache[Picture] EXCEPT
             ![p] = CacheEntry(Final[p], cache[Picture][p].canStart)]
    BY <1>2, <2>1, <2>2 DEF Range
  <2>4. PICK new : new = CacheEntry(Final[p], cache[Picture][p].canStart)
    OBVIOUS
  <2>5. new.canStart = cache[Picture][p].canStart /\ Shown(new) = Final[p]
    BY <1>5, <2>4, ShownIsAll DEF CacheEntry
  <2>6. /\ DOMAIN cache'[Picture] = DOMAIN cache[Picture]
        /\ \A q \in DOMAIN cache[Picture] :
             cache'[Picture][q] = IF q = p THEN new ELSE cache[Picture][q]
    <3>1. PICK f : f = cache[Picture]
      OBVIOUS
    <3>2. DOMAIN f = duration .. lastAdded[Picture]
      BY <1>1, <1>3, <3>1 DEF CacheInv
    <3>3. cache'[Picture] = [f EXCEPT ![p] = new]
      BY <2>3, <2>4, <3>1
    <3>4. /\ DOMAIN [f EXCEPT ![p] = new] = DOMAIN f
          /\ \A q \in DOMAIN f : [f EXCEPT ![p] = new][q] = IF q = p THEN new ELSE f[q]
      BY <2>1, <3>1
    <3> QED BY ONLY <3>1, <3>3, <3>4
  <2>7. SamePlaces(segments, segments')
    BY <2>1 DEF SamePlaces
  <2>8. \A q \in DOMAIN cache[Picture] :
           /\ cache'[Picture][q].canStart = cache[Picture][q].canStart
           /\ IF q = p THEN Shown(cache'[Picture][q]) = Final[q]
                       ELSE cache'[Picture][q] = cache[Picture][q]
    BY <2>5, <2>6
  <2>9. /\ CacheInv' /\ requireUpdates' \in [Element -> SUBSET Nat]
        /\ \A q : q # p /\ q \notin Open' => q \notin Open
    <3>1. config' = config /\ lastAdded' = lastAdded /\ duration' = duration /\ ignored' = ignored
      BY <1>1, <2>1
    <3> QED BY <1>1, <1>2, <2>1, <2>3, <2>6, <2>7, <2>8, <3>1, CompletedCache
  <2>10. Right(segments, Open')
    <3>1. SUFFICES ASSUME NEW i \in 1 .. Len(segments), NEW k \in 1 .. Len(segments[i].entries),
                          NEW q, q = segments[i].start + k - 1, q \notin Open'
                   PROVE  Shown(segments[i].entries[k]) = Final[q]
      BY DEF Right
    <3>2. IsSegment(segments[i]) /\ Len(segments[i].entries) = segments[i].duration
          /\ segments[i].start + segments[i].duration <= duration
      BY <1>3 DEF TypeInv, IsTable, SegmentInv
    <3>3. PICK s \in Nat, d \in Nat : s = segments[i].start /\ d = segments[i].duration
      BY <3>2 DEF IsSegment
    <3>4. q = s + k - 1 /\ k \in 1 .. d /\ s + d <= duration
      BY <3>1, <3>2, <3>3
    <3>5. q # p
      BY <1>3, <1>8, <3>4
    <3>6. q \notin Open
      BY <2>9, <3>1, <3>5
    <3> QED BY <3>1, <3>6 DEF IndexingInv, RightInv, Right
  <2>11. lastAdded' \in [Element -> Int] /\ ignored \subseteq ignored'
    BY <1>1, <1>3, <2>1 DEF TypeInv
  <2> QED BY <1>1, <1>2, <2>1, <2>3, <2>9, <2>10, <2>11, EntriesChange
<1>9. CASE ~IndexFails /\ p < duration
  <2>1. \E i \in DOMAIN segments : HoldsPosition(i, p)
    BY <1>4, <1>6, <1>9
  <2>2. /\ \E i \in DOMAIN segments :
             /\ HoldsPosition(i, p)
             /\ segments' = [segments EXCEPT
                  ![i].entries[p - segments[i].start + 1] =
                    SegmentEntry(Final[p], @.offset, @.slices)]
        /\ requireUpdates' = [requireUpdates EXCEPT ![Picture] = StillRequired(Picture, p)]
        /\ UNCHANGED <<config, cache, lastAdded, firstSegment, flushed, duration,
                       haveWritten, indexStatus, output>>
    <3>1. ~(p >= duration)
      BY <1>3, <1>9
    <3> QED BY <1>1, <1>9, <2>1, <3>1, Zenon DEF UpdateIndexEntry
  <2>3. PICK i \in 1 .. Len(segments) :
          /\ HoldsPosition(i, p)
          /\ segments' = [segments EXCEPT
               ![i].entries[p - segments[i].start + 1] =
                 SegmentEntry(Final[p], @.offset, @.slices)]
    BY <1>6, <2>2
  <2>4. IsSegment(segments[i]) /\ Len(segments[i].entries) = segments[i].duration
    BY <1>3 DEF TypeInv, IsTable, SegmentInv
  <2>5. PICK k \in 1 .. Len(segments[i].entries) : k = p - segments[i].start + 1
    <3>1. PICK s \in Nat, d \in Nat : s = segments[i].start /\ d = segments[i].duration
      BY <2>4 DEF IsSegment
    <3>2. p - s + 1 \in 1 .. d
      BY <2>3, <3>1 DEF HoldsPosition
    <3> QED BY <2>4, <3>1, <3>2
  <2>6. PICK new : new = SegmentEntry(Final[p], segments[i].entries[k].offset,
                                      segments[i].entries[k].slices)
    OBVIOUS
  <2>7. Shown(new) = Final[p]
    BY <1>5, <2>6, ShownIsAll
  <2>8. segments' = [segments EXCEPT ![i].entries[k] = new]
    BY ONLY <2>3, <2>5, <2>6
  <2>9. /\ IsTable(segments') /\ SamePlaces(segments, segments')
        /\ \A j \in 1 .. Len(segments) :
             Len(segments'[j].entries) = Len(segments[j].entries)
        /\ \A j \in 1 .. Len(segments) : \A n \in 1 .. Len(segments[j].entries) :
             segments'[j].entries[n] = IF j = i /\ n = k THEN new ELSE segments[j].entries[n]
    <3>1. IsTable(segments)
      BY <1>3 DEF TypeInv
    <3>2. PICK list, out : list = segments /\ out = CompletedList(list, i, k, new)
      OBVIOUS
    <3>3. IsTable(list) /\ i \in 1 .. Len(list) /\ k \in 1 .. Len(list[i].entries)
      BY <3>1, <3>2
    <3>4. /\ IsTable(out) /\ SamePlaces(list, out)
          /\ \A j \in 1 .. Len(list) : Len(out[j].entries) = Len(list[j].entries)
          /\ \A j \in 1 .. Len(list) : \A n \in 1 .. Len(list[j].entries) :
               out[j].entries[n] = IF j = i /\ n = k THEN new ELSE list[j].entries[n]
      BY ONLY <3>2, <3>3, SegmentCompleted
    <3>5. segments' = out
      BY <2>8, <3>2 DEF CompletedList
    <3> QED BY ONLY <3>2, <3>4, <3>5
  <2>10. /\ CacheInv' /\ requireUpdates' \in [Element -> SUBSET Nat]
         /\ \A q : q # p /\ q \notin Open' => q \notin Open
    <3>1. config' = config /\ lastAdded' = lastAdded /\ duration' = duration /\ ignored' = ignored
      BY <1>1, <2>2
    <3>2. /\ DOMAIN cache' = Element /\ cache' = cache
          /\ \A q \in DOMAIN cache[Picture] : q # p
      <4>1. DOMAIN cache[Picture] = duration .. lastAdded[Picture]
        BY <1>1, <1>3 DEF CacheInv
      <4>2. DOMAIN cache = Element /\ cache' = cache
        BY <1>3, <2>2 DEF TypeInv
      <4> QED BY <1>3, <1>9, <4>1, <4>2
    <3> QED BY <1>1, <1>2, <2>2, <2>9, <3>1, <3>2, CompletedCache
  <2>11. Right(segments', Open')
    <3>1. /\ Len(segments') = Len(segments)
          /\ \A j \in 1 .. Len(segments) : segments'[j].start = segments[j].start
      BY <2>9 DEF SamePlaces
    <3>2. SUFFICES ASSUME NEW j \in 1 .. Len(segments), NEW n \in 1 .. Len(segments[j].entries),
                          NEW q, q = segments[j].start + n - 1, q \notin Open'
                   PROVE  Shown(segments'[j].entries[n]) = Final[q]
      <4>1. PICK list, open : list = segments' /\ open = Open'
        OBVIOUS
      <4>2. /\ Len(list) = Len(segments)
            /\ \A j \in 1 .. Len(segments) : /\ list[j].start = segments[j].start
                                            /\ Len(list[j].entries) = Len(segments[j].entries)
        BY ONLY <2>9, <3>1, <4>1
      <4>3. \A j \in 1 .. Len(list) : \A n \in 1 .. Len(list[j].entries) :
              LET q == list[j].start + n - 1 IN
              q \notin open => Shown(list[j].entries[n]) = Final[q]
        <5>1. ASSUME NEW j \in 1 .. Len(list), NEW n \in 1 .. Len(list[j].entries),
                     list[j].start + n - 1 \notin open
              PROVE  Shown(list[j].entries[n]) = Final[list[j].start + n - 1]
          <6>1. j \in 1 .. Len(segments) /\ list[j].start = segments[j].start
            BY ONLY <4>2, <5>1
          <6>2. n \in 1 .. Len(segments[j].entries)
            BY ONLY <4>2, <5>1, <6>1
          <6> QED BY <4>1, <5>1, <6>1, <6>2
        <5> QED BY ONLY <5>1
      <4> QED BY <4>1, <4>3 DEF Right
    <3>3. IsSegment(segments[j]) /\ Len(segments[j].entries) = segments[j].duration
      BY <1>3 DEF TypeInv, IsTable, SegmentInv
    <3>4. PICK s \in Nat, d \in Nat : s = segments[j].start /\ d = segments[j].duration
      BY <3>3 DEF IsSegment
    <3>5. q = s + n - 1 /\ n \in 1 .. d /\ q \in Nat
      <4>1. q = s + n - 1 /\ n \in 1 .. d
        BY ONLY <3>2, <3>3, <3>4, n \in 1 .. Len(segments[j].entries)
      <4> QED BY ONLY <4>1, s \in Nat, d \in Nat
    <3>6. CASE j = i /\ n = k
      <4>1. q = p
        <5>1. k = p - s + 1 /\ n = k /\ k \in Int
          BY <2>5, <3>4, <3>5, <3>6
        <5> QED BY ONLY <5>1, <3>5, p \in Nat, s \in Nat
      <4> QED BY <2>7, <2>9, <3>6, <4>1
    <3>7. CASE ~(j = i /\ n = k)
      <4>1. q # p
        <5>1. SUFFICES ASSUME q = p PROVE FALSE
          OBVIOUS
        <5>2. HoldsPosition(j, p)
          BY <3>4, <3>5, <5>1 DEF HoldsPosition
        <5>3. j = i
          BY <1>3, <2>3, <5>2, HeldOnce
        <5>4. n = k
          BY <2>5, <3>4, <3>5, <5>1, <5>3
        <5> QED BY <3>7, <5>3, <5>4
      <4>2. q \notin Open
        BY <2>10, <3>2, <4>1
      <4>3. Shown(segments[j].entries[n]) = Final[q]
        BY <3>2, <4>2 DEF IndexingInv, RightInv, Right
      <4> QED BY <2>9, <3>7, <4>3
    <3> QED BY <3>6, <3>7
  <2> QED BY <1>1, <1>2, <2>2, <2>9, <2>10, <2>11, SegmentsChange
<1> QED BY <1>3, <1>7, <1>8, <1>9

-----------------------------------------------------------------------------
(* An edit unit of a variable table. *)

(* All but one of the elements have cached the default entry, so that the   *)
(* edit unit gets what the picture has cached.                              *)
LEMMA EntryIsPictures ==
  ASSUME IndexingInv, ~IsCBE, HaveUnit
  PROVE  /\ Picture \in VBEElement /\ duration \in DOMAIN cache[Picture]
         /\ EntryForUnit = Shown(cache[Picture][duration])
         /\ duration \notin Open => Shown(cache[Picture][duration]) = Final[duration]
<1>1. Picture \in VBEElement /\ Picture \in Element /\ CacheInv /\ duration \in Nat
      /\ lastAdded[Picture] \in Int /\ lastAdded[Picture] >= duration
  BY ConfigFacts DEF IndexingInv, TypeInv, VariableInv, VBEElement, HaveUnit
<1>2. DOMAIN cache[Picture] = duration .. lastAdded[Picture]
  BY <1>1 DEF CacheInv
<1>3. duration \in DOMAIN cache[Picture]
  BY <1>1, <1>2
<1>4. duration \notin Open => Shown(cache[Picture][duration]) = Final[duration]
  BY <1>1, <1>3 DEF CacheInv
<1>5. PICK c : c = Shown(cache[Picture][duration])
  OBVIOUS
<1>6. c \in CachedEntries
  BY <1>1, <1>3, <1>5 DEF CachedEntries
<1>7. ASSUME NEW x \in NonDefaultEntries PROVE x = c
  <2>1. PICK e \in Element : duration \in DOMAIN cache[e] /\ x = Shown(cache[e][duration])
    BY DEF NonDefaultEntries, CachedEntries
  <2>2. ~IsDefault(x)
    BY DEF NonDefaultEntries
  <2>3. IsDefault(Default)
    BY DEF IsDefault, Default
  <2>4. e \notin CBEElement
    BY <1>1, <2>1 DEF CacheInv
  <2>5. e \in VBEElement
    BY <2>4 DEF VBEElement
  <2>6. e # Picture => x = Default
    BY <1>1, <2>1, <2>5 DEF CacheInv
  <2> QED BY <1>5, <2>1, <2>2, <2>3, <2>6
<1>8. CASE NonDefaultEntries = {}
  <2>1. IsDefault(c)
    BY <1>6, <1>8 DEF NonDefaultEntries
  <2>2. c = [temporal |-> 0, key |-> DefaultKey]
    BY <1>5, <2>1 DEF IsDefault, Shown
  <2> QED BY <1>1, <1>3, <1>4, <1>5, <1>8, <2>2 DEF EntryForUnit
<1>9. CASE NonDefaultEntries # {}
  <2>1. NonDefaultEntries = {c}
    BY <1>7, <1>9
  <2>2. EntryForUnit = CHOOSE entry \in {c} : TRUE
    BY <2>1 DEF EntryForUnit
  <2> QED BY <1>1, <1>3, <1>4, <1>5, <2>2
<1> QED BY <1>8, <1>9

(* new is the list old with the edit unit duration at the end of its last   *)
(* segment, the n-th, which may be a new one.                               *)
Taken(old, new, n) ==
  /\ IsTable(new) /\ n \in Nat \ {0} /\ Len(new) = n /\ Len(old) \in {n - 1, n}
  /\ \A i \in 1 .. (n - 1) : new[i] = old[i]
  /\ new[n].duration \in 1 .. MaxSegmentEntries
  /\ new[n].start + new[n].duration = duration + 1
  /\ Len(new[n].entries) = new[n].duration
  /\ duration \notin Open => Shown(new[n].entries[new[n].duration]) = Final[duration]
  /\ Len(old) = n => /\ new[n].start = old[n].start
                     /\ new[n].duration = old[n].duration + 1
                     /\ \A k \in 1 .. old[n].duration :
                          new[n].entries[k] = old[n].entries[k]
  /\ Len(old) = n - 1 => /\ new[n].start = duration /\ new[n].duration = 1
                         /\ n > 1 => /\ old[n - 1].duration > 0
                                     /\ \/ duration \in GOPStart
                                        \/ old[n - 1].duration = MaxSegmentEntries

LEMMA UnitTaken ==
  ASSUME IndexingInv, ~IsCBE, Running, HaveUnit, NEW sizes, UpdateVBEIndex(sizes)
  PROVE  /\ \E n : Taken(segments, segments', n)
         /\ \A m \in Nat : Spans(segments, m, duration) => Spans(segments', m, duration + 1)
         /\ LET s == segments'[Len(segments')] IN
              s.entries[s.duration] = SegmentEntry(EntryForUnit, streamOffset, SliceStarts(sizes))
<1>1. /\ TypeInv /\ IsTable(segments) /\ SegmentInv /\ duration \in Nat
      /\ MaxSegmentEntries \in Nat \ {0} /\ GOPSizeGuess \in 0 .. (MaxSegmentEntries - 1)
  BY SegmentConstants DEF IndexingInv, TypeInv, VariableInv
<1>2. PICK m \in Nat : Spans(segments, m, duration)
  BY <1>1 DEF IndexingInv, VariableInv, Running, SpansInv
<1>3. DOMAIN segments = 1 .. Len(segments) /\ Len(segments) \in Nat
      /\ (segments = <<>> <=> Len(segments) = 0)
  BY <1>1, TableLen
<1>4. \A o, ss : duration \notin Open => Shown(SegmentEntry(EntryForUnit, o, ss)) = Final[duration]
  <2>1. PICK c : EntryForUnit = Shown(c) /\ (duration \notin Open => Shown(c) = Final[duration])
    BY EntryIsPictures
  <2>2. \A o, ss : Shown(SegmentEntry(Shown(c), o, ss)) = Shown(c)
    BY DEF Shown, SegmentEntry
  <2> QED BY <2>1, <2>2
<1>5. CASE RequireNewSegment
  <2>1. PICK s : s = AddToSegment(NewSegment(duration), sizes)
    OBVIOUS
  <2>2. segments' = Append(segments, s)
    BY <1>5, <2>1 DEF UpdateVBEIndex
  <2>3. /\ IsSegment(s) /\ s.start = duration /\ s.duration = 1 /\ Len(s.entries) = 1
        /\ duration \notin Open => Shown(s.entries[1]) = Final[duration]
        /\ s.entries[1] = SegmentEntry(EntryForUnit, streamOffset, SliceStarts(sizes))
    <3>1. /\ IsSegment(NewSegment(duration)) /\ NewSegment(duration).start = duration
          /\ NewSegment(duration).duration = 0 /\ Len(NewSegment(duration).entries) = 0
      BY <1>1, NewSegmentIs
    <3>2. PICK z : z = NewSegment(duration)
      OBVIOUS
    <3>3. /\ IsSegment(s) /\ s.start = z.start /\ s.duration = z.duration + 1
          /\ Len(s.entries) = Len(z.entries) + 1
          /\ s.entries[Len(z.entries) + 1] =
               SegmentEntry(EntryForUnit, streamOffset, SliceStarts(sizes))
      <4>1. IsSegment(z) /\ s = AddToSegment(z, sizes)
        BY <2>1, <3>1, <3>2
      <4> QED BY ONLY <4>1, AddedSegment
    <3>4. z.start = duration /\ z.duration = 0 /\ Len(z.entries) = 0
      BY <3>1, <3>2
    <3>5. /\ IsSegment(s) /\ s.start = duration /\ s.duration = 1 /\ Len(s.entries) = 1
          /\ s.entries[1] = SegmentEntry(EntryForUnit, streamOffset, SliceStarts(sizes))
      BY ONLY <3>3, <3>4
    <3> QED BY <1>4, <3>5
  <2>4. /\ IsTable(segments') /\ Len(segments') = Len(segments) + 1
        /\ \A i \in 1 .. Len(segments) : segments'[i] = segments[i]
        /\ segments'[Len(segments) + 1] = s
    BY <1>1, <2>2, <2>3, TableAppend
  <2>5. \A k \in Nat : Spans(segments, k, duration) => Spans(segments', k, duration + 1)
    BY <1>1, <2>2, <2>3, SpansAppend
  <2>6. PICK n \in Nat \ {0} : n = Len(segments) + 1
    BY <1>3
  <2>7. ASSUME n > 1
        PROVE  /\ segments[n - 1].duration > 0
               /\ \/ duration \in GOPStart
                  \/ segments[n - 1].duration = MaxSegmentEntries
    <3>1. segments # <<>> /\ n - 1 = Len(segments) /\ n - 1 \in 1 .. Len(segments)
      BY <1>3, <2>6, <2>7
    <3>2. segments[n - 1].duration <= MaxSegmentEntries /\ segments[n - 1].duration \in Nat
      BY <1>1, <3>1 DEF SegmentInv, IsTable, IsSegment
    <3>0. segments[n - 1].duration > 0
      BY <1>1, <1>5, <3>1, <3>2 DEF RequireNewSegment
    <3> SUFFICES ASSUME segments[n - 1].duration # MaxSegmentEntries
                 PROVE  duration \in GOPStart
      BY <3>0
    <3>3. CanStartPartition
      BY <1>1, <1>5, <3>1, <3>2 DEF RequireNewSegment
    <3>4. Picture \in VBEElement /\ duration \in DOMAIN cache[Picture] /\ CacheInv
      BY EntryIsPictures DEF IndexingInv, VariableInv
    <3>5. cache[Picture][duration].canStart
      BY <3>3, <3>4 DEF CanStartPartition, VBEElement
    <3>6. cache[Picture][duration].canStart = (duration \in GOPStart)
      BY <3>4 DEF CacheInv
    <3> QED BY <3>5, <3>6
  <2>8. Taken(segments, segments', n)
    <3>1. n - 1 = Len(segments) /\ Len(segments) # n /\ Len(segments') = n /\ segments'[n] = s
      <4>1. Len(segments) \in Nat
        BY <1>3
      <4>2. n - 1 = Len(segments) /\ Len(segments) # n
        BY ONLY <2>6, <4>1
      <4> QED BY ONLY <2>4, <2>6, <4>2
    <3>2. \A i \in 1 .. (n - 1) : segments'[i] = segments[i]
      BY <2>4, <3>1
    <3>3. 1 \in 1 .. MaxSegmentEntries
      BY <1>1
    <3>4. /\ segments'[n].start = duration /\ segments'[n].duration = 1
          /\ Len(segments'[n].entries) = 1
          /\ duration \notin Open => Shown(segments'[n].entries[1]) = Final[duration]
      BY <2>3, <3>1
    <3> QED BY <2>4, <2>6, <2>7, <3>1, <3>2, <3>3, <3>4 DEF Taken
  <2>9. segments'[Len(segments')] = s /\ s.duration = 1
    BY <2>3, <2>4
  <2> QED BY <2>3, <2>5, <2>8, <2>9
<1>6. CASE ~RequireNewSegment
  <2>1. PICK n \in 1 .. Len(segments) : n = Len(segments)
    <3>1. segments # <<>>
      BY <1>6 DEF RequireNewSegment
    <3>2. PICK l : l = Len(segments)
      OBVIOUS
    <3>3. l \in Nat /\ l # 0
      BY <1>3, <3>1, <3>2
    <3>4. l \in 1 .. l
      BY ONLY <3>3
    <3> QED BY ONLY <3>2, <3>4
  <2>2. PICK r, s : r = segments[n] /\ s = AddToSegment(r, sizes)
    OBVIOUS
  <2>3. segments' = [segments EXCEPT ![n] = s]
    BY <1>6, <2>1, <2>2 DEF UpdateVBEIndex
  <2>4. IsSegment(r) /\ Len(r.entries) = r.duration /\ r.duration <= MaxSegmentEntries
        /\ r.duration < MaxSegmentEntries
    <3>1. IsSegment(r)
      BY <1>1, <2>2 DEF IsTable
    <3>2. Len(r.entries) = r.duration /\ r.duration <= MaxSegmentEntries
      BY <1>1, <2>2 DEF SegmentInv
    <3>3. ~(r.duration >= MaxSegmentEntries)
      BY <1>6, <2>1, <2>2 DEF RequireNewSegment
    <3>4. r.duration \in Nat
      BY <3>1 DEF IsSegment
    <3> QED BY <1>1, <3>1, <3>2, <3>3, <3>4
  <2>5. /\ IsSegment(s) /\ s.start = r.start /\ s.duration = r.duration + 1
        /\ Len(s.entries) = r.duration + 1
        /\ \A k \in 1 .. r.duration : s.entries[k] = r.entries[k]
        /\ duration \notin Open => Shown(s.entries[r.duration + 1]) = Final[duration]
        /\ s.entries[r.duration + 1] = SegmentEntry(EntryForUnit, streamOffset, SliceStarts(sizes))
    BY <1>4, <2>2, <2>4, AddedSegment
  <2>6. /\ IsTable(segments') /\ Len(segments') = Len(segments)
        /\ \A i \in 1 .. Len(segments) : segments'[i] = IF i = n THEN s ELSE segments[i]
    <3>1. IsTable(segments) /\ IsSegment(s)
      BY <1>1, <2>5
    <3>2. /\ IsTable([segments EXCEPT ![n] = s])
          /\ Len([segments EXCEPT ![n] = s]) = Len(segments)
          /\ \A i \in 1 .. Len(segments) :
               [segments EXCEPT ![n] = s][i] = IF i = n THEN s ELSE segments[i]
      BY ONLY <3>1, n \in 1 .. Len(segments), TableExcept
    <3> QED BY ONLY <2>3, <3>2
  <2>7. \A k \in Nat : Spans(segments, k, duration) => Spans(segments', k, duration + 1)
    <3>1. segments # <<>> /\ s.start = segments[Len(segments)].start
          /\ s.duration = segments[Len(segments)].duration + 1
      BY <1>3, <2>1, <2>2, <2>5
    <3>2. segments' = [segments EXCEPT ![Len(segments)] = s]
      BY <2>1, <2>3
    <3> QED BY <1>1, <2>5, <3>1, <3>2, SpansGrow
  <2>8. r.start + r.duration = duration
    <3>1. segments # <<>>
      BY <1>3, <2>1
    <3> QED BY <1>1, <1>2, <2>1, <2>2, <3>1, SpansSome
  <2>9. Taken(segments, segments', n)
    <3>1. PICK a \in Nat, d \in Nat : a = r.start /\ d = r.duration
      BY <2>4 DEF IsSegment
    <3>2. n \in Nat \ {0} /\ Len(segments) # n - 1 /\ Len(segments') = n /\ segments'[n] = s
          /\ Len(segments) = n
      <4>1. Len(segments) \in Nat /\ Len(segments) = n
        BY <1>3, <2>1
      <4>2. n \in Nat \ {0} /\ Len(segments) # n - 1
        BY ONLY <4>1, n \in 1 .. Len(segments)
      <4>3. Len(segments') = n /\ segments'[n] = s
        BY ONLY <2>6, <4>1, n \in 1 .. Len(segments)
      <4> QED BY ONLY <4>1, <4>2, <4>3
    <3>3. \A i \in 1 .. (n - 1) : segments'[i] = segments[i]
      <4>1. \A i \in 1 .. (n - 1) : i \in 1 .. Len(segments) /\ i # n
        BY <3>2
      <4> QED BY <2>6, <4>1
    <3>4. d + 1 \in 1 .. MaxSegmentEntries /\ a + (d + 1) = duration + 1
      <4>1. /\ duration \in Nat /\ MaxSegmentEntries \in Nat
            /\ d < MaxSegmentEntries /\ a + d = duration
        BY <1>1, <2>4, <2>8, <3>1
      <4> QED BY ONLY <4>1, a \in Nat, d \in Nat
    <3>5. s.start = a /\ s.duration = d + 1 /\ Len(s.entries) = d + 1
      BY <2>5, <3>1
    <3>6. duration \notin Open => Shown(s.entries[d + 1]) = Final[duration]
      BY <2>5, <3>1
    <3>7. \A k \in 1 .. segments[n].duration : s.entries[k] = segments[n].entries[k]
      BY <2>2, <2>5
    <3>8. s.start = segments[n].start /\ s.duration = segments[n].duration + 1
      BY <2>2, <2>5
    <3> QED BY <2>6, <3>2, <3>3, <3>4, <3>5, <3>6, <3>7, <3>8 DEF Taken
  <2>10. segments'[Len(segments')] = s /\ s.duration = r.duration + 1
    BY <2>1, <2>5, <2>6
  <2> QED BY <2>5, <2>7, <2>9, <2>10
<1> QED BY <1>5, <1>6

(* The edit unit that is taken keeps the parts of the invariant.            *)
LEMMA TakenSegments ==
  ASSUME IndexingInv, ~IsCBE, NEW n, Taken(segments, segments', n), duration' = duration + 1
  PROVE  SegmentInv'
<1>1. /\ IsTable(segments) /\ IsTable(segments') /\ SegmentInv /\ duration \in Nat
      /\ MaxSegmentEntries \in Nat \ {0} /\ n \in Nat \ {0}
      /\ Len(segments') = n /\ Len(segments) \in {n - 1, n}
      /\ n \in 1 .. n /\ \A i \in 1 .. n : i = n \/ i \in 1 .. (n - 1)
  BY SegmentConstants DEF IndexingInv, TypeInv, VariableInv, Taken
<1>2. ASSUME NEW i \in 1 .. (n - 1)
      PROVE  i \in 1 .. Len(segments) /\ i \in 1 .. n /\ segments'[i] = segments[i]
  BY <1>1 DEF Taken
<1>3. ASSUME NEW i \in 1 .. Len(segments)
      PROVE  \E a \in Nat, d \in Nat :
               /\ a = segments[i].start /\ d = segments[i].duration
               /\ a + d <= duration /\ d <= MaxSegmentEntries
               /\ d > 0 \/ (i = 1 /\ duration = 0)
               /\ Len(segments[i].entries) = d
  BY <1>1 DEF IsTable, IsSegment, SegmentInv
<1>4. PICK b \in Nat, c \in Nat : b = segments'[n].start /\ c = segments'[n].duration
  BY <1>1 DEF IsTable, IsSegment
<1>5. /\ c \in 1 .. MaxSegmentEntries /\ b + c = duration + 1
      /\ Len(segments'[n].entries) = c
      /\ Len(segments) = n => b = segments[n].start /\ c = segments[n].duration + 1
      /\ Len(segments) = n - 1 =>
           /\ b = duration /\ c = 1
           /\ n > 1 => /\ segments[n - 1].duration > 0
                       /\ duration \in GOPStart \/ segments[n - 1].duration = MaxSegmentEntries
  BY <1>4 DEF Taken
<1>6. ASSUME NEW i \in 1 .. n
      PROVE  /\ Len(segments'[i].entries) = segments'[i].duration
             /\ segments'[i].start + segments'[i].duration <= duration + 1
             /\ segments'[i].duration > 0 /\ segments'[i].duration <= MaxSegmentEntries
  <2>1. CASE i = n
    BY <1>1, <1>4, <1>5, <2>1
  <2>2. CASE i # n
    <3>1. i \in 1 .. (n - 1)
      BY <1>1, <2>2
    <3>2. i \in 1 .. Len(segments) /\ segments'[i] = segments[i]
      BY <1>2, <3>1
    <3>3. PICK a \in Nat, d \in Nat :
               /\ a = segments[i].start /\ d = segments[i].duration
               /\ a + d <= duration /\ d <= MaxSegmentEntries
               /\ d > 0 \/ (i = 1 /\ duration = 0)
               /\ Len(segments[i].entries) = d
      BY <1>3, <3>2
    <3>4. d > 0
      <4> SUFFICES ASSUME i = 1, duration = 0, d = 0 PROVE FALSE
        BY <3>3
      <4>1. Len(segments) = n - 1
        <5> SUFFICES ASSUME Len(segments) = n PROVE FALSE
          BY <1>1
        <5>1. n \in 1 .. Len(segments) /\ n # 1
          BY <1>1, <2>2
        <5> QED BY <1>3, <5>1
      <4>2. n > 1 /\ n - 1 \in 1 .. Len(segments)
        BY <1>1, <3>1, <4>1
      <4>3. segments[n - 1].duration > 0
        BY <1>5, <4>1, <4>2
      <4> QED BY <1>3, <4>2, <4>3
    <3>5. d > 0 /\ d <= MaxSegmentEntries /\ a + d <= duration + 1
      <4>1. duration \in Nat
        BY <1>1
      <4> QED BY ONLY <3>3, <3>4, <4>1, a \in Nat, d \in Nat
    <3> QED BY <3>2, <3>3, <3>5
  <2> QED BY <2>1, <2>2
<1>7. ASSUME NEW i \in 1 .. n, i > 1
      PROVE  segments'[i].start \in GOPStart \/ segments'[i - 1].duration = MaxSegmentEntries
  <2>1. i - 1 \in 1 .. (n - 1) /\ segments'[i - 1] = segments[i - 1]
    BY <1>1, <1>2, <1>7
  <2>2. CASE i = n /\ Len(segments) = n - 1
    BY <1>4, <1>5, <1>7, <2>1, <2>2
  <2>3. CASE ~(i = n /\ Len(segments) = n - 1)
    <3>1. i \in 1 .. Len(segments) /\ segments'[i].start = segments[i].start
      BY <1>1, <1>2, <1>4, <1>5, <2>3
    <3> QED BY <1>1, <1>7, <2>1, <3>1 DEF SegmentInv
  <2> QED BY <2>2, <2>3
<1>8. ASSUME NEW i \in 1 .. n, NEW j \in 1 .. n, i < j
      PROVE  segments'[i].start + segments'[i].duration <= segments'[j].start
  <2>1. i \in 1 .. (n - 1) /\ i \in 1 .. Len(segments) /\ segments'[i] = segments[i]
    <3>1. i \in 1 .. (n - 1)
      BY <1>1, <1>8
    <3> QED BY <1>2, <3>1
  <2>2. CASE j = n /\ Len(segments) = n - 1
    <3>1. segments[i].start + segments[i].duration <= duration
      BY <1>3, <2>1
    <3> QED BY <1>4, <1>5, <2>1, <2>2, <3>1
  <2>3. CASE ~(j = n /\ Len(segments) = n - 1)
    <3>1. j \in 1 .. Len(segments) /\ segments'[j].start = segments[j].start
      BY <1>1, <1>2, <1>4, <1>5, <2>3
    <3>2. segments[i].start + segments[i].duration <= segments[j].start
      BY <1>1, <1>8, <2>1, <3>1 DEF SegmentInv, Disjoint
    <3> QED BY <2>1, <3>1, <3>2
  <2> QED BY <2>2, <2>3
<1>9. Disjoint(segments')
  BY <1>1, <1>8 DEF Disjoint
<1> QED BY <1>1, <1>6, <1>7, <1>9, duration' = duration + 1 DEF SegmentInv

LEMMA TakenRight ==
  ASSUME IndexingInv, ~IsCBE, NEW n, Taken(segments, segments', n)
  PROVE  Right(segments', Open)
<1>1. /\ IsTable(segments) /\ IsTable(segments') /\ SegmentInv /\ duration \in Nat
      /\ n \in Nat \ {0} /\ Len(segments') = n /\ Len(segments) \in {n - 1, n}
      /\ Right(segments, Open)
  BY DEF IndexingInv, TypeInv, VariableInv, RightInv, Taken
<1>2. SUFFICES ASSUME NEW i \in 1 .. n, NEW k \in 1 .. Len(segments'[i].entries),
                      NEW p, p = segments'[i].start + k - 1, p \notin Open
               PROVE  Shown(segments'[i].entries[k]) = Final[p]
  BY <1>1 DEF Right
<1>3. CASE i # n
  <2>1. i \in 1 .. (n - 1)
    BY <1>1, <1>3
  <2>2. segments'[i] = segments[i] /\ i \in 1 .. Len(segments)
    BY <1>1, <2>1 DEF Taken
  <2>3. k \in 1 .. Len(segments[i].entries) /\ p = segments[i].start + k - 1
    BY <1>2, <2>2
  <2>4. Right(segments, Open) /\ p \notin Open
    BY <1>1, <1>2
  <2>5. segments[i].start + k - 1 \notin Open =>
          Shown(segments[i].entries[k]) = Final[segments[i].start + k - 1]
    BY ONLY <2>2, <2>3, <2>4, Zenon DEF Right
  <2> QED BY <2>2, <2>3, <2>4, <2>5
<1>4. CASE i = n
  <2>0. n \in 1 .. n /\ IsSegment(segments'[n])
    <3>1. n \in 1 .. n
      BY <1>1
    <3> QED BY <1>1, <3>1 DEF IsTable
  <2>1. PICK b \in Nat, c \in Nat : b = segments'[n].start /\ c = segments'[n].duration
    BY <2>0 DEF IsSegment
  <2>2. /\ c \in 1 .. MaxSegmentEntries /\ b + c = duration + 1
        /\ Len(segments'[n].entries) = c
    BY <2>1 DEF Taken
  <2>3. k \in 1 .. c /\ p = b + k - 1
    BY <1>2, <1>4, <2>1, <2>2
  <2>4. CASE k = c
    <3>1. p = duration
      BY ONLY <1>1, <2>2, <2>3, <2>4, b \in Nat, c \in Nat
    <3> QED BY <1>2, <1>4, <2>1, <2>4, <3>1 DEF Taken
  <2>5. CASE k # c
    <3>1. Len(segments) = n /\ n \in 1 .. Len(segments)
      <4>1. Len(segments) = n - 1 => c = 1
        BY <2>1 DEF Taken
      <4>2. Len(segments) = n
        BY <1>1, <2>3, <2>5, <4>1
      <4> QED BY <1>1, <4>2
    <3>2. /\ b = segments[n].start /\ c = segments[n].duration + 1
          /\ \A l \in 1 .. segments[n].duration : segments'[n].entries[l] = segments[n].entries[l]
      BY <2>1, <3>1 DEF Taken
    <3>3. PICK d \in Nat : d = segments[n].duration /\ Len(segments[n].entries) = d
      BY <1>1, <3>1 DEF IsTable, IsSegment, SegmentInv
    <3>4. k \in 1 .. d
      BY <2>3, <2>5, <3>2, <3>3
    <3>5. Shown(segments[n].entries[k]) = Final[p]
      BY <1>1, <1>2, <2>3, <3>1, <3>2, <3>3, <3>4 DEF Right
    <3> QED BY <1>4, <3>2, <3>3, <3>4, <3>5
  <2> QED BY <2>4, <2>5
<1> QED BY <1>3, <1>4

LEMMA FirstTaken ==
  ASSUME NEW k \in Nat, NEW l \in Int, NEW d \in Nat, d = k + 1
  PROVE  (k .. l) \ {k} = d .. l
<1>1. ASSUME NEW x \in k .. l, x # k PROVE x \in d .. l
  BY <1>1
<1>2. ASSUME NEW x \in d .. l PROVE x \in k .. l /\ x # k
  OBVIOUS
<1> QED BY <1>1, <1>2, Zenon

LEMMA TakenCache ==
  ASSUME IndexingInv, ~IsCBE, HaveUnit, NEW n, Taken(segments, segments', n),
         duration' = duration + 1, UNCHANGED <<config, requireUpdates, lastAdded, ignored>>,
         cache' = [e \in Element |-> [p \in NotTaken(e) |-> cache[e][p]]]
  PROVE  CacheInv'
<1>0. config' = config /\ requireUpdates' = requireUpdates /\ lastAdded' = lastAdded
  OBVIOUS
<1>1. /\ IsTable(segments) /\ IsTable(segments') /\ CacheInv /\ duration \in Nat
      /\ lastAdded \in [Element -> Int] /\ requireUpdates \in [Element -> SUBSET Nat]
      /\ CBEElement \subseteq Element /\ Picture \in VBEElement
  BY ConfigFacts DEF IndexingInv, TypeInv, VariableInv, Taken
<1>2. /\ Element' = Element /\ CBEElement' = CBEElement /\ VBEElement' = VBEElement
  BY <1>0, SameConfig
<1>3. Open' = Open
  BY <1>0, <1>2 DEF Open
<1>4. ASSUME NEW e \in Element
      PROVE  /\ DOMAIN cache'[e] = DOMAIN cache[e] \ {duration}
             /\ \A p \in DOMAIN cache'[e] : p \in DOMAIN cache[e] /\ cache'[e][p] = cache[e][p]
  <2>1. cache'[e] = [p \in NotTaken(e) |-> cache[e][p]]
    OBVIOUS
  <2> QED BY <2>1 DEF NotTaken
<1>5. \A e \in Element : e = Picture \/ requireUpdates'[e] = {}
  BY <1>0, <1>1 DEF CacheInv
<1>6. ASSUME NEW e \in CBEElement PROVE DOMAIN cache'[e] = {} /\ requireUpdates'[e] = {}
  <2>1. e \in Element /\ DOMAIN cache[e] = {} /\ requireUpdates[e] = {}
    BY <1>1 DEF CacheInv
  <2> QED BY <1>0, <1>4, <2>1
<1>7. ASSUME NEW e \in VBEElement
      PROVE  /\ lastAdded'[e] >= duration' - 1 /\ DOMAIN cache'[e] = duration' .. lastAdded'[e]
             /\ e # Picture => \A q \in DOMAIN cache'[e] : Shown(cache'[e][q]) = Default
  <2>1. e \in Element
    BY DEF VBEElement
  <2>2. /\ DOMAIN cache[e] = duration .. lastAdded[e]
        /\ e # Picture => \A q \in DOMAIN cache[e] : Shown(cache[e][q]) = Default
    BY <1>1 DEF CacheInv
  <2>3. PICK l \in Int : l = lastAdded[e] /\ l >= duration
    BY <1>1, <2>1 DEF HaveUnit
  <2>4. PICK d \in Nat : d = duration + 1
    BY <1>1
  <2>5. lastAdded'[e] >= duration' - 1 /\ DOMAIN cache'[e] = duration' .. lastAdded'[e]
    <3>1. l >= d - 1
      BY <1>1, <2>3, <2>4
    <3>2. (duration .. l) \ {duration} = d .. l
      BY <1>1, <2>4, FirstTaken
    <3>3. DOMAIN cache'[e] = d .. l
      BY <1>4, <2>1, <2>2, <2>3, <3>2
    <3>4. lastAdded'[e] = l
      BY <1>0, <2>3
    <3>5. duration' = d
      BY <2>4
    <3> QED BY ONLY <3>1, <3>3, <3>4, <3>5
  <2>6. e # Picture => \A q \in DOMAIN cache'[e] : Shown(cache'[e][q]) = Default
    BY <1>4, <2>1, <2>2
  <2> QED BY <2>5, <2>6
<1>8. lastAdded'[Picture] < config'.editUnits
  BY <1>0, <1>1 DEF CacheInv
<1>9. ASSUME NEW q \in DOMAIN cache'[Picture]
      PROVE  /\ q \notin Open' => Shown(cache'[Picture][q]) = Final[q]
             /\ cache'[Picture][q].canStart = (q \in GOPStart)
  <2>1. q \in DOMAIN cache[Picture] /\ cache'[Picture][q] = cache[Picture][q]
    BY <1>1, <1>4 DEF VBEElement
  <2>2. q \notin Open => Shown(cache[Picture][q]) = Final[q]
    BY <1>1, <2>1 DEF CacheInv
  <2>3. cache[Picture][q].canStart = (q \in GOPStart)
    BY <1>1, <2>1, Zenon DEF CacheInv
  <2> QED BY ONLY <1>3, <2>1, <2>2, <2>3
<1>10. ASSUME NEW q \in requireUpdates'[Picture]
       PROVE  /\ q <= lastAdded'[Picture]
              /\ q < duration' => \E i \in 1 .. Len(segments') : HoldsPosition(i, q)'
  <2>1. q \in requireUpdates[Picture] /\ q \in Nat
    BY <1>0, <1>1 DEF VBEElement
  <2>2. /\ q <= lastAdded[Picture]
        /\ q < duration => \E i \in 1 .. Len(segments) : HoldsPosition(i, q)
    BY <1>1, <2>1 DEF CacheInv
  <2>3. /\ n \in Nat \ {0} /\ Len(segments') = n /\ Len(segments) \in {n - 1, n}
    BY DEF Taken
  <2>4. PICK b \in Nat, c \in Nat : b = segments'[n].start /\ c = segments'[n].duration
    <3>1. n \in 1 .. Len(segments')
      BY <2>3
    <3>2. IsSegment(segments'[n])
      BY <1>1, <3>1 DEF IsTable
    <3> QED BY <3>2 DEF IsSegment
  <2>5. /\ c >= 1 /\ b + c = duration + 1
        /\ Len(segments) = n => b = segments[n].start
    BY <2>4 DEF Taken
  <2>6. CASE q = duration
    <3>1. b <= q /\ q < b + c
      BY <1>1, <2>1, <2>5, <2>6
    <3>2. HoldsPosition(n, q)' /\ n \in 1 .. Len(segments')
      BY <2>3, <2>4, <3>1 DEF HoldsPosition
    <3> QED BY <1>0, <2>2, <3>2
  <2>7. CASE q < duration
    <3>1. PICK i \in 1 .. Len(segments) : HoldsPosition(i, q)
      BY <2>2, <2>7
    <3>2. CASE i = n
      <4>1. Len(segments) = n
        BY <2>3, <3>1, <3>2
      <4>2. b <= q /\ q < b + c
        BY <1>1, <2>1, <2>5, <2>7, <3>1, <3>2, <4>1 DEF HoldsPosition
      <4>3. HoldsPosition(n, q)' /\ n \in 1 .. Len(segments')
        BY <2>3, <2>4, <4>2 DEF HoldsPosition
      <4> QED BY <1>0, <2>2, <4>3
    <3>3. CASE i # n
      <4>1. i \in 1 .. (n - 1) /\ i \in 1 .. n
        BY <2>3, <3>1, <3>3
      <4>2. segments'[i] = segments[i]
        BY <4>1 DEF Taken
      <4>3. HoldsPosition(i, q)'
        BY <3>1, <4>2 DEF HoldsPosition
      <4> QED BY <1>0, <2>2, <2>3, <4>1, <4>3
    <3> QED BY <3>2, <3>3
  <2>8. q < duration' => q = duration \/ q < duration
    BY <1>1, <2>1
  <2> QED BY <1>0, <2>2, <2>6, <2>7, <2>8
<1> QED BY ONLY <1>2, <1>5, <1>6, <1>7, <1>8, <1>9, <1>10, Zenon DEF CacheInv

LEMMA VariableUnitInv ==
  ASSUME IndexingInv, ~IsCBE, Running, HaveUnit, NEW sizes, UpdateVBEIndex(sizes),
         duration' = duration + 1,
         UNCHANGED <<config, requireUpdates, lastAdded, firstSegment, flushed, haveWritten,
                     indexStatus, output, ignored, inBody, inFooter, stage>>
  PROVE  IndexingInv'
<1>0. config' = config /\ requireUpdates' = requireUpdates /\ ignored' = ignored
      /\ cache' = [e \in Element |-> [p \in NotTaken(e) |-> cache[e][p]]]
      /\ stage = "writing" /\ stage' = "writing"
  BY DEF UpdateVBEIndex, Running
<1>1. /\ Element' = Element /\ IsCBE' = IsCBE /\ RepeatIndexTable' = RepeatIndexTable
      /\ InputDuration' = InputDuration
  BY <1>0, SameConfig
<1>2. PICK n : Taken(segments, segments', n)
  BY UnitTaken
<1>3. \A m \in Nat : Spans(segments, m, duration) => Spans(segments', m, duration + 1)
  BY UnitTaken
<1>4. Open' = Open
  BY <1>0, <1>1 DEF Open
<1>5. TypeInv'
  <2>1. TypeInv /\ duration' \in Nat
    BY DEF IndexingInv, TypeInv
  <2>2. cache' \in [Element -> Range(cache')]
    BY <1>0 DEF Range
  <2>3. IsTable(segments')
    BY <1>2 DEF Taken
  <2> QED BY <1>1, <2>1, <2>2, <2>3 DEF TypeInv
<1>6. RightInv'
  <2>1. Right(segments', Open)
    BY <1>2, TakenRight
  <2> QED BY <1>0, <1>4, <2>1 DEF IndexingInv, RightInv
<1>7. CacheInv'
  BY <1>0, <1>2, TakenCache
<1>8. SegmentInv'
  BY <1>2, TakenSegments
<1>9. SpansInv'
  <2>1. SpansInv /\ duration \in Nat
    BY DEF IndexingInv, TypeInv, VariableInv, Running
  <2>2. PICK m \in 0 .. duration : Spans(Kept, 0, m) /\ Spans(segments, m, duration)
    BY <1>0, <2>1 DEF SpansInv
  <2>3. m \in 0 .. duration' /\ Spans(segments', m, duration')
    BY <1>3, <2>1, <2>2
  <2>4. Kept' = Kept /\ inFooter' = <<>>
    BY <1>0, <1>1, <2>1 DEF Kept, SpansInv
  <2> QED BY <1>0, <2>2, <2>3, <2>4 DEF SpansInv
<1> QED BY <1>0, <1>1, <1>5, <1>6, <1>7, <1>8, <1>9 DEF IndexingInv, VariableInv

-----------------------------------------------------------------------------
(* Edit units of a constant table. *)

LEMMA IsConstantTable ==
  ASSUME IndexingInv, IsCBE
  PROVE  TypeInv /\ ConstantTable /\ InputDuration \in Nat \cup {NoDuration}
  BY ConfigFacts DEF IndexingInv, TypeInv, ConstantTable

(* A step that adds edit units to a constant table.                         *)
LEMMA ConstantChange ==
  ASSUME IndexingInv, IsCBE, Running, duration' \in Nat,
         UNCHANGED <<config, cache, requireUpdates, lastAdded, flushed, haveWritten,
                     indexStatus, output, ignored, inBody, inFooter, stage>>,
         IsTable(segments'), IsTable(firstSegment'), ConstantInv'
  PROVE  IndexingInv'
<1>0. config' = config /\ requireUpdates' = requireUpdates /\ ignored' = ignored
      /\ stage = "writing" /\ stage' = "writing" /\ indexStatus = "ok"
  BY DEF Running
<1>1. /\ Element' = Element /\ IsCBE' = IsCBE /\ RepeatIndexTable' = RepeatIndexTable
      /\ InputDuration' = InputDuration
  BY <1>0, SameConfig
<1>2. TypeInv'
  BY <1>1 DEF IndexingInv, TypeInv
<1>3. RightInv'
  <2>1. Right(segments', Open')
    BY NoEntriesRight DEF ConstantInv
  <2> QED BY <1>0, <2>1 DEF IndexingInv, RightInv
<1>4. ConstantWritten'
  BY <1>0, <1>1 DEF IndexingInv, ConstantWritten
<1>5. \A e \in Element' : requireUpdates'[e] = {}
  BY <1>0, <1>1 DEF IndexingInv
<1> QED BY <1>0, <1>1, <1>2, <1>3, <1>4, <1>5 DEF IndexingInv

LEMMA UpdateIndexInv ==
  ASSUME IndexingInv, Running, NEW sizes, UpdateIndex(sizes), IsCBE \/ HaveUnit,
         UNCHANGED <<ignored, inBody, inFooter, stage>>
  PROVE  IndexingInv'
<1>1. CASE IndexFails
  BY <1>1, FailedHere
<1>2. CASE ~IndexFails
  <2>1. /\ IF IsCBE THEN UpdateCBEIndex(sizes) /\ UNCHANGED cache
                    ELSE UpdateVBEIndex(sizes) /\ UNCHANGED firstSegment
        /\ duration' = duration + 1
        /\ UNCHANGED <<config, requireUpdates, lastAdded, flushed, haveWritten, indexStatus,
                       output>>
    BY <1>2 DEF UpdateIndex
  <2>2. CASE IsCBE
    <3>1. IsTable(segments') /\ IsTable(firstSegment') /\ ConstantInv'
      BY <2>1, <2>2, IsConstantTable, ConstantUnit DEF ConstantTable
    <3>2. duration' \in Nat
      BY <2>1 DEF IndexingInv, TypeInv
    <3> QED BY <2>1, <2>2, <3>1, <3>2, ConstantChange
  <2>3. CASE ~IsCBE
    BY <2>1, <2>3, VariableUnitInv
  <2> QED BY <2>2, <2>3
<1> QED BY <1>1, <1>2

LEMMA WriteUnitInv ==
  ASSUME IndexingInv, NEW sizes, WriteUnit(sizes)
  PROVE  IndexingInv'
  BY UpdateIndexInv DEF WriteUnit

LEMMA WriteClipSamplesInv ==
  ASSUME IndexingInv, NEW sizes, NEW n \in Nat \ {0}, WriteClipSamples(sizes, n)
  PROVE  IndexingInv'
<1>1. /\ Running /\ config.clip /\ UNCHANGED <<ignored, inBody, inFooter, stage>>
      /\ UpdateIndexSamples(n * sizes[1], n)
  BY DEF WriteClipSamples
<1>2. IsCBE /\ ~config.avci
  BY <1>1, ConfigFacts DEF IndexingInv, TypeInv
<1>3. CASE IndexFails
  BY <1>1, <1>3, FailedHere
<1>4. CASE n = 1
  <2>1. UpdateIndex(<<n * sizes[1]>>)
    BY <1>1, <1>4 DEF UpdateIndexSamples
  <2> QED BY <1>1, <1>2, <2>1, UpdateIndexInv
<1>5. CASE ~IndexFails /\ n # 1
  <2>1. PICK size : size = UnitByteCount(n * sizes[1], n)
    OBVIOUS
  <2>2. /\ segments' = [segments EXCEPT ![1] = Extend(@, size, n)]
        /\ duration' = duration + n
        /\ UNCHANGED <<config, cache, requireUpdates, lastAdded, firstSegment, flushed,
                       haveWritten, indexStatus, output>>
    BY <1>1, <1>5, <2>1 DEF UpdateIndexSamples
  <2>3. /\ duration \in Nat /\ IsTable(segments) /\ IsTable(firstSegment) /\ ConstantInv
        /\ IsSegment(segments[1]) /\ segments[1].entries = <<>> /\ firstSegment = <<>>
    BY <1>2, IsConstantTable, ConstantFacts DEF ConstantInv
  <2>4. Len(segments) = 1 /\ segments[1].start = 0 /\ segments[1].duration = duration
    BY <2>3 DEF ConstantInv
  <2>5. PICK r, s : r = segments[1] /\ s = Extend(r, size, n)
    OBVIOUS
  <2>6. IsSegment(s) /\ s.start = 0 /\ s.duration = duration + n /\ s.entries = <<>>
    <3>1. IsSegment(s) /\ s.start = r.start /\ s.duration = r.duration + n
          /\ s.entries = r.entries
      <4>1. IsSegment(r) /\ n \in Nat
        BY <2>3, <2>5
      <4>2. s = Extend(r, size, n)
        BY <2>5
      <4> QED BY ONLY <4>1, <4>2, ExtendedSegment
    <3> QED BY <2>3, <2>4, <2>5, <3>1
  <2>7. /\ IsTable(segments') /\ Len(segments') = 1 /\ segments'[1] = s
    <3>1. 1 \in 1 .. Len(segments)
      BY <2>4
    <3>2. /\ IsTable([segments EXCEPT ![1] = s])
          /\ Len([segments EXCEPT ![1] = s]) = Len(segments)
          /\ \A i \in 1 .. Len(segments) :
               [segments EXCEPT ![1] = s][i] = IF i = 1 THEN s ELSE segments[i]
      BY ONLY <2>3, <2>6, <3>1, TableExcept
    <3>3. segments' = [segments EXCEPT ![1] = s]
      BY <2>2, <2>5
    <3> QED BY ONLY <2>4, <3>1, <3>2, <3>3
  <2>8. ConstantInv'
    <3>1. \A i \in 1 .. Len(segments') : i = 1
      BY <2>7
    <3>2. NoEntries(segments') /\ NoEntries(firstSegment') /\ firstSegment' = <<>>
      BY <2>2, <2>3, <2>6, <2>7, <3>1, EmptyTable DEF NoEntries
    <3> QED BY <2>2, <2>6, <2>7, <3>2 DEF ConstantInv
  <2>9. duration' \in Nat
    BY <2>2, <2>3
  <2> QED BY <1>1, <1>2, <2>2, <2>3, <2>7, <2>8, <2>9, ConstantChange
<1> QED BY <1>3, <1>4, <1>5

-----------------------------------------------------------------------------
(* Segments that are written. *)

LEMMA NothingOpen ==
  ASSUME IndexingInv, ~IsCBE, \A e \in Element : \A p \in requireUpdates[e] : p >= duration
  PROVE  Right(segments, ignored)
<1>1. /\ IsTable(segments) /\ SegmentInv /\ duration \in Nat /\ Right(segments, Open)
  BY DEF IndexingInv, TypeInv, VariableInv, RightInv
<1>2. SUFFICES ASSUME NEW i \in 1 .. Len(segments), NEW k \in 1 .. Len(segments[i].entries),
                      NEW p, p = segments[i].start + k - 1, p \notin ignored
               PROVE  Shown(segments[i].entries[k]) = Final[p]
  BY DEF Right
<1>3. PICK a \in Nat, d \in Nat : /\ a = segments[i].start /\ d = segments[i].duration
                                  /\ Len(segments[i].entries) = d /\ a + d <= duration
  BY <1>1 DEF IsTable, IsSegment, SegmentInv
<1>4. p \in Nat /\ p < duration
  <2>1. p = a + k - 1 /\ k \in 1 .. d /\ duration \in Nat
    BY <1>1, <1>2, <1>3
  <2>2. a + d <= duration /\ k \in Int
    BY <1>3, <2>1
  <2> QED BY ONLY <2>1, <2>2, a \in Nat, d \in Nat
<1>5. p \notin Open
  BY <1>1, <1>2, <1>4 DEF Open
<1> QED BY <1>1, <1>2, <1>5 DEF Right

(* What is written of a variable table, and what is kept of it.             *)
LEMMA VariableFlush ==
  ASSUME IndexingInv, ~IsCBE, NEW isFooter, NEW final, WriteSegments(isFooter, final),
         ~IndexFails, \A e \in Element : \A p \in requireUpdates[e] : p >= duration
  PROVE  /\ duration > 0 /\ haveWritten' = TRUE /\ segments' = <<>>
         /\ UNCHANGED <<config, cache, requireUpdates, lastAdded, firstSegment, duration,
                        indexStatus>>
         /\ IsTable(output') /\ Right(output', ignored)
         /\ IsTable(flushed') /\ Right(flushed', ignored)
         /\ RepeatIndexTable /\ ~isFooter => flushed' = flushed \o segments
         /\ \A first, end :
              Spans(IF Repeats(isFooter) THEN flushed \o segments ELSE segments, first, end) =>
                Spans(output', first, end)
<1> DEFINE list == IF Repeats(isFooter) THEN flushed \o segments ELSE segments
<1>1. /\ duration # 0 /\ haveWritten' = TRUE /\ segments' = <<>>
      /\ output' = VBESegments(list)
      /\ flushed' = IF Keeps(isFooter) THEN flushed \o segments
                    ELSE IF Repeats(isFooter) THEN <<>> ELSE flushed
      /\ UNCHANGED <<config, cache, requireUpdates, lastAdded, firstSegment, duration,
                     indexStatus>>
  BY DEF WriteSegments
<1>2. /\ IsTable(segments) /\ IsTable(flushed) /\ duration \in Nat
      /\ Right(segments, ignored) /\ Right(flushed, ignored)
  BY NothingOpen DEF IndexingInv, TypeInv, RightInv
<1>3. IsTable(flushed \o segments) /\ Right(flushed \o segments, ignored)
  BY <1>2, TableConcat, ConcatRight
<1>4. IsTable(list) /\ Right(list, ignored)
  BY <1>2, <1>3
<1>5. IsTable(flushed') /\ Right(flushed', ignored)
  BY <1>1, <1>2, <1>3, EmptyTable
<1>6. RepeatIndexTable /\ ~isFooter => flushed' = flushed \o segments
  BY <1>1 DEF Keeps
<1> HIDE DEF list
<1>7. IsTable(output') /\ SamePlaces(list, output') /\ SameEntries(list, output')
  <2>1. PICK new : new = VBESegments(list)
    OBVIOUS
  <2>2. IsTable(new) /\ SamePlaces(list, new) /\ SameEntries(list, new)
    BY <1>4, <2>1, VariableWritten
  <2> QED BY <1>1, <2>1, <2>2
<1>8. Right(output', ignored)
  <2>1. PICK new : new = output'
    OBVIOUS
  <2>2. Right(new, ignored)
    BY <1>4, <1>7, <2>1, SameEntriesRight
  <2> QED BY <2>1, <2>2
<1>9. \A first, end : Spans(list, first, end) => Spans(output', first, end)
  <2>1. PICK new : new = output'
    OBVIOUS
  <2>2. \A first, end : Spans(list, first, end) => Spans(new, first, end)
    BY <1>4, <1>7, <2>1, SamePlacesSpans
  <2> QED BY <2>1, <2>2
<1> QED BY <1>1, <1>2, <1>5, <1>6, <1>7, <1>8, <1>9 DEF list

(* What stays of the invariant when the segments of a variable table are    *)
(* written, to a body partition or to the footer.                           *)
LEMMA Flushed ==
  ASSUME IndexingInv, ~IsCBE, segments' = <<>>, duration > 0, haveWritten' = TRUE,
         UNCHANGED <<config, cache, requireUpdates, lastAdded, firstSegment, duration,
                     indexStatus, ignored>>,
         \A e \in Element : \A p \in requireUpdates[e] : p >= duration,
         stage' \in Stages,
         stage' # "writing" => /\ InputDuration \in {duration, NoDuration}
                               /\ \A e \in Element : requireUpdates[e] = {},
         \A list \in {output', flushed', inBody', inFooter'} :
           IsTable(list) /\ Right(list, ignored),
         SpansInv'
  PROVE  IndexingInv'
<1>0. config' = config /\ requireUpdates' = requireUpdates /\ ignored' = ignored
  OBVIOUS
<1>1. /\ Element' = Element /\ CBEElement' = CBEElement /\ VBEElement' = VBEElement
      /\ IsCBE' = IsCBE /\ InputDuration' = InputDuration
  BY <1>0, SameConfig
<1>2. Open' = Open
  BY <1>0, <1>1 DEF Open
<1>3. TypeInv'
  <2>1. IsTable(segments') /\ IsTable(firstSegment')
    BY EmptyTable DEF IndexingInv, TypeInv
  <2>2. \A list \in {firstSegment', segments', flushed', inBody', inFooter', output'} :
          IsTable(list)
    BY <2>1
  <2> QED BY <1>1, <2>2 DEF IndexingInv, TypeInv
<1>4. RightInv'
  <2>1. Right(segments', Open')
    BY EmptyTable
  <2> QED BY <1>0, <2>1 DEF RightInv
<1>5. CacheInv'
  <2>1. CacheInv /\ TypeInv
    BY DEF IndexingInv, VariableInv
  <2>2. ASSUME NEW e \in VBEElement, NEW p \in requireUpdates[e] PROVE ~(p < duration)
    <3>1. e \in Element
      BY DEF VBEElement
    <3>2. p >= duration /\ p \in Nat /\ duration \in Nat
      BY <2>1, <3>1 DEF TypeInv
    <3> QED BY <3>2
  <2>3. lastAdded' = lastAdded /\ duration' = duration /\ cache' = cache
    OBVIOUS
  <2>4. /\ \A e \in Element : e = Picture \/ requireUpdates'[e] = {}
        /\ \A e \in CBEElement : DOMAIN cache'[e] = {} /\ requireUpdates'[e] = {}
    BY <1>0, <2>1, <2>3 DEF CacheInv
  <2>5. \A e \in VBEElement :
          /\ lastAdded'[e] >= duration' - 1
          /\ DOMAIN cache'[e] = duration' .. lastAdded'[e]
          /\ e # Picture => \A p \in DOMAIN cache'[e] : Shown(cache'[e][p]) = Default
    BY <2>1, <2>3 DEF CacheInv
  <2>6. \A e \in VBEElement : e = Picture =>
          /\ lastAdded'[e] < config'.editUnits
          /\ \A p \in DOMAIN cache'[e] :
               /\ p \notin Open' => Shown(cache'[e][p]) = Final[p]
               /\ cache'[e][p].canStart = (p \in GOPStart)
    BY ONLY <1>0, <1>2, <2>1, <2>3, ZenonT(40) DEF CacheInv
  <2>7. \A e \in VBEElement : e = Picture => \A p \in requireUpdates'[e] :
          p <= lastAdded'[e] /\ ~(p < duration')
    BY <1>0, <2>1, <2>2, <2>3 DEF CacheInv
  <2> QED BY ONLY <1>1, <2>4, <2>5, <2>6, <2>7, Zenon DEF CacheInv
<1>6. SegmentInv'
  <2>1. \A i \in 1 .. Len(segments') : FALSE
    OBVIOUS
  <2> QED BY <2>1 DEF SegmentInv, Disjoint
<1>7. stage' # "writing" => /\ duration' > 0 /\ InputDuration' \in {duration', NoDuration}
                            /\ \A e \in Element' : requireUpdates'[e] = {}
  BY <1>0, <1>1
<1> QED BY <1>1, <1>3, <1>4, <1>5, <1>6, <1>7 DEF IndexingInv, VariableInv

LEMMA StartVariablePartitionInv ==
  ASSUME IndexingInv, ~IsCBE, stage \in {"writing", "completing"}, indexStatus = "ok",
         NEW final, WriteSegments(FALSE, final),
         \A e \in Element : \A p \in requireUpdates[e] : p >= duration,
         inBody' = inBody \o output',
         stage' \in Stages \ {"footer", "closed"}, stage = "completing" => stage' # "writing",
         stage = "writing" => stage' = "writing", UNCHANGED <<ignored, inFooter>>
  PROVE  IndexingInv'
<1>1. /\ IsTable(inBody) /\ Right(inBody, ignored) /\ IsTable(inFooter)
      /\ Right(inFooter, ignored) /\ IsTable(output) /\ Right(output, ignored)
      /\ IsTable(segments) /\ IsTable(flushed) /\ TypeInv /\ duration \in Nat
  BY DEF IndexingInv, TypeInv, RightInv
<1>2. CASE IndexFails
  <2>1. output' = output
    BY <1>2 DEF IndexFails
  <2>2. IsTable(inBody') /\ Right(inBody', ignored)
    BY <1>1, <2>1, TableConcat, ConcatRight
  <2> QED BY <1>1, <1>2, <2>2, Failed
<1>3. CASE ~IndexFails
  <2>1. /\ duration > 0 /\ haveWritten' = TRUE /\ segments' = <<>>
        /\ UNCHANGED <<config, cache, requireUpdates, lastAdded, firstSegment, duration,
                       indexStatus>>
        /\ IsTable(output') /\ Right(output', ignored)
        /\ IsTable(flushed') /\ Right(flushed', ignored)
        /\ RepeatIndexTable => flushed' = flushed \o segments
    BY <1>3, VariableFlush
  <2>2. \A first, end : Spans(segments, first, end) => Spans(output', first, end)
    <3>1. ~Repeats(FALSE)
      BY DEF Repeats
    <3>2. \A first, end :
            Spans(IF Repeats(FALSE) THEN flushed \o segments ELSE segments, first, end) =>
              Spans(output', first, end)
      BY <1>3, VariableFlush
    <3> QED BY ONLY <3>1, <3>2
  <2>3. IsTable(inBody') /\ Right(inBody', ignored)
    <3>1. PICK new : new = output'
      OBVIOUS
    <3>2. IsTable(inBody \o new) /\ Right(inBody \o new, ignored)
      BY <1>1, <2>1, <3>1, TableConcat, ConcatRight
    <3> QED BY <3>1, <3>2
  <2>4. SpansInv'
    <3>1. SpansInv /\ stage \notin {"footer", "closed"} /\ stage' \notin {"footer", "closed"}
      BY DEF IndexingInv, VariableInv
    <3>2. inFooter = <<>>
          /\ \E m \in 0 .. duration : Spans(Kept, 0, m) /\ Spans(segments, m, duration)
      BY <3>1 DEF SpansInv
    <3>3. PICK m \in 0 .. duration : Spans(Kept, 0, m) /\ Spans(segments, m, duration)
      BY <3>2
    <3>4. RepeatIndexTable' = RepeatIndexTable
      BY <2>1, SameConfig
    <3>5. Spans(Kept', 0, duration)
      <4>1. CASE RepeatIndexTable
        <5>1. Spans(flushed \o segments, 0, duration)
          BY <1>1, <3>3, <4>1, SpansConcat DEF Kept
        <5> QED BY <2>1, <3>4, <4>1, <5>1 DEF Kept
      <4>2. CASE ~RepeatIndexTable
        <5>1. PICK new : new = output' /\ IsTable(new) /\ Spans(new, m, duration)
          BY <2>1, <2>2, <3>3
        <5>2. Spans(inBody \o new, 0, duration)
          BY <1>1, <3>3, <4>2, <5>1, SpansConcat DEF Kept
        <5> QED BY <3>4, <4>2, <5>1, <5>2 DEF Kept
      <4> QED BY <4>1, <4>2
    <3>6. Spans(segments', duration, duration) /\ duration \in 0 .. duration
      BY <1>1, <2>1, SpansNone
    <3>7. duration' = duration /\ inFooter' = <<>>
      BY <2>1, <3>2
    <3> QED BY <3>1, <3>5, <3>6, <3>7 DEF SpansInv
  <2>5. stage' # "writing" => /\ InputDuration \in {duration, NoDuration}
                              /\ \A e \in Element : requireUpdates[e] = {}
    BY DEF IndexingInv
  <2>6. \A list \in {output', flushed', inBody', inFooter'} :
          IsTable(list) /\ Right(list, ignored)
    BY <1>1, <2>1, <2>3
  <2> QED BY <2>1, <2>4, <2>5, <2>6, Flushed
<1> QED BY <1>2, <1>3

(* A step in which only CompleteWrite goes on.                              *)
LEMMA NoStepInv ==
  ASSUME IndexingInv, ~IsCBE, stage' \in Stages, SpansInv',
         UNCHANGED <<config, cache, requireUpdates, lastAdded, firstSegment, segments, flushed,
                     duration, haveWritten, indexStatus, output, ignored, inBody, inFooter>>,
         stage' # "writing" =>
           /\ duration > 0 /\ InputDuration \in {duration, NoDuration}
           /\ \A e \in Element : requireUpdates[e] = {}
  PROVE  IndexingInv'
<1>0. config' = config /\ requireUpdates' = requireUpdates /\ ignored' = ignored
      /\ segments' = segments /\ duration' = duration /\ lastAdded' = lastAdded
      /\ cache' = cache
  OBVIOUS
<1>1. /\ Element' = Element /\ CBEElement' = CBEElement /\ VBEElement' = VBEElement
      /\ IsCBE' = IsCBE /\ InputDuration' = InputDuration
  BY <1>0, SameConfig
<1>2. Open' = Open
  BY <1>0, <1>1 DEF Open
<1>3. TypeInv'
  BY <1>1 DEF IndexingInv, TypeInv
<1>4. RightInv'
  BY <1>2 DEF IndexingInv, RightInv
<1>5. CacheInv'
  <2>1. CacheInv
    BY DEF IndexingInv, VariableInv
  <2> QED BY ONLY <1>0, <1>1, <1>2, <2>1 DEF CacheInv, HoldsPosition
<1>6. SegmentInv'
  BY <1>0 DEF IndexingInv, VariableInv, SegmentInv
<1>7. stage' # "writing" => /\ duration' > 0 /\ InputDuration' \in {duration', NoDuration}
                            /\ \A e \in Element' : requireUpdates'[e] = {}
  BY <1>0, <1>1
<1> QED BY <1>1, <1>3, <1>4, <1>5, <1>6, <1>7 DEF IndexingInv, VariableInv

LEMMA VariableFooterInv ==
  ASSUME IndexingInv, ~IsCBE, WriteFooter
  PROVE  IndexingInv'
<1>1. /\ indexStatus = "ok" /\ stage \in {"completing", "indexed"} /\ stage' = "footer"
      /\ ignored' = ignored /\ inBody' = inBody
  BY DEF WriteFooter
<1>2. /\ IsTable(inBody) /\ Right(inBody, ignored) /\ IsTable(inFooter)
      /\ Right(inFooter, ignored) /\ IsTable(output) /\ Right(output, ignored)
      /\ IsTable(segments) /\ IsTable(flushed) /\ TypeInv /\ duration \in Nat /\ duration > 0
      /\ InputDuration \in {duration, NoDuration} /\ SegmentInv
      /\ \A e \in Element : requireUpdates[e] = {}
  BY <1>1 DEF IndexingInv, TypeInv, RightInv, VariableInv
<1>3. /\ inFooter = <<>>
      /\ \E m \in 0 .. duration : Spans(Kept, 0, m) /\ Spans(segments, m, duration)
  BY <1>1 DEF IndexingInv, VariableInv, SpansInv
<1>4. PICK m \in 0 .. duration : Spans(Kept, 0, m) /\ Spans(segments, m, duration)
  BY <1>3
<1>5. stage' \in Stages
  BY <1>1 DEF Stages
<1>6. CASE HaveFooterSegments
  <2>1. WriteSegments(TRUE, TRUE) /\ inFooter' = output'
    BY <1>6 DEF WriteFooter
  <2>2. CASE IndexFails
    <3>1. output' = output
      BY <2>2 DEF IndexFails
    <3> QED BY <1>1, <1>2, <1>5, <2>1, <2>2, <3>1, Failed
  <2>3. CASE ~IndexFails
    <3>1. \A e \in Element : \A p \in requireUpdates[e] : p >= duration
      BY <1>2
    <3>2. /\ haveWritten' = TRUE /\ segments' = <<>>
          /\ UNCHANGED <<config, cache, requireUpdates, lastAdded, firstSegment, duration,
                         indexStatus>>
          /\ IsTable(output') /\ Right(output', ignored)
          /\ IsTable(flushed') /\ Right(flushed', ignored)
          /\ \A first, end :
               Spans(IF Repeats(TRUE) THEN flushed \o segments ELSE segments, first, end) =>
                 Spans(output', first, end)
      BY <2>1, <2>3, <3>1, VariableFlush
    <3>3. SpansInv'
      <4>1. RepeatIndexTable' = RepeatIndexTable /\ duration' = duration
            /\ (Repeats(TRUE) <=> RepeatIndexTable)
        BY <3>2, SameConfig DEF Repeats
      <4>2. PICK new : new = output'
        OBVIOUS
      <4>3. CASE RepeatIndexTable
        <5>1. Spans(flushed \o segments, 0, duration)
          BY <1>2, <1>4, <4>3, SpansConcat DEF Kept
        <5>2. Spans(inFooter', 0, duration)
          BY <2>1, <3>2, <4>1, <4>3, <5>1
        <5> QED BY <1>1, <4>1, <4>3, <5>2 DEF SpansInv
      <4>4. CASE ~RepeatIndexTable
        <5>1. IsTable(new) /\ Spans(new, m, duration)
          BY <1>4, <3>2, <4>1, <4>2, <4>4
        <5>2. Spans(inBody \o new, 0, duration)
          BY <1>2, <1>4, <4>4, <5>1, SpansConcat DEF Kept
        <5>3. inBody' \o inFooter' = inBody \o new
          BY <1>1, <2>1, <4>2
        <5> QED BY <1>1, <4>1, <4>4, <5>2, <5>3 DEF SpansInv
      <4> QED BY <4>3, <4>4
    <3>4. \A list \in {output', flushed', inBody', inFooter'} :
            IsTable(list) /\ Right(list, ignored)
      BY <1>1, <1>2, <2>1, <3>2
    <3> QED BY <1>1, <1>2, <1>5, <3>1, <3>2, <3>3, <3>4, Flushed
  <2> QED BY <2>2, <2>3
<1>7. CASE ~HaveFooterSegments
  <2>1. UNCHANGED <<indexVars, inFooter>>
    BY <1>7 DEF WriteFooter
  <2>2. /\ UNCHANGED <<config, cache, requireUpdates, lastAdded, firstSegment, segments, flushed,
                       duration, haveWritten, indexStatus, output, inFooter>>
    BY <2>1 DEF indexVars
  <2>3. segments = <<>>
    <3> SUFFICES ASSUME segments # <<>> PROVE FALSE
      OBVIOUS
    <3>1. 1 \in 1 .. Len(segments)
      BY <1>2, TableLen
    <3>2. ~(segments[1].duration > 0)
      BY <1>7 DEF HaveFooterSegments, HaveSegments
    <3>3. segments[1].duration > 0 \/ duration = 0
      BY <1>2, <3>1 DEF SegmentInv
    <3> QED BY <1>2, <3>2, <3>3
  <2>4. Spans(Kept, 0, duration)
    <3>1. m = duration
      BY <1>4, <2>3, SpansNone
    <3> QED BY <1>4, <3>1
  <2>5. SpansInv'
    <3>1. RepeatIndexTable' = RepeatIndexTable /\ duration' = duration
      BY <2>2, SameConfig
    <3>2. CASE RepeatIndexTable
      <4>1. flushed = <<>>
        BY <1>7, <3>2 DEF HaveFooterSegments
      <4>2. Spans(inFooter', 0, duration)
        BY <1>3, <2>2, <2>4, <3>2, <4>1 DEF Kept
      <4> QED BY <1>1, <3>1, <3>2, <4>2 DEF SpansInv
    <3>3. CASE ~RepeatIndexTable
      <4>1. inBody \o <<>> = inBody
        BY <1>2, ConcatEmptySeq DEF IsTable
      <4>2. inBody' \o inFooter' = inBody
        BY <1>1, <1>3, <2>2, <4>1
      <4> QED BY <1>1, <2>4, <3>1, <3>3, <4>2 DEF SpansInv, Kept
    <3> QED BY <3>2, <3>3
  <2> QED BY <1>1, <1>2, <1>5, <2>2, <2>5, NoStepInv
<1> QED BY <1>6, <1>7

(* A step of a constant table that adds no edit unit.                       *)
LEMMA ConstantStays ==
  ASSUME IndexingInv, IsCBE, indexStatus = "ok", stage' \in Stages, haveWritten' \in BOOLEAN,
         UNCHANGED <<config, cache, lastAdded, firstSegment, segments, flushed, duration>>,
         indexStatus' = "ok", requireUpdates' = [e \in Element |-> {}],
         ignored \subseteq ignored',
         \A list \in {output', inBody', inFooter'} : IsTable(list) /\ Right(list, ignored'),
         ConstantWritten',
         stage' # "writing" => duration > 0 /\ InputDuration \in {duration, NoDuration}
  PROVE  IndexingInv'
<1>0. config' = config /\ duration' = duration
  OBVIOUS
<1>1. /\ Element' = Element /\ IsCBE' = IsCBE /\ InputDuration' = InputDuration
  BY <1>0, SameConfig
<1>2. TypeInv'
  <2>1. requireUpdates' \in [Element -> SUBSET Nat]
    OBVIOUS
  <2>2. \A list \in {firstSegment', segments', flushed', inBody', inFooter', output'} :
          IsTable(list)
    BY DEF IndexingInv, TypeInv
  <2> QED BY <1>1, <2>1, <2>2 DEF IndexingInv, TypeInv
<1>3. RightInv'
  <2>1. Right(segments', Open')
    BY NoEntriesRight DEF IndexingInv, ConstantInv
  <2>2. Right(flushed', ignored')
    BY MoreOpen DEF IndexingInv, RightInv
  <2> QED BY <2>1, <2>2 DEF RightInv
<1>4. ConstantInv'
  BY DEF IndexingInv, ConstantInv, FirstUnits
<1> QED BY <1>0, <1>1, <1>2, <1>3, <1>4 DEF IndexingInv

LEMMA NoneRequired ==
  ASSUME IndexingInv, IsCBE \/ stage # "writing", indexStatus = "ok"
  PROVE  /\ \A e \in Element : requireUpdates[e] = {}
         /\ requireUpdates = [e \in Element |-> {}]
<1>1. \A e \in Element : requireUpdates[e] = {}
  BY DEF IndexingInv
<1>2. requireUpdates \in [Element -> SUBSET Nat]
  BY DEF IndexingInv, TypeInv
<1> QED BY <1>1, <1>2

(* A constant table goes to a body partition that is the first with one.    *)
LEMMA StartConstantPartitionInv ==
  ASSUME IndexingInv, IsCBE, indexStatus = "ok", stage \in {"writing", "completing"},
         ~haveWritten, NEW final, WriteSegments(FALSE, final),
         final => InputDuration \in {duration, NoDuration},
         inBody' = inBody \o output',
         stage' \in Stages \ {"footer", "closed"}, stage = "completing" => stage' # "writing",
         stage = "writing" => stage' = "writing" /\ (RequireIndexTableSegmentPair => duration = 2),
         stage = "completing" => final,
         UNCHANGED <<ignored, inFooter>>
  PROVE  IndexingInv'
<1>1. /\ IsTable(inBody) /\ Right(inBody, ignored) /\ IsTable(inFooter)
      /\ Right(inFooter, ignored) /\ IsTable(output) /\ Right(output, ignored)
      /\ TypeInv /\ duration \in Nat /\ ConstantWritten /\ ConstantInv
  BY DEF IndexingInv, TypeInv, RightInv
<1>2. CASE IndexFails
  <2>1. output' = output
    BY <1>2 DEF IndexFails
  <2>2. IsTable(inBody') /\ Right(inBody', ignored)
    BY <1>1, <2>1, TableConcat, ConcatRight
  <2> QED BY <1>1, <1>2, <2>2, Failed
<1>3. CASE ~IndexFails
  <2>1. /\ duration > 0 /\ haveWritten' = TRUE
        /\ UNCHANGED <<config, cache, requireUpdates, lastAdded, firstSegment, segments, flushed,
                       duration, indexStatus>>
        /\ IsTable(output') /\ NoEntries(output') /\ output' # <<>>
        /\ InputDuration # NoDuration /\ (firstSegment # <<>> => duration > 1) =>
             Spans(output', 0, InputDuration)
        /\ InputDuration \in {duration, NoDuration} /\ final => Spans(output', 0, duration)
    BY <1>3, IsConstantTable, ConstantFlush
  <2>2. /\ Element' = Element /\ IsCBE' = IsCBE /\ InputDuration' = InputDuration
        /\ RepeatIndexTable' = RepeatIndexTable
    BY <2>1, SameConfig
  <2>3. inBody = <<>> /\ inFooter = <<>>
    BY <1>1 DEF ConstantWritten
  <2>4. inBody' = output'
    <3>1. PICK new : new = output' /\ IsTable(new)
      BY <2>1
    <3>2. <<>> \o new = new
      BY <3>1, ConcatEmptySeq DEF IsTable
    <3> QED BY <2>3, <3>1, <3>2
  <2>5. InputDuration # NoDuration => Spans(output', 0, InputDuration)
    <3> SUFFICES ASSUME InputDuration # NoDuration PROVE Spans(output', 0, InputDuration)
      OBVIOUS
    <3>1. CASE firstSegment # <<>> /\ duration <= 1
      <4>1. config.avci
        BY <1>1, <3>1 DEF ConstantInv
      <4>2. RequireIndexTableSegmentPair
        BY <4>1 DEF RequireIndexTableSegmentPair
      <4>3. stage = "completing" /\ final /\ InputDuration = duration
        BY <1>1, <3>1, <4>2
      <4> QED BY <2>1, <4>3
    <3>2. CASE ~(firstSegment # <<>> /\ duration <= 1)
      BY <1>1, <2>1, <3>2
    <3> QED BY <3>1, <3>2
  <2>6. ConstantWritten'
    BY <2>1, <2>2, <2>3, <2>4, <2>5 DEF ConstantWritten
  <2>7. \A list \in {output', inBody', inFooter'} : IsTable(list) /\ Right(list, ignored')
    <3>1. Right(output', ignored)
      BY <2>1, NoEntriesRight
    <3> QED BY <1>1, <2>1, <2>4, <3>1
  <2>8. stage' # "writing" => duration > 0 /\ InputDuration \in {duration, NoDuration}
    BY <2>1
  <2>9. requireUpdates' = [e \in Element |-> {}]
    BY <2>1, NoneRequired
  <2>10. haveWritten' \in BOOLEAN /\ indexStatus' = "ok" /\ ignored \subseteq ignored'
    BY <2>1
  <2> QED BY <2>1, <2>6, <2>7, <2>8, <2>9, <2>10, ConstantStays
<1> QED BY <1>2, <1>3

LEMMA StartPartitionInv ==
  ASSUME IndexingInv, StartPartition
  PROVE  IndexingInv'
<1>1. /\ indexStatus = "ok" /\ stage = "writing" /\ stage' = "writing"
      /\ WriteSegments(FALSE, ~IsCBE) /\ inBody' = inBody \o output'
      /\ UNCHANGED <<ignored, inFooter>> /\ stage' \in Stages \ {"footer", "closed"}
      /\ duration \in Nat /\ requireUpdates \in [Element -> SUBSET Nat]
  BY DEF StartPartition, Running, Stages, IndexingInv, TypeInv
<1>2. CASE IsCBE
  <2>1. CBETableKnown
    BY <1>2 DEF StartPartition
  <2>2. ~haveWritten /\ (RequireIndexTableSegmentPair => duration = 2)
    BY <2>1 DEF CBETableKnown
  <2>3. PICK final : final = ~IsCBE
    OBVIOUS
  <2>4. WriteSegments(FALSE, final) /\ ~final
    BY <1>1, <1>2, <2>3
  <2> QED BY <1>1, <1>2, <2>2, <2>4, StartConstantPartitionInv
<1>3. CASE ~IsCBE
  <2>1. ~RequireUpdatesAtPos(duration - 1)
    BY <1>3 DEF StartPartition, CanFlush
  <2>2. ASSUME NEW e \in Element, NEW p \in requireUpdates[e] PROVE p >= duration
    <3>1. p \in Nat
      BY <1>1
    <3>2. ~(p <= duration - 1)
      BY <2>1 DEF RequireUpdatesAtPos
    <3> QED BY <1>1, <3>1, <3>2
  <2>3. PICK final : final = ~IsCBE
    OBVIOUS
  <2>4. WriteSegments(FALSE, final)
    BY <1>1, <2>3
  <2> QED BY <1>1, <1>3, <2>2, <2>4, StartVariablePartitionInv
<1> QED BY <1>2, <1>3

LEMMA WriteIndexPartitionInv ==
  ASSUME IndexingInv, WriteIndexPartition
  PROVE  IndexingInv'
<1>1. /\ indexStatus = "ok" /\ stage = "completing" /\ stage' = "indexed"
      /\ WriteSegments(FALSE, TRUE) /\ inBody' = inBody \o output'
      /\ UNCHANGED <<ignored, inFooter>> /\ stage' \in Stages \ {"footer", "closed"}
      /\ NeedsIndexPartition
  BY DEF WriteIndexPartition, Stages
<1>2. InputDuration \in {duration, NoDuration}
  BY <1>1 DEF IndexingInv
<1>3. CASE IsCBE
  <2>1. ~haveWritten
    BY <1>1, <1>3 DEF NeedsIndexPartition
  <2> QED BY <1>1, <1>2, <1>3, <2>1, StartConstantPartitionInv
<1>4. CASE ~IsCBE
  <2>1. \A e \in Element : \A p \in requireUpdates[e] : p >= duration
    BY <1>1, NoneRequired
  <2> QED BY <1>1, <1>4, <2>1, StartVariablePartitionInv
<1> QED BY <1>3, <1>4

LEMMA ConstantFooterInv ==
  ASSUME IndexingInv, IsCBE, WriteFooter
  PROVE  IndexingInv'
<1>1. /\ indexStatus = "ok" /\ stage \in {"completing", "indexed"} /\ stage' = "footer"
      /\ ignored' = ignored /\ inBody' = inBody /\ stage' \in Stages
  BY DEF WriteFooter, Stages
<1>2. /\ IsTable(inBody) /\ Right(inBody, ignored) /\ IsTable(inFooter)
      /\ Right(inFooter, ignored) /\ IsTable(output) /\ Right(output, ignored)
      /\ duration > 0 /\ InputDuration \in {duration, NoDuration} /\ ConstantWritten
      /\ inFooter = <<>> /\ haveWritten \in BOOLEAN
  BY <1>1 DEF IndexingInv, TypeInv, RightInv, ConstantWritten
<1>3. haveWritten => inBody # <<>> /\ (InputDuration # NoDuration => Spans(inBody, 0, duration))
  BY <1>1, <1>2 DEF ConstantWritten
<1>4. ~haveWritten => inBody = <<>>
  BY <1>2 DEF ConstantWritten
<1>5. CASE HaveFooterSegments
  <2>1. WriteSegments(TRUE, TRUE) /\ inFooter' = output'
    BY <1>5 DEF WriteFooter
  <2>2. CASE IndexFails
    <3>1. output' = output
      BY <2>2 DEF IndexFails
    <3> QED BY <1>1, <1>2, <2>1, <2>2, <3>1, Failed
  <2>3. CASE ~IndexFails
    <3>1. /\ haveWritten' = TRUE
          /\ UNCHANGED <<config, cache, requireUpdates, lastAdded, firstSegment, segments,
                         flushed, duration, indexStatus>>
          /\ IsTable(output') /\ NoEntries(output')
          /\ Spans(output', 0, duration)
      BY <1>2, <2>1, <2>3, IsConstantTable, ConstantFlush
    <3>2. InputDuration' = InputDuration /\ RepeatIndexTable' = RepeatIndexTable
      BY <3>1, SameConfig
    <3>3. ~RepeatIndexTable => inBody = <<>>
      BY <1>4, <1>5 DEF HaveFooterSegments
    <3>4. ConstantWritten'
      BY <1>1, <1>3, <1>4, <2>1, <3>1, <3>2, <3>3, <1>2 DEF ConstantWritten
    <3>5. \A list \in {output', inBody', inFooter'} : IsTable(list) /\ Right(list, ignored')
      BY <1>1, <1>2, <2>1, <3>1, NoEntriesRight
    <3>6. requireUpdates' = [e \in Element |-> {}]
      BY <1>1, <3>1, NoneRequired
    <3> QED BY <1>1, <1>2, <3>1, <3>4, <3>5, <3>6, ConstantStays
  <2> QED BY <2>2, <2>3
<1>6. CASE ~HaveFooterSegments
  <2>1. /\ UNCHANGED <<config, cache, requireUpdates, lastAdded, firstSegment, segments, flushed,
                       duration, haveWritten, indexStatus, output, inFooter>>
    BY <1>6 DEF WriteFooter, indexVars
  <2>2. InputDuration' = InputDuration /\ RepeatIndexTable' = RepeatIndexTable
    BY <2>1, SameConfig
  <2>3. haveWritten /\ ~RepeatIndexTable
    BY <1>2, <1>6 DEF HaveFooterSegments
  <2>4. ConstantWritten'
    BY <1>1, <1>2, <1>3, <2>1, <2>2, <2>3 DEF ConstantWritten
  <2>5. requireUpdates' = [e \in Element |-> {}]
    BY <1>1, <2>1, NoneRequired
  <2> QED BY <1>1, <1>2, <2>1, <2>4, <2>5, ConstantStays
<1> QED BY <1>5, <1>6

LEMMA RewriteInv ==
  ASSUME IndexingInv, Rewrite
  PROVE  IndexingInv'
<1>1. /\ indexStatus = "ok" /\ stage = "footer" /\ stage' = "closed"
      /\ ignored' = ignored /\ inFooter' = inFooter /\ stage' \in Stages
  BY DEF Rewrite, Stages
<1>2. /\ IsTable(inBody) /\ Right(inBody, ignored) /\ IsTable(inFooter)
      /\ Right(inFooter, ignored) /\ IsTable(output) /\ Right(output, ignored)
      /\ duration > 0 /\ InputDuration \in {duration, NoDuration}
      /\ \A e \in Element : requireUpdates[e] = {}
      /\ haveWritten \in BOOLEAN
  BY <1>1 DEF IndexingInv, TypeInv, RightInv
<1>3. requireUpdates = [e \in Element |-> {}]
  BY <1>1, NoneRequired
<1>4. CASE IsCBE /\ InputDuration = NoDuration /\ inBody # <<>>
  <2>1. WriteSegments(FALSE, TRUE) /\ inBody' = output'
    BY <1>4 DEF Rewrite
  <2>2. CASE IndexFails
    <3>1. output' = output
      BY <2>2 DEF IndexFails
    <3> QED BY <1>1, <1>2, <2>1, <2>2, <3>1, Failed
  <2>3. CASE ~IndexFails
    <3>1. /\ haveWritten' = TRUE
          /\ UNCHANGED <<config, cache, requireUpdates, lastAdded, firstSegment, segments,
                         flushed, duration, indexStatus>>
          /\ IsTable(output') /\ NoEntries(output') /\ output' # <<>>
          /\ Spans(output', 0, duration)
      BY <1>2, <1>4, <2>1, <2>3, IsConstantTable, ConstantFlush
    <3>2. InputDuration' = InputDuration /\ RepeatIndexTable' = RepeatIndexTable
      BY <3>1, SameConfig
    <3>3. ConstantWritten /\ IsCBE
      BY <1>1, <1>4 DEF IndexingInv
    <3>4. ConstantWritten'
      BY <1>1, <1>4, <2>1, <3>1, <3>2, <3>3 DEF ConstantWritten
    <3>5. \A list \in {output', inBody', inFooter'} : IsTable(list) /\ Right(list, ignored')
      BY <1>1, <1>2, <2>1, <3>1, NoEntriesRight
    <3> QED BY <1>1, <1>2, <1>3, <1>4, <3>1, <3>4, <3>5, ConstantStays
  <2> QED BY <2>2, <2>3
<1>5. CASE ~(IsCBE /\ InputDuration = NoDuration /\ inBody # <<>>)
  <2>1. /\ UNCHANGED <<config, cache, requireUpdates, lastAdded, firstSegment, segments, flushed,
                       duration, haveWritten, indexStatus, output, inBody>>
    BY <1>5 DEF Rewrite, indexVars
  <2>2. /\ InputDuration' = InputDuration /\ RepeatIndexTable' = RepeatIndexTable
    BY <2>1, SameConfig
  <2>3. CASE IsCBE
    <3>1. ConstantWritten
      BY <1>1, <2>3 DEF IndexingInv
    <3>2. ConstantWritten'
      BY <1>1, <1>2, <1>5, <2>1, <2>2, <2>3, <3>1 DEF ConstantWritten
    <3> QED BY <1>1, <1>2, <1>3, <2>1, <2>3, <3>2, ConstantStays
  <2>4. CASE ~IsCBE
    <3>1. SpansInv
      BY <1>1, <2>4 DEF IndexingInv, VariableInv
    <3>2. SpansInv'
      BY <1>1, <2>1, <2>2, <3>1 DEF SpansInv
    <3> QED BY <1>1, <1>2, <2>1, <2>4, <3>2, NoStepInv
  <2> QED BY <2>3, <2>4
<1> QED BY <1>4, <1>5

LEMMA CompleteEntriesInv ==
  ASSUME IndexingInv, CompleteEntries
  PROVE  IndexingInv'
<1>1. /\ indexStatus = "ok" /\ stage = "writing" /\ duration > 0
      /\ UNCHANGED <<inBody, inFooter>>
  BY DEF CompleteEntries, Running
<1>2. CASE InputDuration \notin {duration, NoDuration}
  BY <1>1, <1>2, FailedHere DEF CompleteEntries
<1>3. CASE InputDuration \in {duration, NoDuration}
  <2>1. /\ ignored' = ignored \cup UNION Range(requireUpdates)
        /\ requireUpdates' = [e \in Element |-> IF e \in Element THEN {} ELSE requireUpdates[e]]
        /\ UNCHANGED <<config, cache, lastAdded, firstSegment, segments, flushed, duration,
                       haveWritten, indexStatus, output>>
        /\ stage' = "completing" /\ stage' \in Stages
    BY <1>3 DEF CompleteEntries, IgnoreRequiredUpdates, Stages
  <2>2. requireUpdates' = [e \in Element |-> {}]
    BY <2>1
  <2>3. ignored \subseteq ignored' /\ ignored' = Open
    <3>1. DOMAIN requireUpdates = Element
      BY DEF IndexingInv, TypeInv
    <3>2. Range(requireUpdates) = {requireUpdates[e] : e \in Element}
      BY <3>1 DEF Range
    <3> QED BY <2>1, <3>2 DEF Open
  <2>4. \A list \in {flushed, inBody, inFooter, output} :
          IsTable(list) /\ Right(list, ignored')
    BY <2>3, MoreOpen DEF IndexingInv, TypeInv, RightInv
  <2>5. CASE IsCBE
    <3>1. ConstantWritten'
      <4>1. ConstantWritten
        BY <1>1, <2>5 DEF IndexingInv
      <4>2. InputDuration' = InputDuration
        BY <2>1, SameConfig
      <4> QED BY <1>1, <2>1, <4>1, <4>2 DEF ConstantWritten
    <3>2. \A list \in {output', inBody', inFooter'} : IsTable(list) /\ Right(list, ignored')
      BY <1>1, <2>1, <2>4
    <3>3. haveWritten' \in BOOLEAN
      BY <2>1 DEF IndexingInv, TypeInv
    <3> QED BY <1>1, <1>3, <2>1, <2>2, <2>3, <2>5, <3>1, <3>2, <3>3, ConstantStays
  <2>6. CASE ~IsCBE
    <3>0. config' = config /\ duration' = duration /\ segments' = segments /\ cache' = cache
          /\ lastAdded' = lastAdded
      BY <2>1
    <3>1. /\ Element' = Element /\ CBEElement' = CBEElement /\ VBEElement' = VBEElement
          /\ IsCBE' = IsCBE /\ RepeatIndexTable' = RepeatIndexTable
          /\ InputDuration' = InputDuration
      BY <3>0, SameConfig
    <3>2. Open' = Open
      BY <2>2, <2>3, <3>1 DEF Open
    <3>3. TypeInv'
      <4>1. requireUpdates' \in [Element -> SUBSET Nat]
        BY <2>2
      <4> QED BY <1>1, <2>1, <3>1, <4>1 DEF IndexingInv, TypeInv
    <3>4. RightInv'
      <4>1. Right(segments', Open')
        BY <3>0, <3>2 DEF IndexingInv, RightInv
      <4> QED BY <1>1, <2>1, <2>4, <4>1 DEF RightInv
    <3>5. CacheInv'
      <4>1. CacheInv /\ CBEElement \subseteq Element
        BY <2>6, ConfigFacts DEF IndexingInv, VariableInv, TypeInv
      <4>2. \A e \in VBEElement : e \in Element
        BY DEF VBEElement
      <4>3. \A e \in Element : requireUpdates'[e] = {}
        BY <2>2
      <4>4. /\ \A e \in Element : e = Picture \/ requireUpdates'[e] = {}
            /\ \A e \in CBEElement : DOMAIN cache'[e] = {} /\ requireUpdates'[e] = {}
        BY <3>0, <4>1, <4>3 DEF CacheInv
      <4>5. \A e \in VBEElement :
              /\ lastAdded'[e] >= duration' - 1
              /\ DOMAIN cache'[e] = duration' .. lastAdded'[e]
              /\ e # Picture => \A p \in DOMAIN cache'[e] : Shown(cache'[e][p]) = Default
        BY <3>0, <4>1 DEF CacheInv
      <4>6. \A e \in VBEElement : e = Picture =>
              /\ lastAdded'[e] < config'.editUnits
              /\ \A p \in DOMAIN cache'[e] :
                   /\ p \notin Open' => Shown(cache'[e][p]) = Final[p]
                   /\ cache'[e][p].canStart = (p \in GOPStart)
        BY ONLY <3>0, <3>2, <4>1, ZenonT(40) DEF CacheInv
      <4>7. \A e \in VBEElement : \A p \in requireUpdates'[e] : FALSE
        BY <4>2, <4>3
      <4> QED BY ONLY <3>1, <4>4, <4>5, <4>6, <4>7, Zenon DEF CacheInv
    <3>6. SegmentInv'
      BY <2>6, <3>0 DEF IndexingInv, VariableInv, SegmentInv
    <3>7. SpansInv'
      <4>1. SpansInv
        BY <1>1, <2>6 DEF IndexingInv, VariableInv
      <4> QED BY <1>1, <2>1, <3>0, <3>1, <4>1 DEF SpansInv, Kept
    <3>8. duration' > 0 /\ InputDuration' \in {duration', NoDuration}
          /\ \A e \in Element' : requireUpdates'[e] = {}
      BY <1>1, <1>3, <2>2, <3>0, <3>1
    <3> QED BY <2>6, <3>1, <3>3, <3>4, <3>5, <3>6, <3>7, <3>8 DEF IndexingInv, VariableInv
  <2> QED BY <2>5, <2>6
<1> QED BY <1>2, <1>3

LEMMA StutterInv ==
  ASSUME IndexingInv, UNCHANGED vars
  PROVE  IndexingInv'
<1>1. /\ UNCHANGED <<config, cache, requireUpdates, lastAdded, firstSegment, segments, flushed,
                     duration, haveWritten, indexStatus, output, ignored, inBody, inFooter,
                     stage>>
  BY DEF vars, indexVars
<1>2. config' = config
  BY <1>1
<1>3. /\ Element' = Element /\ CBEElement' = CBEElement /\ VBEElement' = VBEElement
      /\ IsCBE' = IsCBE /\ RepeatIndexTable' = RepeatIndexTable /\ InputDuration' = InputDuration
  BY <1>2, SameConfig
<1>4. Open' = Open
  BY <1>1, <1>3 DEF Open
<1>5. TypeInv' /\ RightInv'
  BY <1>1, <1>3, <1>4 DEF IndexingInv, TypeInv, RightInv
<1>6. IsCBE => /\ \A e \in Element' : requireUpdates'[e] = {}
               /\ ConstantInv' /\ (indexStatus' = "ok" => ConstantWritten')
  BY <1>1, <1>3 DEF IndexingInv, ConstantInv, FirstUnits, ConstantWritten
<1>7. ~IsCBE => VariableInv'
  <2> SUFFICES ASSUME ~IsCBE PROVE VariableInv'
    OBVIOUS
  <2>1. CacheInv /\ SegmentInv /\ (indexStatus = "ok" => SpansInv)
    BY DEF IndexingInv, VariableInv
  <2>2. CacheInv'
    BY ONLY <1>1, <1>3, <1>4, <2>1 DEF CacheInv, HoldsPosition
  <2>3. SegmentInv'
    BY <1>1, <2>1 DEF SegmentInv
  <2>4. indexStatus' = "ok" => SpansInv'
    BY <1>1, <1>3, <2>1 DEF SpansInv, Kept
  <2> QED BY <2>2, <2>3, <2>4 DEF VariableInv
<1>8. indexStatus' = "ok" /\ stage' # "writing" =>
        /\ duration' > 0 /\ InputDuration' \in {duration', NoDuration}
        /\ \A e \in Element' : requireUpdates'[e] = {}
  BY <1>1, <1>3 DEF IndexingInv
<1> QED BY <1>3, <1>5, <1>6, <1>7, <1>8 DEF IndexingInv

LEMMA NextInv ==
  ASSUME IndexingInv, GOPInv, [Next]_vars
  PROVE  IndexingInv'
<1>1. CASE \E e \in Element : WriteDataFrame(e)
  BY <1>1, WriteDataFrameInv
<1>2. CASE \E complete \in BOOLEAN, key \in {0, 1} : WritePictureFrame(complete, key)
  BY <1>2, WritePictureFrameInv
<1>3. CASE GiveUpPreviousGOP
  BY <1>3, GiveUpPreviousGOPInv
<1>4. CASE \E p \in 0 .. (config.editUnits - 1) : CompleteEntry(p)
  BY <1>4, CompleteEntryInv
<1>5. CASE \E sizes \in config.sizes : WriteUnit(sizes)
  BY <1>5, WriteUnitInv
<1>6. CASE \E sizes \in config.sizes, n \in 1 .. config.samples : WriteClipSamples(sizes, n)
  BY <1>6, WriteClipSamplesInv
<1>7. CASE StartPartition
  BY <1>7, StartPartitionInv
<1>8. CASE CompleteEntries
  BY <1>8, CompleteEntriesInv
<1>9. CASE WriteIndexPartition
  BY <1>9, WriteIndexPartitionInv
<1>10. CASE WriteFooter
  BY <1>10, VariableFooterInv, ConstantFooterInv
<1>11. CASE Rewrite
  BY <1>11, RewriteInv
<1>12. CASE Done
  BY <1>12, StutterInv DEF Done
<1>13. CASE UNCHANGED vars
  BY <1>13, StutterInv
<1> QED BY <1>1, <1>2, <1>3, <1>4, <1>5, <1>6, <1>7, <1>8, <1>9, <1>10, <1>11, <1>12, <1>13
        DEF Next

-----------------------------------------------------------------------------
(* Where segments are cut, and the keys of entries. *)

LEMMA GOPInit == Init => GOPInv
<1> SUFFICES ASSUME Init, ~IsCBE PROVE GOPInv
  BY DEF GOPInv
<1>1. /\ config \in Configs /\ cache = [e \in Element |-> <<>>] /\ segments = <<NewSegment(0)>>
  BY DEF Init, InitIndexTable
<1>2. Picture \in VBEElement /\ Picture \in Element /\ \A e \in Element : DOMAIN cache[e] = {}
  <2>1. \A e \in Element : DOMAIN cache[e] = 1 .. 0
    BY <1>1
  <2> QED BY <1>1, <2>1, ConfigFacts DEF VBEElement
<1>3. IsSegment(NewSegment(0)) /\ NewSegment(0).duration = 0 /\ Len(NewSegment(0).entries) = 0
  BY NewSegmentIs
<1>4. PICK z : z = NewSegment(0)
  OBVIOUS
<1>5. Len(segments) = 1 /\ segments[1] = z /\ DOMAIN segments = {1}
  BY <1>1, <1>4
<1>6. KeysKnown(segments)
  BY <1>3, <1>4, <1>5 DEF KeysKnown
<1>7. SegmentsCutAtGOPs
  <2>1. \A k \in NearlyFull .. (0 - 1) : FALSE
    BY SegmentConstants DEF NearlyFull
  <2>2. 0 <= MaxSegmentEntries
    BY SegmentConstants
  <2> QED BY <1>3, <1>4, <1>5, <2>1, <2>2 DEF SegmentsCutAtGOPs
<1> QED BY <1>2, <1>6, <1>7 DEF GOPInv, KeysInv, VBEElement

(* A step that leaves the segments or frees them all, and adds nothing.     *)
LEMMA GOPSame ==
  ASSUME GOPInv, config' = config, cache' = cache, segments' \in {segments, <<>>}
  PROVE  GOPInv'
<1>1. VBEElement' = VBEElement /\ IsCBE' = IsCBE
  BY SameConfig
<1> SUFFICES ASSUME ~IsCBE PROVE GOPInv'
  BY <1>1 DEF GOPInv
<1>2. KeysKnown(segments) => KeysKnown(segments')
  BY DEF KeysKnown
<1>3. SegmentsCutAtGOPs'
  <2>1. CASE segments' = segments
    BY <1>1, <2>1 DEF GOPInv, SegmentsCutAtGOPs, NearlyFull
  <2>2. CASE segments' = <<>>
    BY <2>2 DEF SegmentsCutAtGOPs
  <2> QED BY <2>1, <2>2
<1> QED BY <1>1, <1>2, <1>3 DEF GOPInv, KeysInv

LEMMA GOPAdded ==
  ASSUME IndexingInv, GOPInv, NEW e \in VBEElement, NEW p, NEW shown, NEW canStart, NEW require,
         AddIndexEntry(e, p, shown, canStart, require),
         e # Picture => canStart,
         e = Picture /\ config.mpeg2 => shown.key = Final[p].key
  PROVE  GOPInv'
<1>1. CASE IndexFails
  BY <1>1, GOPSame DEF IndexFails
<1>2. CASE ~IndexFails
  <2> DEFINE entry == CacheEntry(shown, canStart)
  <2>1. /\ cache' = [cache EXCEPT ![e] = CacheWith(e, p, entry)]
        /\ config' = config /\ segments' = segments
    BY <1>2 DEF AddIndexEntry
  <2>2. entry.canStart = canStart /\ entry.key = shown.key
    BY DEF CacheEntry
  <2> HIDE DEF entry
  <2>3. VBEElement' = VBEElement /\ IsCBE' = IsCBE
    BY <2>1, SameConfig
  <2>4. /\ cache \in [Element -> Range(cache)] /\ e \in Element /\ VBEElement \subseteq Element
        /\ Picture \in Element /\ ~IsCBE
    BY <1>2, ConfigFacts DEF IndexingInv, TypeInv, VBEElement, AddIndexEntry
  <2>5. /\ \A d \in Element : d # e => cache'[d] = cache[d]
        /\ cache'[e] = CacheWith(e, p, entry)
    BY <2>1, <2>4
  <2>6. \A q \in DOMAIN cache'[e] :
          \/ q = p /\ cache'[e][q] = entry
          \/ q \in DOMAIN cache[e] /\ cache'[e][q] = cache[e][q]
    <3>1. PICK f : f = CacheWith(e, p, entry)
      OBVIOUS
    <3>2. \A q \in DOMAIN f : IF q = p THEN f[q] = entry
                                      ELSE q \in DOMAIN cache[e] /\ f[q] = cache[e][q]
      BY <3>1 DEF CacheWith
    <3> QED BY <2>5, <3>1, <3>2
  <2>7. ASSUME NEW d \in VBEElement \ {Picture}, NEW q \in DOMAIN cache'[d]
        PROVE  cache'[d][q].canStart
    <3>1. \A x \in DOMAIN cache[d] : cache[d][x].canStart
      BY <2>4 DEF GOPInv
    <3>2. CASE d = e
      BY <2>2, <2>6, <2>7, <3>1, <3>2
    <3>3. CASE d # e
      BY <2>4, <2>5, <2>7, <3>1, <3>3
    <3> QED BY <3>2, <3>3
  <2>8. ASSUME config.mpeg2, NEW q \in DOMAIN cache'[Picture]
        PROVE  cache'[Picture][q].key = Final[q].key
    <3>1. \A x \in DOMAIN cache[Picture] : cache[Picture][x].key = Final[x].key
      BY <2>4, <2>8 DEF GOPInv, KeysInv
    <3>2. CASE Picture = e
      BY <2>2, <2>6, <2>8, <3>1, <3>2
    <3>3. CASE Picture # e
      BY <2>4, <2>5, <2>8, <3>1, <3>3
    <3> QED BY <3>2, <3>3
  <2>9. SegmentsCutAtGOPs' /\ (config.mpeg2 => KeysKnown(segments'))
    BY <2>1, <2>3, <2>4 DEF GOPInv, KeysInv, SegmentsCutAtGOPs, NearlyFull
  <2> QED BY <2>1, <2>3, <2>7, <2>8, <2>9 DEF GOPInv, KeysInv
<1> QED BY <1>1, <1>2

LEMMA GOPPictureWritten ==
  ASSUME IndexingInv, GOPInv, NEW complete \in BOOLEAN, NEW key,
         WritePictureFrame(complete, key)
  PROVE  GOPInv'
<1> DEFINE p == lastAdded[Picture] + 1
           shown == IF complete THEN Final[p] ELSE IncompleteEntry(p, key)
<1>1. /\ Picture \in VBEElement
      /\ AddIndexEntry(Picture, p, shown, p \in GOPStart, ~complete)
  BY DEF WritePictureFrame
<1>2. config.mpeg2 => shown.key = Final[p].key
  <2>1. config.mpeg2 => IncompleteEntry(p, key).key = Final[p].key
    BY DEF IncompleteEntry
  <2> QED BY <2>1
<1> HIDE DEF p, shown
<1>3. PICK canStart, require : canStart = (p \in GOPStart) /\ require = ~complete
  OBVIOUS
<1> QED BY <1>1, <1>2, <1>3, GOPAdded

LEMMA GOPCompleted ==
  ASSUME IndexingInv, GOPInv, NEW p \in Nat, CompleteEntry(p)
  PROVE  GOPInv'
<1>1. /\ UpdateIndexEntry(Picture, p, Final[p]) /\ ~IsCBE
      /\ Final[p] \in [temporal : Int, key : Nat]
  BY CompletesPicture
<1>2. /\ IsTable(segments) /\ SegmentInv /\ cache \in [Element -> Range(cache)]
      /\ Picture \in Element /\ VBEElement \subseteq Element
      /\ duration \in Nat /\ DOMAIN segments = 1 .. Len(segments)
  BY <1>1, ConfigFacts, TableLen DEF IndexingInv, TypeInv, VariableInv, VBEElement
<1>3. CASE IndexFails \/ indexStatus' = "undefined"
  <2>1. indexStatus # "undefined"
    BY DEF IndexingInv, TypeInv
  <2>2. config' = config /\ cache' = cache /\ segments' = segments
    BY <1>1, <1>3, <2>1 DEF IndexFails, UpdateIndexEntry
  <2> QED BY <2>2, GOPSame
<1>4. CASE ~IndexFails /\ indexStatus' # "undefined" /\ p >= duration
  <2>1. /\ p \in DOMAIN cache[Picture]
        /\ cache' = [cache EXCEPT ![Picture][p] = CacheEntry(Final[p], @.canStart)]
        /\ config' = config /\ segments' = segments
    BY <1>1, <1>2, <1>4 DEF UpdateIndexEntry
  <2>2. VBEElement' = VBEElement /\ IsCBE' = IsCBE
    BY <2>1, SameConfig
  <2>3. \A d \in Element : d # Picture => cache'[d] = cache[d]
    BY <1>2, <2>1
  <2>4. PICK new : new = CacheEntry(Final[p], cache[Picture][p].canStart)
    OBVIOUS
  <2>5. new.key = Final[p].key
    BY <2>4 DEF CacheEntry
  <2>6. cache'[Picture] = [cache[Picture] EXCEPT ![p] = new]
    BY <1>2, <2>1, <2>4
  <2>7. \A q \in DOMAIN cache'[Picture] : q \in DOMAIN cache[Picture] /\
          cache'[Picture][q] = IF q = p THEN new ELSE cache[Picture][q]
    <3>1. PICK f, g : f = cache[Picture] /\ g = cache'[Picture]
      OBVIOUS
    <3>2. g = [f EXCEPT ![p] = new]
      BY <2>6, <3>1
    <3>3. \A q \in DOMAIN g : q \in DOMAIN f /\ g[q] = IF q = p THEN new ELSE f[q]
      BY ONLY <3>2
    <3> QED BY ONLY <3>1, <3>3
  <2>8. \A e \in VBEElement \ {Picture} : \A q \in DOMAIN cache'[e] : cache'[e][q].canStart
    BY <1>1, <1>2, <2>3 DEF GOPInv
  <2>9. config.mpeg2 => \A q \in DOMAIN cache'[Picture] : cache'[Picture][q].key = Final[q].key
    BY <1>1, <2>5, <2>7 DEF GOPInv, KeysInv
  <2>10. SegmentsCutAtGOPs' /\ (config.mpeg2 => KeysKnown(segments'))
    BY <1>1, <2>1, <2>2 DEF GOPInv, KeysInv, SegmentsCutAtGOPs, NearlyFull
  <2> QED BY <2>1, <2>2, <2>8, <2>9, <2>10 DEF GOPInv, KeysInv
<1>5. CASE ~IndexFails /\ indexStatus' # "undefined" /\ ~(p >= duration)
  <2>1. /\ \E i \in DOMAIN segments :
             /\ HoldsPosition(i, p)
             /\ segments' = [segments EXCEPT
                  ![i].entries[p - segments[i].start + 1] =
                    SegmentEntry(Final[p], @.offset, @.slices)]
        /\ config' = config /\ cache' = cache
    BY <1>1, <1>5, Zenon DEF UpdateIndexEntry
  <2>2. VBEElement' = VBEElement /\ IsCBE' = IsCBE
    BY <2>1, SameConfig
  <2>3. PICK i \in 1 .. Len(segments) :
          /\ HoldsPosition(i, p)
          /\ segments' = [segments EXCEPT
               ![i].entries[p - segments[i].start + 1] =
                 SegmentEntry(Final[p], @.offset, @.slices)]
    BY <1>2, <2>1
  <2>4. IsSegment(segments[i]) /\ Len(segments[i].entries) = segments[i].duration
    BY <1>2 DEF IsTable, SegmentInv
  <2>5. PICK s \in Nat, d \in Nat : s = segments[i].start /\ d = segments[i].duration
    BY <2>4 DEF IsSegment
  <2>6. PICK k \in 1 .. Len(segments[i].entries) : k = p - s + 1
    <3>1. p - s + 1 \in 1 .. d
      BY <2>3, <2>5 DEF HoldsPosition
    <3> QED BY <2>4, <2>5, <3>1
  <2>7. PICK new : new = SegmentEntry(Final[p], segments[i].entries[k].offset,
                                      segments[i].entries[k].slices)
    OBVIOUS
  <2>8. new.key = Final[p].key /\ s + k - 1 = p
    <3>1. k \in Int
      BY <2>4, <2>5
    <3> QED BY <2>6, <2>7, <3>1 DEF SegmentEntry
  <2>9. /\ SamePlaces(segments, segments')
        /\ \A j \in 1 .. Len(segments) : Len(segments'[j].entries) = Len(segments[j].entries)
        /\ \A j \in 1 .. Len(segments) : \A n \in 1 .. Len(segments[j].entries) :
             segments'[j].entries[n] = IF j = i /\ n = k THEN new ELSE segments[j].entries[n]
    <3>1. PICK list, out : list = segments /\ out = CompletedList(list, i, k, new)
      OBVIOUS
    <3>2. IsTable(list) /\ i \in 1 .. Len(list) /\ k \in 1 .. Len(list[i].entries)
      BY <1>2, <3>1
    <3>3. /\ IsTable(out) /\ SamePlaces(list, out)
          /\ \A j \in 1 .. Len(list) : Len(out[j].entries) = Len(list[j].entries)
          /\ \A j \in 1 .. Len(list) : \A n \in 1 .. Len(list[j].entries) :
               out[j].entries[n] = IF j = i /\ n = k THEN new ELSE list[j].entries[n]
      BY ONLY <3>1, <3>2, SegmentCompleted
    <3>4. segments' = out
      BY <2>3, <2>5, <2>6, <2>7, <3>1 DEF CompletedList
    <3> QED BY ONLY <3>1, <3>3, <3>4
  <2>10. /\ Len(segments') = Len(segments)
         /\ \A j \in 1 .. Len(segments) : /\ segments'[j].start = segments[j].start
                                          /\ segments'[j].duration = segments[j].duration
    BY <2>9 DEF SamePlaces
  <2>11. config.mpeg2 => KeysKnown(segments')
    <3>1. ASSUME config.mpeg2, NEW j \in 1 .. Len(segments),
                 NEW n \in 1 .. Len(segments[j].entries)
          PROVE  segments'[j].entries[n].key = Final[segments[j].start + n - 1].key
      <4>1. segments[j].entries[n].key = Final[segments[j].start + n - 1].key
        BY <1>1, <3>1 DEF GOPInv, KeysInv, KeysKnown
      <4> QED BY <2>5, <2>8, <2>9, <4>1
    <3>2. PICK list : list = segments'
      OBVIOUS
    <3>3. /\ Len(list) = Len(segments)
          /\ \A j \in 1 .. Len(segments) : /\ list[j].start = segments[j].start
                                          /\ Len(list[j].entries) = Len(segments[j].entries)
      BY ONLY <2>9, <2>10, <3>2
    <3>4. ASSUME config.mpeg2, NEW j \in 1 .. Len(list), NEW n \in 1 .. Len(list[j].entries)
          PROVE  list[j].entries[n].key = Final[list[j].start + n - 1].key
      <4>1. /\ j \in 1 .. Len(segments) /\ list[j].start = segments[j].start
            /\ n \in 1 .. Len(segments[j].entries)
        BY <3>3
      <4>2. segments'[j].entries[n].key = Final[segments[j].start + n - 1].key
        BY <3>1, <3>4, <4>1
      <4> QED BY ONLY <3>2, <4>1, <4>2
    <3>5. config.mpeg2 => KeysKnown(list)
      BY <3>4 DEF KeysKnown
    <3> QED BY <3>2, <3>5
  <2>12. SegmentsCutAtGOPs'
    <3>1. IsTable(segments')
      <4>1. PICK list, out : list = segments /\ out = CompletedList(list, i, k, new)
        OBVIOUS
      <4>2. IsTable(list) /\ i \in 1 .. Len(list) /\ k \in 1 .. Len(list[i].entries)
        BY <1>2, <4>1
      <4>3. IsTable(out)
        BY ONLY <4>1, <4>2, SegmentCompleted
      <4> QED BY <2>3, <2>5, <2>6, <2>7, <4>1, <4>3 DEF CompletedList
    <3>2. DOMAIN segments' = DOMAIN segments
      BY <1>2, <2>10, <3>1, TableLen
    <3>3. \A j \in DOMAIN segments : j > 1 => j - 1 \in 1 .. Len(segments)
      BY <1>2, TableLen
    <3>4. SegmentsCutAtGOPs
      BY <1>1 DEF GOPInv
    <3> QED BY <1>1, <1>2, <2>2, <2>10, <3>2, <3>3, <3>4 DEF SegmentsCutAtGOPs, NearlyFull
  <2> QED BY <1>1, <2>1, <2>2, <2>11, <2>12 DEF GOPInv, KeysInv
<1> QED BY <1>3, <1>4, <1>5

(* With the elements other than the picture always ready, an edit unit can  *)
(* start a partition exactly where the picture starts a GOP.                *)
LEMMA CanStartAtGOP ==
  ASSUME IndexingInv, GOPInv, ~IsCBE, HaveUnit
  PROVE  CanStartPartition <=> duration \in GOPStart
<1>1. /\ Picture \in VBEElement /\ duration \in DOMAIN cache[Picture] /\ CacheInv
      /\ duration \in Nat /\ lastAdded \in [Element -> Int]
  BY EntryIsPictures DEF IndexingInv, TypeInv, VariableInv
<1>2. cache[Picture][duration].canStart = (duration \in GOPStart)
  BY <1>1 DEF CacheInv
<1>3. ASSUME NEW e \in VBEElement, e # Picture PROVE cache[e][duration].canStart
  <2>1. lastAdded[e] >= duration /\ DOMAIN cache[e] = duration .. lastAdded[e]
        /\ lastAdded[e] \in Int
    BY <1>1 DEF HaveUnit, CacheInv, VBEElement
  <2>2. duration \in DOMAIN cache[e]
    BY <1>1, <2>1
  <2> QED BY <1>3, <2>2 DEF GOPInv
<1>4. CanStartPartition => duration \in GOPStart
  BY <1>1, <1>2 DEF CanStartPartition, VBEElement
<1>5. ASSUME duration \in GOPStart PROVE CanStartPartition
  <2>1. \A e \in VBEElement : cache[e][duration].canStart
    <3> SUFFICES ASSUME NEW e \in VBEElement PROVE cache[e][duration].canStart
      OBVIOUS
    <3>1. CASE e = Picture
      BY <1>2, <1>5, <3>1
    <3>2. CASE e # Picture
      BY <1>3, <3>2
    <3> QED BY <3>1, <3>2
  <2> QED BY <2>1 DEF CanStartPartition, VBEElement
<1> QED BY <1>4, <1>5

(* The edit unit that is taken goes to a segment that has room for it.      *)
LEMMA GOPTaken ==
  ASSUME IndexingInv, GOPInv, ~IsCBE, Running, HaveUnit, NEW sizes, UpdateVBEIndex(sizes),
         config' = config, duration' = duration + 1
  PROVE  GOPInv'
<1>1. VBEElement' = VBEElement /\ IsCBE' = IsCBE
  BY SameConfig
<1>2. PICK n : Taken(segments, segments', n)
  BY UnitTaken
<1>3. /\ IsTable(segments) /\ IsTable(segments') /\ SegmentInv /\ duration \in Nat
      /\ n \in Nat \ {0} /\ Len(segments') = n /\ Len(segments) \in {n - 1, n}
      /\ DOMAIN segments = 1 .. Len(segments) /\ DOMAIN segments' = 1 .. n
      /\ n \in 1 .. n /\ \A i \in 1 .. n : i = n \/ i \in 1 .. (n - 1)
      /\ MaxSegmentEntries \in Nat \ {0} /\ NearlyFull \in 1 .. MaxSegmentEntries
  BY <1>2, TableLen, SegmentConstants DEF IndexingInv, TypeInv, VariableInv, Taken, NearlyFull
<1>4. ASSUME NEW i \in 1 .. (n - 1)
      PROVE  i \in 1 .. Len(segments) /\ i \in 1 .. n /\ segments'[i] = segments[i]
  <2>1. n \in Nat /\ Len(segments) \in {n - 1, n}
    BY <1>3
  <2>2. i \in 1 .. Len(segments) /\ i \in 1 .. n
    BY ONLY <2>1, i \in 1 .. (n - 1)
  <2> QED BY <1>2, <2>2 DEF Taken
<1>5. CanStartPartition <=> duration \in GOPStart
  BY CanStartAtGOP
<1>6. PICK b \in Nat, c \in Nat : b = segments'[n].start /\ c = segments'[n].duration
  BY <1>3 DEF IsTable, IsSegment
<1>7. /\ c \in 1 .. MaxSegmentEntries /\ b + c = duration + 1 /\ Len(segments'[n].entries) = c
      /\ Len(segments) = n => b = segments[n].start /\ c = segments[n].duration + 1
      /\ Len(segments) = n - 1 => b = duration /\ c = 1
  BY <1>2, <1>6 DEF Taken
<1>8. Len(segments) = n - 1 <=> RequireNewSegment
  <2>1. CASE RequireNewSegment
    <3>1. PICK s : segments' = Append(segments, s)
      BY <2>1 DEF UpdateVBEIndex
    <3>2. Len(segments') = Len(segments) + 1
      <4>1. segments \in Seq(Range(segments) \cup {s}) /\ s \in Range(segments) \cup {s}
        <5>1. segments \in Seq(Range(segments))
          BY <1>3 DEF IsTable
        <5> QED BY <5>1, SeqMonotonic
      <4>2. Len(Append(segments, s)) = Len(segments) + 1
        BY ONLY <4>1, AppendProperties
      <4> QED BY <3>1, <4>2
    <3> QED BY <1>3, <2>1, <3>2, TableLen
  <2>2. CASE ~RequireNewSegment
    <3>1. segments' = [segments EXCEPT ![Len(segments)] = AddToSegment(@, sizes)]
      BY <2>2 DEF UpdateVBEIndex
    <3>2. PICK l, s : l = Len(segments) /\ s = AddToSegment(segments[l], sizes)
      OBVIOUS
    <3>3. segments' = [segments EXCEPT ![l] = s]
      BY <3>1, <3>2
    <3>4. DOMAIN segments' = DOMAIN segments
      BY <3>3
    <3>5. n \in Nat /\ Len(segments) \in Nat /\ 1 .. n = 1 .. Len(segments)
      BY <1>3, <3>4, TableLen
    <3>6. Len(segments) \in {n - 1, n} /\ n \in 1 .. n
      BY <1>3
    <3>7. Len(segments) # n - 1
      BY ONLY <3>5, <3>6
    <3> QED BY <2>2, <3>7
  <2> QED BY <2>1, <2>2
<1>9. SegmentsCutAtGOPs
  BY DEF GOPInv
<1>10. ASSUME Len(segments) = n
       PROVE  \/ segments[n].duration < NearlyFull
              \/ duration \notin GOPStart
  <2>1. ~RequireNewSegment /\ n \in 1 .. Len(segments)
    BY <1>3, <1>8, <1>10
  <2>2. segments[n].duration \in Nat
    BY <1>3, <2>1 DEF IsTable, IsSegment
  <2>3. ~(segments[n].duration >= NearlyFull /\ duration \in GOPStart)
    BY <1>5, <1>10, <2>1 DEF RequireNewSegment, NearlyFull
  <2>4. NearlyFull \in Nat
    <3>1. MaxSegmentEntries \in Nat \ {0} /\ NearlyFull \in 1 .. MaxSegmentEntries
      BY <1>3
    <3> QED BY ONLY <3>1
  <2>5. PICK d \in Nat : d = segments[n].duration
    BY <2>2
  <2>6. ~(d >= NearlyFull) => d < NearlyFull
    BY ONLY <2>4, d \in Nat
  <2> QED BY <2>3, <2>5, <2>6
<1>11. ASSUME Len(segments) = n - 1, n > 1
       PROVE  \/ segments[n - 1].duration = MaxSegmentEntries
              \/ duration \in GOPStart /\ segments[n - 1].duration >= NearlyFull
  <2>1. segments # <<>> /\ n - 1 \in 1 .. Len(segments)
    BY <1>3, <1>11
  <2>2. segments[n - 1].duration <= MaxSegmentEntries /\ segments[n - 1].duration \in Nat
    BY <1>3, <2>1 DEF SegmentInv, IsTable, IsSegment
  <2>3. PICK d \in Nat : d = segments[n - 1].duration
    BY <2>2
  <2>4. RequireNewSegment
    BY <1>8, <1>11
  <2>5. d >= MaxSegmentEntries \/ (d >= NearlyFull /\ duration \in GOPStart)
    BY <1>5, <1>11, <2>1, <2>3, <2>4 DEF RequireNewSegment, NearlyFull
  <2>6. d <= MaxSegmentEntries /\ MaxSegmentEntries \in Nat
    BY <1>3, <2>2, <2>3
  <2>7. d = MaxSegmentEntries \/ (d >= NearlyFull /\ duration \in GOPStart)
    BY ONLY <2>5, <2>6, d \in Nat
  <2> QED BY <2>3, <2>7
<1>12. ASSUME NEW i \in 1 .. n
       PROVE  /\ segments'[i].duration <= MaxSegmentEntries
              /\ \A k \in NearlyFull .. (segments'[i].duration - 1) :
                   segments'[i].start + k \notin GOPStart
  <2>1. CASE i = n
    <3>1. ASSUME NEW k \in NearlyFull .. (c - 1) PROVE b + k \notin GOPStart
      <4>1. Len(segments) = n
        <5>1. MaxSegmentEntries \in Nat \ {0} /\ NearlyFull \in 1 .. MaxSegmentEntries
          BY <1>3
        <5>2. Len(segments) = n - 1 => c = 1
          BY <1>7
        <5>3. c # 1
          BY ONLY <3>1, <5>1, c \in Nat
        <5>4. Len(segments) \in {n - 1, n}
          BY <1>3
        <5> QED BY ONLY <5>2, <5>3, <5>4
      <4>2. b = segments[n].start /\ c = segments[n].duration + 1 /\ n \in DOMAIN segments
        BY <1>3, <1>7, <4>1
      <4>3. PICK d \in Nat : d = segments[n].duration
        BY <1>3, <4>1 DEF IsTable, IsSegment
      <4>4. CASE k = c - 1
        <5>0. /\ duration \in Nat /\ b + c = duration + 1 /\ c = d + 1
              /\ NearlyFull \in 1 .. MaxSegmentEntries /\ MaxSegmentEntries \in Nat
          BY <1>3, <1>7, <4>2, <4>3
        <5>1. b + k = duration /\ d >= NearlyFull
          BY ONLY <3>1, <4>4, <5>0, b \in Nat, c \in Nat, d \in Nat
        <5>2. ~(d < NearlyFull)
          BY ONLY <5>0, <5>1, d \in Nat
        <5> QED BY <1>10, <4>1, <4>3, <5>1, <5>2
      <4>5. CASE k # c - 1
        <5>0. c = d + 1 /\ NearlyFull \in 1 .. MaxSegmentEntries /\ MaxSegmentEntries \in Nat
          BY <1>3, <4>2, <4>3
        <5>1. k \in NearlyFull .. (d - 1)
          BY ONLY <3>1, <4>5, <5>0, c \in Nat, d \in Nat
        <5> QED BY <1>9, <4>2, <4>3, <5>1 DEF SegmentsCutAtGOPs
      <4> QED BY <4>4, <4>5
    <3> QED BY <1>6, <1>7, <2>1, <3>1
  <2>2. CASE i # n
    <3>1. i \in 1 .. (n - 1)
      BY <1>3, <2>2
    <3> QED BY <1>3, <1>4, <1>9, <3>1 DEF SegmentsCutAtGOPs
  <2> QED BY <2>1, <2>2
<1>13. ASSUME NEW i \in 1 .. n, i > 1
       PROVE  \/ segments'[i - 1].duration = MaxSegmentEntries
              \/ segments'[i].start \in GOPStart /\ segments'[i - 1].duration >= NearlyFull
  <2>1. i - 1 \in 1 .. (n - 1) /\ segments'[i - 1] = segments[i - 1]
    <3>1. n \in Nat
      BY <1>3
    <3>2. i - 1 \in 1 .. (n - 1)
      BY ONLY <1>13, <3>1, i \in 1 .. n
    <3> QED BY <1>4, <3>2
  <2>2. CASE i = n /\ Len(segments) = n - 1
    BY <1>6, <1>7, <1>11, <1>13, <2>1, <2>2
  <2>3. CASE ~(i = n /\ Len(segments) = n - 1)
    <3>1. i \in DOMAIN segments /\ segments'[i].start = segments[i].start
      BY <1>3, <1>4, <1>6, <1>7, <2>3
    <3> QED BY <1>9, <1>13, <2>1, <3>1 DEF SegmentsCutAtGOPs
  <2> QED BY <2>2, <2>3
<1>14. SegmentsCutAtGOPs'
  BY <1>1, <1>3, <1>12, <1>13 DEF SegmentsCutAtGOPs, NearlyFull
<1>15. /\ cache' = [e \in Element |-> [p \in NotTaken(e) |-> cache[e][p]]]
       /\ VBEElement \subseteq Element /\ Picture \in Element
  BY ConfigFacts DEF UpdateVBEIndex, IndexingInv, TypeInv, VBEElement
<1>16. ASSUME NEW e \in Element, NEW p \in DOMAIN cache'[e]
       PROVE  p \in DOMAIN cache[e] /\ cache'[e][p] = cache[e][p]
  <2>1. cache'[e] = [q \in NotTaken(e) |-> cache[e][q]]
    BY <1>15
  <2> QED BY <1>16, <2>1 DEF NotTaken
<1>17. \A e \in VBEElement \ {Picture} : \A p \in DOMAIN cache'[e] : cache'[e][p].canStart
  BY <1>15, <1>16 DEF GOPInv
<1>18. ASSUME config.mpeg2 PROVE KeysInv'
  <2>1. /\ \A p \in DOMAIN cache[Picture] : cache[Picture][p].key = Final[p].key
        /\ KeysKnown(segments)
    BY <1>18 DEF GOPInv, KeysInv
  <2>2. \A p \in DOMAIN cache'[Picture] : cache'[Picture][p].key = Final[p].key
    BY <1>15, <1>16, <2>1
  <2>3. segments'[n].entries[c].key = Final[duration].key
    <3>1. segments'[n].entries[c] = SegmentEntry(EntryForUnit, streamOffset, SliceStarts(sizes))
      BY <1>3, <1>6, UnitTaken
    <3>2. /\ duration \in DOMAIN cache[Picture]
          /\ EntryForUnit = Shown(cache[Picture][duration])
      BY EntryIsPictures
    <3>3. EntryForUnit.key = cache[Picture][duration].key
      BY <3>2 DEF Shown
    <3>4. segments'[n].entries[c].key = EntryForUnit.key
      BY <3>1 DEF SegmentEntry
    <3> QED BY <2>1, <3>2, <3>3, <3>4
  <2>4. KeysKnown(segments')
    <3> SUFFICES ASSUME NEW i \in 1 .. n, NEW k \in 1 .. Len(segments'[i].entries)
                 PROVE  segments'[i].entries[k].key = Final[segments'[i].start + k - 1].key
      BY <1>3 DEF KeysKnown
    <3>1. CASE i # n
      <4>1. i \in 1 .. (n - 1)
        BY <1>3, <3>1
      <4>2. i \in 1 .. Len(segments) /\ segments'[i] = segments[i]
        BY <1>4, <4>1
      <4> QED BY <2>1, <4>2 DEF KeysKnown
    <3>2. CASE i = n /\ k = c
      <4>1. b + c - 1 = duration
        <5>1. duration \in Nat /\ b + c = duration + 1
          BY <1>3, <1>7
        <5> QED BY ONLY <5>1, b \in Nat, c \in Nat
      <4> QED BY <1>6, <2>3, <3>2, <4>1
    <3>3. CASE i = n /\ k # c
      <4>1. k \in 1 .. c /\ Len(segments) = n
        <5>1. k \in 1 .. c /\ Len(segments) \in {n - 1, n} /\ (Len(segments) = n - 1 => c = 1)
          BY <1>3, <1>7, <3>3
        <5> QED BY ONLY <3>3, <5>1
      <4>2. PICK d \in Nat : d = segments[n].duration /\ Len(segments[n].entries) = d
        BY <1>3, <4>1 DEF IsTable, IsSegment, SegmentInv
      <4>3. b = segments[n].start /\ c = d + 1 /\ k \in 1 .. d
        BY <1>7, <3>3, <4>1, <4>2
      <4>4. segments'[n].entries[k] = segments[n].entries[k]
        BY <1>2, <4>1, <4>2, <4>3 DEF Taken
      <4>5. segments[n].entries[k].key = Final[segments[n].start + k - 1].key
        BY <1>3, <2>1, <4>1, <4>2, <4>3 DEF KeysKnown
      <4> QED BY <1>6, <3>3, <4>3, <4>4, <4>5
    <3> QED BY <3>1, <3>2, <3>3
  <2> QED BY <2>2, <2>4 DEF KeysInv
<1> QED BY <1>1, <1>14, <1>17, <1>18 DEF GOPInv

LEMMA GOPFlushed ==
  ASSUME GOPInv, ~IsCBE, NEW isFooter, NEW final, WriteSegments(isFooter, final)
  PROVE  GOPInv'
<1>1. config' = config /\ cache' = cache /\ segments' \in {segments, <<>>}
  BY DEF WriteSegments, IndexFails
<1> QED BY <1>1, GOPSame

(* A table stays variable or constant.                                      *)
LEMMA KindStays ==
  ASSUME IndexingInv, [Next]_vars
  PROVE  IsCBE' = IsCBE
<1>1. ASSUME NEW s PROVE UpdateIndex(s) => config' = config
  BY DEF UpdateIndex, IndexFails
<1>2. ASSUME NEW isFooter, NEW final PROVE WriteSegments(isFooter, final) => config' = config
  BY DEF WriteSegments, IndexFails
<1>3. config' = config
  <2>1. ASSUME NEW e \in Element, WriteDataFrame(e) PROVE config' = config
    BY <2>1 DEF WriteDataFrame, AddIndexEntry, IndexFails
  <2>2. ASSUME NEW complete \in BOOLEAN, NEW key \in {0, 1}, WritePictureFrame(complete, key)
        PROVE  config' = config
    BY <2>2 DEF WritePictureFrame, AddIndexEntry, IndexFails
  <2>3. GiveUpPreviousGOP => config' = config
    BY DEF GiveUpPreviousGOP, IgnoreRequiredUpdates
  <2>4. ASSUME NEW p, CompleteEntry(p) PROVE config' = config
    BY <2>4 DEF CompleteEntry, CompletePictureEntry, UpdateTemporalOffset, UpdateIndexEntry,
                IndexFails
  <2>5. ASSUME NEW sizes, WriteUnit(sizes) PROVE config' = config
    BY <1>1, <2>5 DEF WriteUnit
  <2>6. ASSUME NEW sizes, NEW n, WriteClipSamples(sizes, n) PROVE config' = config
    BY <1>1, <2>6 DEF WriteClipSamples, UpdateIndexSamples, IndexFails
  <2>7. StartPartition \/ WriteIndexPartition => config' = config
    <3>1. PICK final : final = ~IsCBE
      OBVIOUS
    <3> QED BY <1>2, <3>1 DEF StartPartition, WriteIndexPartition
  <2>8. CompleteEntries => config' = config
    BY DEF CompleteEntries, IgnoreRequiredUpdates, IndexFails
  <2>9. WriteFooter \/ Rewrite => config' = config
    BY <1>2 DEF WriteFooter, Rewrite, indexVars
  <2>10. Done \/ UNCHANGED vars => config' = config
    BY DEF Done, vars, indexVars
  <2> QED BY <2>1, <2>2, <2>3, <2>4, <2>5, <2>6, <2>7, <2>8, <2>9, <2>10 DEF Next
<1> QED BY <1>3, SameConfig

LEMMA GOPNext ==
  ASSUME IndexingInv, GOPInv, [Next]_vars
  PROVE  GOPInv'
<1> DEFINE Same == UNCHANGED <<config, cache, segments>>
<1>0. CASE IsCBE
  BY <1>0, KindStays DEF GOPInv
<1> SUFFICES ASSUME ~IsCBE PROVE GOPInv'
  BY <1>0
<1>1. ASSUME NEW e \in Element, WriteDataFrame(e) PROVE GOPInv'
  <2>1. PICK p, shown : e \in VBEElement /\ e # Picture /\ AddIndexEntry(e, p, shown, TRUE, FALSE)
    BY <1>1 DEF WriteDataFrame
  <2>2. PICK canStart, require : canStart = TRUE /\ require = FALSE
    OBVIOUS
  <2> QED BY <2>1, <2>2, GOPAdded
<1>2. ASSUME NEW complete \in BOOLEAN, NEW key, WritePictureFrame(complete, key) PROVE GOPInv'
  BY <1>2, GOPPictureWritten
<1>3. GiveUpPreviousGOP => Same
  BY DEF GiveUpPreviousGOP, IgnoreRequiredUpdates
<1>4. ASSUME NEW p \in 0 .. (config.editUnits - 1), CompleteEntry(p) PROVE GOPInv'
  BY <1>4, GOPCompleted
<1>5. ASSUME NEW sizes, WriteUnit(sizes) PROVE GOPInv'
  <2>1. Running /\ HaveUnit /\ UpdateIndex(sizes)
    BY <1>5 DEF WriteUnit
  <2>2. CASE IndexFails
    BY <2>2, GOPSame DEF IndexFails
  <2>3. CASE ~IndexFails
    <3>1. UpdateVBEIndex(sizes) /\ config' = config /\ duration' = duration + 1
      BY <2>1, <2>3 DEF UpdateIndex
    <3> QED BY <2>1, <3>1, GOPTaken
  <2> QED BY <2>2, <2>3
<1>6. ASSUME NEW sizes, NEW n, WriteClipSamples(sizes, n) PROVE FALSE
  BY <1>6, ConfigFacts DEF WriteClipSamples, IndexingInv, TypeInv
<1>7. StartPartition => GOPInv'
  <2>1. PICK final : final = ~IsCBE
    OBVIOUS
  <2> QED BY <2>1, GOPFlushed DEF StartPartition
<1>8. CompleteEntries => Same
  BY DEF CompleteEntries, IgnoreRequiredUpdates, IndexFails
<1>9. WriteIndexPartition => GOPInv'
  BY GOPFlushed DEF WriteIndexPartition
<1>10. WriteFooter => GOPInv'
  <2>1. WriteFooter /\ ~HaveFooterSegments => Same
    BY DEF WriteFooter, indexVars
  <2>2. WriteFooter /\ HaveFooterSegments => GOPInv'
    BY GOPFlushed DEF WriteFooter
  <2> QED BY <2>1, <2>2, GOPSame
<1>11. Rewrite => Same
  BY DEF Rewrite, indexVars
<1>12. Done => Same
  BY DEF Done, vars, indexVars
<1>13. UNCHANGED vars => Same
  BY DEF vars, indexVars
<1>14. Same => GOPInv'
  BY GOPSame
<1> HIDE DEF Same
<1> QED BY <1>1, <1>2, <1>3, <1>4, <1>5, <1>6, <1>7, <1>8, <1>9, <1>10, <1>11, <1>12, <1>13,
           <1>14 DEF Next

-----------------------------------------------------------------------------
(* Where the elements are. *)

Sizes == [1 .. Len(Elements) -> Nat]

(* The elements are numbered from 1, each once, and have sizes.             *)
LEMMA ElementFacts ==
  ASSUME config \in Configs
  PROVE  /\ Len(Elements) \in Nat \ {0} /\ DOMAIN Elements = 1 .. Len(Elements)
         /\ \A i \in 1 .. Len(Elements) : Elements[i] \in Element
         /\ \A i, j \in 1 .. Len(Elements) : Elements[i] = Elements[j] => i = j
         /\ config.sizes \subseteq Sizes
<1>1. Elements \in Seq(Element) /\ Elements # <<>>
  BY IndexTableAssumption DEF Elements, Element
<1>2. Len(Elements) \in Nat \ {0} /\ DOMAIN Elements = 1 .. Len(Elements)
  BY <1>1, LenProperties, EmptySeq
<1>3. \A i \in 1 .. Len(Elements) : Elements[i] \in Element
  BY <1>1, <1>2, ElementOfSeq
<1>4. /\ \A i, j \in DOMAIN Elements : Elements[i] = Elements[j] => i = j
      /\ config.sizes \subseteq [DOMAIN Elements -> Nat]
  BY SizesAssumption DEF Elements
<1> QED BY <1>2, <1>3, <1>4 DEF Sizes

(* Indices of elements are finitely many.                                   *)
LEMMA FiniteIndices ==
  ASSUME NEW n \in Nat, NEW A \in SUBSET (1 .. n)
  PROVE  IsFiniteSet(A)
<1>1. 1 \in Int /\ n \in Int
  OBVIOUS
<1>2. IsFiniteSet(1 .. n)
  BY ONLY <1>1, FS_Interval
<1> QED BY <1>2, FS_Subset

(* The elements after which a slice ends before element i.                  *)
Ends(i) == {j \in 2 .. i : Elements[j - 1] \notin CBEElement}

(* Slices are numbered in the order of the elements, from one variable      *)
(* element to the next.                                                     *)
LEMMA SliceFacts ==
  ASSUME NEW i \in Nat, NEW j \in Nat, i <= j
  PROVE  /\ SliceOffset(i) \in Nat /\ SliceOffset(j) \in Nat
         /\ SliceOffset(i) <= SliceOffset(j)
         /\ \A k \in 1 .. (j - 1) :
              i <= k /\ Elements[k] \notin CBEElement => SliceOffset(i) < SliceOffset(j)
<1>1. SliceOffset(i) = Cardinality(Ends(i)) /\ SliceOffset(j) = Cardinality(Ends(j))
  BY DEF SliceOffset, Ends
<1>2. IsFiniteSet(2 .. j) /\ Ends(j) \in SUBSET (2 .. j)
  BY FS_Interval DEF Ends
<1>3. IsFiniteSet(Ends(j)) /\ Ends(i) \in SUBSET Ends(j)
  <2>1. IsFiniteSet(Ends(j))
    BY <1>2, FS_Subset
  <2>2. \A k \in 2 .. i : k \in 2 .. j
    OBVIOUS
  <2> QED BY <2>1, <2>2 DEF Ends
<1>4. /\ IsFiniteSet(Ends(i)) /\ Cardinality(Ends(i)) <= Cardinality(Ends(j))
      /\ Cardinality(Ends(i)) = Cardinality(Ends(j)) => Ends(i) = Ends(j)
  BY <1>3, FS_Subset
<1>5. Cardinality(Ends(i)) \in Nat /\ Cardinality(Ends(j)) \in Nat
  BY <1>3, <1>4, FS_CardinalityType
<1>6. ASSUME NEW k \in 1 .. (j - 1), i <= k, Elements[k] \notin CBEElement
      PROVE  Ends(i) # Ends(j)
  <2>1. k + 1 \in 2 .. j /\ k + 1 \notin 2 .. i /\ (k + 1) - 1 = k
    BY <1>6
  <2> QED BY <1>6, <2>1 DEF Ends
<1> QED BY <1>1, <1>4, <1>5, <1>6

(* The elements before element e are those in earlier slices and those      *)
(* before it in its own, all of which have a constant size.                 *)
LEMMA BeforeElement ==
  ASSUME config \in Configs, NEW e \in 1 .. Len(Elements), NEW s, s = SliceOffset(e)
  PROVE  /\ s \in 0 .. SliceCount
         /\ 1 .. (e - 1) = {j \in DOMAIN Elements : SliceOffset(j) < s}
                             \cup {j \in 1 .. (e - 1) : SliceOffset(j) = s}
         /\ s = 0 => {j \in DOMAIN Elements : SliceOffset(j) < s} = {}
         /\ \A j \in 1 .. (e - 1) : SliceOffset(j) = s => Elements[j] \in CBEElement
<1>1. Len(Elements) \in Nat \ {0} /\ DOMAIN Elements = 1 .. Len(Elements)
  BY ElementFacts
<1>2. s \in Nat /\ SliceCount \in Nat /\ s <= SliceCount
  BY <1>1, SliceFacts DEF SliceCount
<1>3. ASSUME NEW j \in 1 .. Len(Elements), SliceOffset(j) < s PROVE j \in 1 .. (e - 1)
  <2>1. ~(e <= j)
    <3> SUFFICES ASSUME e <= j PROVE FALSE
      OBVIOUS
    <3>1. SliceOffset(e) <= SliceOffset(j) /\ SliceOffset(j) \in Nat
      BY <1>1, SliceFacts
    <3> QED BY <1>2, <1>3, <3>1
  <2> QED BY <1>1, <2>1
<1>4. ASSUME NEW j \in 1 .. (e - 1)
      PROVE  /\ j \in 1 .. Len(Elements) /\ SliceOffset(j) \in Nat /\ SliceOffset(j) <= s
             /\ SliceOffset(j) = s => Elements[j] \in CBEElement
  <2>1. j \in Nat /\ e \in Nat /\ j <= e /\ j \in 1 .. Len(Elements) /\ j <= j
    BY <1>1
  <2>2. /\ SliceOffset(j) \in Nat /\ SliceOffset(j) <= SliceOffset(e)
        /\ Elements[j] \notin CBEElement => SliceOffset(j) < SliceOffset(e)
    BY <2>1, SliceFacts
  <2> QED BY <1>2, <2>1, <2>2
<1>5. ASSUME NEW j \in 1 .. Len(Elements) PROVE SliceOffset(j) \in Nat
  BY <1>1, SliceFacts
<1>6. \A j \in 1 .. (e - 1) : SliceOffset(j) < s \/ SliceOffset(j) = s
  BY <1>2, <1>4
<1> QED BY <1>1, <1>2, <1>3, <1>4, <1>5, <1>6

(* Entry, slice and delta together lead to the element.                     *)
LEMMA SliceAndDelta ==
  ASSUME config \in Configs, NEW u \in Sizes, NEW e \in 1 .. Len(Elements),
         NEW s, s = SliceOffset(e)
  PROVE  /\ SizeOf(u, 1 .. (e - 1)) =
              (IF s = 0 THEN 0 ELSE SliceStarts(u)[s]) + DeltaEntries(u)[e].delta
         /\ DeltaEntries(u)[e].slice = s
         /\ (IF s = 0 THEN 0 ELSE SliceStarts(u)[s]) \in Nat /\ DeltaEntries(u)[e].delta \in Nat
<1> DEFINE A == {j \in DOMAIN Elements : SliceOffset(j) < s}
           B == {j \in 1 .. (e - 1) : SliceOffset(j) = s}
<1>1. Len(Elements) \in Nat \ {0} /\ DOMAIN Elements = 1 .. Len(Elements)
  BY ElementFacts
<1>2. /\ s \in 0 .. SliceCount /\ 1 .. (e - 1) = A \cup B /\ (s = 0 => A = {})
  BY BeforeElement
<1>3. A \in SUBSET (1 .. Len(Elements)) /\ B \in SUBSET (1 .. Len(Elements)) /\ A \cap B = {}
  <2>1. A \in SUBSET (1 .. Len(Elements))
    BY <1>1
  <2>2. B \in SUBSET (1 .. Len(Elements))
    BY <1>1
  <2>3. s \in Int
    BY <1>1, SliceFacts
  <2> QED BY <2>1, <2>2, <2>3
<1>4. DeltaEntries(u)[e] = [slice |-> s, delta |-> SizeOf(u, B)]
  BY <1>1 DEF DeltaEntries
<1>5. s # 0 => SliceStarts(u)[s] = SizeOf(u, A)
  <2>1. s # 0 => s \in 1 .. SliceCount
    <3>1. SliceCount \in Nat
      BY <1>1, SliceFacts DEF SliceCount
    <3> QED BY <1>2, <3>1
  <2> QED BY <2>1 DEF SliceStarts
<1> HIDE DEF A, B
<1>6. IsFiniteSet(A) /\ IsFiniteSet(B)
  BY <1>1, <1>3, FiniteIndices
<1>7. \A j \in A \cup B : u[j] \in Nat
  BY <1>3 DEF Sizes
<1>8. /\ SizeOf(u, A \cup B) = SizeOf(u, A) + SizeOf(u, B)
      /\ SizeOf(u, A) \in Nat /\ SizeOf(u, B) \in Nat
  BY <1>3, <1>6, <1>7, SumOfUnion, SumIsNumber DEF SizeOf
<1>9. s = 0 => SizeOf(u, A) = 0
  BY <1>2, SumOfNone DEF SizeOf
<1>10. PICK a \in Nat, b \in Nat : a = SizeOf(u, A) /\ b = SizeOf(u, B)
  BY <1>8
<1>11. SizeOf(u, 1 .. (e - 1)) = a + b
  <2>1. SizeOf(u, 1 .. (e - 1)) = SizeOf(u, A \cup B)
    BY ONLY <1>2
  <2> QED BY <1>8, <1>10, <2>1
<1>12. DeltaEntries(u)[e].delta = b /\ DeltaEntries(u)[e].slice = s
  BY <1>4, <1>10
<1>13. (IF s = 0 THEN 0 ELSE SliceStarts(u)[s]) = a
  BY <1>5, <1>9, <1>10
<1> QED BY ONLY <1>11, <1>12, <1>13, a \in Nat, b \in Nat

(* Delta entries depend on the sizes of elements that do not change.        *)
LEMMA SameDeltas ==
  ASSUME config \in Configs, NEW u \in Sizes, NEW v \in Sizes,
         \A i \in 1 .. Len(Elements) : Elements[i] \in CBEElement => u[i] = v[i]
  PROVE  DeltaEntries(u) = DeltaEntries(v)
<1>1. Len(Elements) \in Nat \ {0} /\ DOMAIN Elements = 1 .. Len(Elements)
  BY ElementFacts
<1>2. ASSUME NEW e \in DOMAIN Elements
      PROVE  SizeOf(u, {j \in 1 .. (e - 1) : SliceOffset(j) = SliceOffset(e)}) =
               SizeOf(v, {j \in 1 .. (e - 1) : SliceOffset(j) = SliceOffset(e)})
  <2> DEFINE B == {j \in 1 .. (e - 1) : SliceOffset(j) = SliceOffset(e)}
  <2>1. B \in SUBSET (1 .. Len(Elements)) /\ \A j \in B : Elements[j] \in CBEElement
    BY <1>1, BeforeElement
  <2> HIDE DEF B
  <2>2. IsFiniteSet(B) /\ \A j \in B : u[j] = v[j]
    BY <1>1, <2>1, FiniteIndices
  <2>3. SizeOf(u, B) = SizeOf(v, B)
    BY <2>2, SumSame DEF SizeOf
  <2> QED BY <2>3 DEF B
<1> QED BY <1>2 DEF DeltaEntries

-----------------------------------------------------------------------------
(* The size of the first p edit units. *)
Before(us, p) == SumFunction([q \in 1 .. p |-> ContentPackageSize(us[q])])

(* The size of a content package is the sum of the sizes of its elements.   *)
LEMMA PackageSize ==
  ASSUME config \in Configs, NEW u \in Sizes
  PROVE  /\ ContentPackageSize(u) \in Nat /\ ContentPackageSize(u) = SumFunction(u)
         /\ ContentPackageSize(u) = SizeOf(u, 1 .. Len(Elements))
<1>1. Len(Elements) \in Nat \ {0} /\ DOMAIN u = 1 .. Len(Elements)
  BY ElementFacts DEF Sizes
<1>2. IsFiniteSet(1 .. Len(Elements)) /\ \A j \in 1 .. Len(Elements) : u[j] \in Nat
  BY <1>1, FiniteIndices DEF Sizes
<1> QED BY <1>1, <1>2, SumIsNumber DEF ContentPackageSize, SizeOf, SumFunction

(* An edit unit starts where the one before it ends.                        *)
LEMMA BeforeNext ==
  ASSUME NEW us, NEW p \in Nat, \A q \in 1 .. (p + 1) : ContentPackageSize(us[q]) \in Nat
  PROVE  /\ Before(us, p) \in Nat
         /\ Before(us, p + 1) = Before(us, p) + ContentPackageSize(us[p + 1])
<1> DEFINE f == [q \in 1 .. (p + 1) |-> ContentPackageSize(us[q])]
           g == [q \in 1 .. p |-> ContentPackageSize(us[q])]
<1>1. \A q \in 1 .. p : q \in 1 .. (p + 1)
  OBVIOUS
<1>2. IsFiniteSet(1 .. p) /\ (p + 1) - 1 = p /\ p + 1 \in 1 .. (p + 1)
  BY FS_Interval
<1>3. /\ DOMAIN f = 1 .. (p + 1) /\ \A q \in 1 .. (p + 1) : f[q] \in Nat
      /\ DOMAIN g = 1 .. p /\ \A q \in 1 .. p : g[q] \in Nat /\ f[q] = g[q]
      /\ f[p + 1] = ContentPackageSize(us[p + 1])
  BY <1>1, <1>2
<1>4. Before(us, p + 1) = SumFunctionOnSet(f, 1 .. (p + 1)) /\ Before(us, p) = SumFunctionOnSet(g, 1 .. p)
  BY <1>3 DEF Before, SumFunction
<1> HIDE DEF f, g
<1>5. SumFunctionOnSet(f, 1 .. (p + 1)) = SumFunctionOnSet(f, 1 .. p) + f[p + 1]
  <2>1. 1 \in Int /\ p + 1 \in Int /\ 1 <= p + 1
    OBVIOUS
  <2>2. SumFunctionOnSet(f, 1 .. (p + 1)) = SumFunctionOnSet(f, 1 .. ((p + 1) - 1)) + f[p + 1]
    BY ONLY <1>3, <2>1, SumOneMore
  <2> QED BY <1>2, <2>2
<1>6. SumFunctionOnSet(f, 1 .. p) = SumFunctionOnSet(g, 1 .. p) /\ SumFunctionOnSet(g, 1 .. p) \in Nat
  BY <1>2, <1>3, SumSame, SumIsNumber
<1> QED BY <1>3, <1>4, <1>5, <1>6

(* Nothing is before the first one.                                         *)
LEMMA BeforeNone == ASSUME NEW us PROVE Before(us, 0) = 0
<1>1. DOMAIN [q \in 1 .. 0 |-> ContentPackageSize(us[q])] = {}
  OBVIOUS
<1> QED BY <1>1, SumOfNone DEF Before, SumFunction

(* Where one starts depends on the edit units before it only.               *)
LEMMA BeforeSame ==
  ASSUME NEW us, NEW vs, NEW p, \A q \in 1 .. p : us[q] = vs[q]
  PROVE  Before(us, p) = Before(vs, p)
<1>1. [q \in 1 .. p |-> ContentPackageSize(us[q])] = [q \in 1 .. p |-> ContentPackageSize(vs[q])]
  OBVIOUS
<1> QED BY <1>1 DEF Before

(* The entries of the segments of a list lead to the edit units there:      *)
(* offsets and starts are by edit unit, of which there are d.               *)
Leads(list, offsets, starts, d) ==
  \A i \in 1 .. Len(list) :
    /\ Len(list[i].entries) = list[i].duration /\ list[i].start + list[i].duration <= d
    /\ \A k \in 1 .. Len(list[i].entries) :
         LET p == list[i].start + k - 1 IN
         list[i].entries[k].offset = offsets[p] /\ list[i].entries[k].slices = starts[p]

(* The segments of a list have the delta entries ds.                        *)
HaveDeltas(list, ds) == \A i \in 1 .. Len(list) : list[i].deltas = ds

(* An empty list leads nowhere.                                             *)
LEMMA NoneLead ==
  ASSUME NEW offsets, NEW starts, NEW d, NEW ds
  PROVE  Leads(<<>>, offsets, starts, d) /\ HaveDeltas(<<>>, ds)
  BY DEF Leads, HaveDeltas

(* Lists that lead to the edit units do so together, ...                    *)
LEMMA ConcatLeads ==
  ASSUME NEW a, IsTable(a), NEW b, IsTable(b), NEW offsets, NEW starts, NEW d,
         Leads(a, offsets, starts, d), Leads(b, offsets, starts, d)
  PROVE  Leads(a \o b, offsets, starts, d)
<1> DEFINE t == a \o b
<1>1. /\ Len(t) = Len(a) + Len(b) /\ Len(a) \in Nat /\ Len(b) \in Nat
      /\ \A i \in 1 .. Len(a) : t[i] = a[i]
      /\ \A i \in 1 .. Len(b) : t[Len(a) + i] = b[i]
  BY TableConcat, TableLen
<1> HIDE DEF t
<1>2. SUFFICES ASSUME NEW i \in 1 .. Len(t)
               PROVE  \/ \E j \in 1 .. Len(a) : t[i] = a[j]
                      \/ \E j \in 1 .. Len(b) : t[i] = b[j]
  BY DEF Leads, t
<1>3. CASE i <= Len(a)
  BY <1>1, <1>3
<1>4. CASE i > Len(a)
  <2>1. i - Len(a) \in 1 .. Len(b) /\ i = Len(a) + (i - Len(a))
    BY <1>1, <1>4
  <2> QED BY <1>1, <2>1
<1> QED BY <1>1, <1>3, <1>4

(* ... with the delta entries they have.                                    *)
LEMMA ConcatDeltas ==
  ASSUME NEW a, IsTable(a), NEW b, IsTable(b), NEW ds, HaveDeltas(a, ds), HaveDeltas(b, ds)
  PROVE  HaveDeltas(a \o b, ds)
<1> DEFINE t == a \o b
<1>1. /\ Len(t) = Len(a) + Len(b) /\ Len(a) \in Nat /\ Len(b) \in Nat
      /\ \A i \in 1 .. Len(a) : t[i] = a[i]
      /\ \A i \in 1 .. Len(b) : t[Len(a) + i] = b[i]
  BY TableConcat, TableLen
<1> HIDE DEF t
<1>2. SUFFICES ASSUME NEW i \in 1 .. Len(t) PROVE t[i].deltas = ds
  BY DEF HaveDeltas, t
<1>3. CASE i <= Len(a)
  BY <1>1, <1>3 DEF HaveDeltas
<1>4. CASE i > Len(a)
  <2>1. i - Len(a) \in 1 .. Len(b) /\ i = Len(a) + (i - Len(a))
    BY <1>1, <1>4
  <2> QED BY <1>1, <2>1 DEF HaveDeltas
<1> QED BY <1>1, <1>3, <1>4

(* What is written of a list leads where the list does.                     *)
LEMMA SameLead ==
  ASSUME NEW a, NEW b, SamePlaces(a, b), SameEntries(a, b), NEW offsets, NEW starts, NEW d,
         Leads(a, offsets, starts, d)
  PROVE  Leads(b, offsets, starts, d)
<1> SUFFICES ASSUME NEW i \in 1 .. Len(a)
             PROVE  /\ b[i].start = a[i].start /\ b[i].duration = a[i].duration
                    /\ b[i].entries = a[i].entries
  BY DEF Leads, SamePlaces
<1> QED BY DEF SamePlaces, SameEntries

(* More edit units do not change where the entries lead to.                 *)
LEMMA MoreUnits ==
  ASSUME NEW list, IsTable(list), NEW d \in Nat, NEW offsets, NEW starts,
         Leads(list, offsets, starts, d), NEW e \in Nat, d <= e, NEW more, NEW next,
         \A p \in 0 .. (d - 1) : more[p] = offsets[p] /\ next[p] = starts[p]
  PROVE  Leads(list, more, next, e)
<1> SUFFICES ASSUME NEW i \in 1 .. Len(list)
             PROVE  /\ Len(list[i].entries) = list[i].duration
                    /\ list[i].start + list[i].duration <= e
                    /\ \A k \in 1 .. Len(list[i].entries) :
                         /\ list[i].entries[k].offset = more[list[i].start + k - 1]
                         /\ list[i].entries[k].slices = next[list[i].start + k - 1]
  BY DEF Leads
<1>1. PICK a \in Nat, n \in Nat : a = list[i].start /\ n = list[i].duration
  BY DEF IsTable, IsSegment
<1>2. /\ Len(list[i].entries) = n /\ a + n <= d
      /\ \A k \in 1 .. Len(list[i].entries) :
           /\ list[i].entries[k].offset = offsets[a + k - 1]
           /\ list[i].entries[k].slices = starts[a + k - 1]
  BY <1>1 DEF Leads
<1>3. \A k \in 1 .. n : a + k - 1 \in 0 .. (d - 1)
  BY <1>2
<1>4. a + n <= e
  BY <1>2
<1> QED BY <1>1, <1>2, <1>3, <1>4

(* Completing an entry does not change where it leads to.                   *)
LEMMA CompletedLeads ==
  ASSUME NEW list, IsTable(list), NEW offsets, NEW starts, NEW d,
         Leads(list, offsets, starts, d), NEW i \in 1 .. Len(list),
         NEW k \in 1 .. Len(list[i].entries), NEW shown, NEW x,
         x = SegmentEntry(shown, list[i].entries[k].offset, list[i].entries[k].slices),
         NEW new, new = CompletedList(list, i, k, x)
  PROVE  Leads(new, offsets, starts, d)
<1>1. /\ SamePlaces(list, new)
      /\ \A j \in 1 .. Len(list) : Len(new[j].entries) = Len(list[j].entries)
      /\ \A j \in 1 .. Len(list) : \A n \in 1 .. Len(list[j].entries) :
           new[j].entries[n] = IF j = i /\ n = k THEN x ELSE list[j].entries[n]
  BY ONLY IsTable(list), i \in 1 .. Len(list), k \in 1 .. Len(list[i].entries),
          new = CompletedList(list, i, k, x), SegmentCompleted
<1>2. x.offset = list[i].entries[k].offset /\ x.slices = list[i].entries[k].slices
  BY DEF SegmentEntry
<1>3. ASSUME NEW j \in 1 .. Len(list), NEW n \in 1 .. Len(list[j].entries)
      PROVE  /\ new[j].entries[n].offset = list[j].entries[n].offset
             /\ new[j].entries[n].slices = list[j].entries[n].slices
  BY <1>1, <1>2
<1>4. /\ Len(new) = Len(list)
      /\ \A j \in 1 .. Len(list) :
           new[j].start = list[j].start /\ new[j].duration = list[j].duration
  BY <1>1 DEF SamePlaces
<1>5. ASSUME NEW j \in 1 .. Len(list)
      PROVE  /\ Len(new[j].entries) = new[j].duration
             /\ new[j].start + new[j].duration <= d
             /\ \A n \in 1 .. Len(new[j].entries) :
                  /\ new[j].entries[n].offset = offsets[new[j].start + n - 1]
                  /\ new[j].entries[n].slices = starts[new[j].start + n - 1]
  <2>1. /\ Len(list[j].entries) = list[j].duration
        /\ list[j].start + list[j].duration <= d
        /\ \A n \in 1 .. Len(list[j].entries) :
             /\ list[j].entries[n].offset = offsets[list[j].start + n - 1]
             /\ list[j].entries[n].slices = starts[list[j].start + n - 1]
    BY DEF Leads
  <2>2. Len(new[j].entries) = Len(list[j].entries)
    BY <1>1
  <2>3. new[j].start = list[j].start /\ new[j].duration = list[j].duration
    BY <1>4
  <2>4. \A n \in 1 .. Len(list[j].entries) :
          /\ new[j].entries[n].offset = list[j].entries[n].offset
          /\ new[j].entries[n].slices = list[j].entries[n].slices
    BY <1>3, <1>5
  <2> QED BY ONLY <2>1, <2>2, <2>3, <2>4
<1> QED BY ONLY <1>4, <1>5 DEF Leads

(* The edit unit at the end of the list.                                    *)
LEMMA TakenLeads ==
  ASSUME IndexingInv, ~IsCBE, NEW n, Taken(segments, segments', n), NEW offsets, NEW starts,
         Leads(segments, offsets, starts, duration), NEW more, NEW next,
         \A p \in 0 .. (duration - 1) : more[p] = offsets[p] /\ next[p] = starts[p],
         LET s == segments'[Len(segments')] IN
           s.entries[s.duration] = SegmentEntry(EntryForUnit, more[duration], next[duration])
  PROVE  Leads(segments', more, next, duration + 1)
<1>1. /\ IsTable(segments) /\ IsTable(segments') /\ duration \in Nat
      /\ n \in Nat \ {0} /\ Len(segments') = n /\ Len(segments) \in {n - 1, n}
      /\ \A i \in 1 .. (n - 1) : segments'[i] = segments[i]
  BY DEF IndexingInv, TypeInv, Taken
<1>2. Leads(segments, more, next, duration + 1)
  BY <1>1, MoreUnits
<1>3. n \in 1 .. n /\ \A i \in 1 .. n : i = n \/ i \in 1 .. (n - 1)
  BY <1>1
<1>4. \A i \in 1 .. (n - 1) : i \in 1 .. Len(segments)
  BY <1>1
<1>5. PICK b \in Nat, c \in Nat : b = segments'[n].start /\ c = segments'[n].duration
  <2>1. IsSegment(segments'[n])
    BY <1>1, <1>3 DEF IsTable
  <2> QED BY <2>1 DEF IsSegment
<1>6. c \in 1 .. MaxSegmentEntries /\ b + c = duration + 1 /\ Len(segments'[n].entries) = c
  BY <1>5 DEF Taken
<1>7. /\ segments'[n].entries[c].offset = more[b + c - 1]
      /\ segments'[n].entries[c].slices = next[b + c - 1]
  <2>1. segments'[n].entries[c] = SegmentEntry(EntryForUnit, more[duration], next[duration])
    BY <1>1, <1>5
  <2>2. b + c - 1 = duration
    BY ONLY <1>1, <1>6, b \in Nat, c \in Nat
  <2> QED BY <2>1, <2>2 DEF SegmentEntry
<1>8. ASSUME NEW k \in 1 .. c, k # c
      PROVE  /\ segments'[n].entries[k].offset = more[b + k - 1]
             /\ segments'[n].entries[k].slices = next[b + k - 1]
  <2>1. Len(segments) = n
    <3>1. Len(segments) = n - 1 => c = 1
      BY <1>5 DEF Taken
    <3> QED BY <1>1, <1>8, <3>1
  <2>2. /\ b = segments[n].start /\ c = segments[n].duration + 1
        /\ \A j \in 1 .. segments[n].duration : segments'[n].entries[j] = segments[n].entries[j]
    BY <1>5, <2>1 DEF Taken
  <2>3. n \in 1 .. Len(segments)
    BY <1>3, <2>1
  <2>4. PICK m \in Nat : m = segments[n].duration /\ Len(segments[n].entries) = m
    <3>1. IsSegment(segments[n])
      BY <1>1, <2>3 DEF IsTable
    <3> QED BY <1>2, <2>3, <3>1 DEF IsSegment, Leads
  <2>5. k \in 1 .. m
    BY <1>8, <2>2, <2>4
  <2>6. /\ segments[n].entries[k].offset = more[b + k - 1]
        /\ segments[n].entries[k].slices = next[b + k - 1]
    BY <1>2, <2>2, <2>3, <2>4, <2>5 DEF Leads
  <2> QED BY <2>2, <2>4, <2>5, <2>6
<1>9. ASSUME NEW i \in 1 .. (n - 1)
      PROVE  /\ Len(segments'[i].entries) = segments'[i].duration
             /\ segments'[i].start + segments'[i].duration <= duration + 1
             /\ \A k \in 1 .. Len(segments'[i].entries) :
                  /\ segments'[i].entries[k].offset = more[segments'[i].start + k - 1]
                  /\ segments'[i].entries[k].slices = next[segments'[i].start + k - 1]
  <2>1. segments'[i] = segments[i] /\ i \in 1 .. Len(segments)
    BY <1>1, <1>4
  <2> QED BY <1>2, <2>1 DEF Leads
<1>10. /\ Len(segments'[n].entries) = segments'[n].duration
       /\ segments'[n].start + segments'[n].duration <= duration + 1
       /\ \A k \in 1 .. Len(segments'[n].entries) :
            /\ segments'[n].entries[k].offset = more[segments'[n].start + k - 1]
            /\ segments'[n].entries[k].slices = next[segments'[n].start + k - 1]
  <2>1. b + c <= duration + 1
    BY <1>1, <1>6
  <2> QED BY <1>5, <1>6, <1>7, <1>8, <2>1
<1> QED BY <1>1, <1>3, <1>9, <1>10 DEF Leads

(* The sizes of the edit units, as they were given.                         *)
UnitsInv == units \in Seq(config.sizes) /\ Len(units) = duration

Offsets == [p \in 0 .. (duration - 1) |-> Before(units, p)]
Starts == [p \in 0 .. (duration - 1) |-> SliceStarts(units[p + 1])]

(* A variable table: its entries say where the edit units and their slices  *)
(* are, and its delta entries are those of any edit unit.                   *)
VariableLocated ==
  /\ firstSegment = <<>>
  /\ streamOffset = Before(units, duration)
  /\ duration > 0 => deltas = DeltaEntries(units[1])
  /\ \A q \in 1 .. duration : \A i \in 1 .. Len(Elements) :
       Elements[i] \in CBEElement => units[q][i] = elementSize[Elements[i]]
  /\ \A list \in {segments, flushed, inBody, inFooter, output} :
       Leads(list, Offsets, Starts, duration)
  /\ \A list \in {inBody, inFooter, output} :
       HaveDeltas(list, deltas) /\ (duration = 0 => list = <<>>)

(* The layout of a content package depends on the configuration alone.      *)
LEMMA SameOperators ==
  ASSUME config' = config
  PROVE  /\ \A u : SliceStarts(u)' = SliceStarts(u)
         /\ \A u : DeltaEntries(u)' = DeltaEntries(u)
         /\ Len(Elements)' = Len(Elements)
  BY DEF SliceStarts, SliceCount, SliceOffset, Elements, CBEElement, DeltaEntries

(* What is known of the edit units that were given.                         *)
LEMMA UnitsAre ==
  ASSUME config \in Configs, duration \in Nat, UnitsInv
  PROVE  /\ \A q \in 1 .. duration : /\ units[q] \in config.sizes /\ units[q] \in Sizes
                                     /\ ContentPackageSize(units[q]) \in Nat
         /\ \A p \in 0 .. duration : Before(units, p) \in Nat
<1>1. \A q \in 1 .. duration : units[q] \in config.sizes
  BY ElementOfSeq DEF UnitsInv
<1>2. \A q \in 1 .. duration : units[q] \in Sizes
  BY <1>1, ElementFacts
<1>3. \A q \in 1 .. duration : ContentPackageSize(units[q]) \in Nat
  BY <1>2, PackageSize
<1>4. ASSUME NEW p \in 0 .. duration PROVE Before(units, p) \in Nat
  <2>1. CASE p = 0
    BY <2>1, BeforeNone
  <2>2. CASE p # 0
    <3>1. PICK r \in Nat : p = r + 1
      <4>1. p - 1 \in Nat /\ p = (p - 1) + 1
        BY <2>2
      <4> QED BY <4>1
    <3>2. \A q \in 1 .. (r + 1) : ContentPackageSize(units[q]) \in Nat
      BY <1>3, <3>1
    <3>3. Before(units, r) \in Nat /\ Before(units, r + 1) = Before(units, r) + ContentPackageSize(units[r + 1])
      BY <3>2, BeforeNext
    <3>4. r + 1 \in 1 .. (r + 1)
      OBVIOUS
    <3> QED BY <3>1, <3>2, <3>3, <3>4
  <2> QED BY <2>1, <2>2
<1> QED BY <1>1, <1>2, <1>3, <1>4

(* The entries of a variable table lead to the elements.                    *)
LEMMA VariableLocates ==
  ASSUME IndexingInv, ~IsCBE, UnitsInv, VariableLocated
  PROVE  ElementsLocated
<1>1. config \in Configs /\ duration \in Nat /\ IsTable(inBody) /\ IsTable(inFooter)
  BY DEF IndexingInv, TypeInv
<1>2. Len(Elements) \in Nat \ {0} /\ DOMAIN Elements = 1 .. Len(Elements) /\ CBEElement \subseteq Element
  BY <1>1, ElementFacts, ConfigFacts
<1>3. SUFFICES ASSUME NEW list \in {inBody, inFooter}, NEW i \in DOMAIN list,
                      NEW p \in list[i].start .. (list[i].start + list[i].duration - 1),
                      p < Len(units), NEW e \in 1 .. Len(Elements)
               PROVE  IndexedPlace(list[i], Base(list, i), p, e) = Place(p, e)
  BY <1>2 DEF ElementsLocated, Locates
<1>4. IsTable(list) /\ i \in 1 .. Len(list) /\ IsSegment(list[i])
      /\ Leads(list, Offsets, Starts, duration) /\ HaveDeltas(list, deltas)
  BY <1>1, TableLen DEF VariableLocated, IsTable
<1>5. PICK a \in Nat, n \in Nat : a = list[i].start /\ n = list[i].duration
  BY <1>4 DEF IsSegment
<1>6. p \in Nat /\ p < duration /\ duration > 0 /\ p + 1 \in 1 .. duration /\ p \in 0 .. (duration - 1)
      /\ p - a + 1 \in 1 .. n /\ p = a + (p - a + 1) - 1 /\ p \in 0 .. duration /\ 1 \in 1 .. duration
  <2>1. p \in a .. (a + n - 1) /\ p < duration /\ duration \in Nat
    BY <1>1, <1>3, <1>5 DEF UnitsInv
  <2> QED BY ONLY <2>1, a \in Nat, n \in Nat
<1>7. PICK k \in 1 .. n : k = p - a + 1 /\ p = a + k - 1
  BY <1>6
<1>8. PICK entry : entry = list[i].entries[k]
  OBVIOUS
<1>9. entry.offset = Before(units, p) /\ entry.slices = SliceStarts(units[p + 1])
  <2>1. Len(list[i].entries) = n
    BY <1>4, <1>5 DEF Leads
  <2>2. k \in 1 .. Len(list[i].entries) /\ p = list[i].start + k - 1
    BY <1>5, <1>7, <2>1
  <2>3. Leads(list, Offsets, Starts, duration) /\ i \in 1 .. Len(list)
    BY <1>4
  <2>4. /\ list[i].entries[k].offset = Offsets[list[i].start + k - 1]
        /\ list[i].entries[k].slices = Starts[list[i].start + k - 1]
    BY ONLY <2>2, <2>3 DEF Leads
  <2>5. entry.offset = Offsets[p] /\ entry.slices = Starts[p]
    BY ONLY <1>8, <2>2, <2>4
  <2> QED BY <1>6, <2>5 DEF Offsets, Starts
<1>10. /\ units[1] \in Sizes /\ units[p + 1] \in Sizes /\ Before(units, p) \in Nat
  BY <1>1, <1>6, UnitsAre
<1>11. list[i].deltas = DeltaEntries(units[p + 1])
  <2>1. list[i].deltas = DeltaEntries(units[1])
    BY <1>4, <1>6 DEF HaveDeltas, VariableLocated
  <2>2. \A j \in 1 .. Len(Elements) : Elements[j] \in CBEElement => units[1][j] = units[p + 1][j]
    BY <1>6 DEF VariableLocated
  <2> QED BY <1>1, <1>10, <2>1, <2>2, SameDeltas
<1>12. DeltaOf(list[i], e) = DeltaEntries(units[p + 1])[e]
  <2>1. DOMAIN DeltaEntries(units[p + 1]) # {} /\ DOMAIN <<>> = {}
    BY <1>2 DEF DeltaEntries
  <2>2. list[i].deltas # <<>>
    BY <1>11, <2>1
  <2> QED BY <1>11, <2>2 DEF DeltaOf
<1>13. PICK s : s = SliceOffset(e)
  OBVIOUS
<1>14. PICK x \in Nat, y \in Nat :
         /\ x = (IF s = 0 THEN 0 ELSE SliceStarts(units[p + 1])[s])
         /\ y = DeltaEntries(units[p + 1])[e].delta /\ DeltaEntries(units[p + 1])[e].slice = s
         /\ SizeOf(units[p + 1], 1 .. (e - 1)) = x + y
  <2>1. PICK u \in Sizes : u = units[p + 1]
    BY <1>10
  <2>2. /\ SizeOf(u, 1 .. (e - 1)) =
              (IF s = 0 THEN 0 ELSE SliceStarts(u)[s]) + DeltaEntries(u)[e].delta
        /\ DeltaEntries(u)[e].slice = s
        /\ (IF s = 0 THEN 0 ELSE SliceStarts(u)[s]) \in Nat /\ DeltaEntries(u)[e].delta \in Nat
    BY ONLY <1>1, <1>13, u \in Sizes, e \in 1 .. Len(Elements), SliceAndDelta
  <2> QED BY ONLY <2>1, <2>2
<1>15. IndexedPlace(list[i], Base(list, i), p, e) = Before(units, p) + x + y
  <2>1. PICK segment : segment = list[i]
    OBVIOUS
  <2>2. DeltaOf(segment, e).slice = s /\ DeltaOf(segment, e).delta = y
    BY <1>12, <1>14, <2>1
  <2>3. segment.entries[p - segment.start + 1] = entry
    BY <1>5, <1>7, <1>8, <2>1
  <2>4. IndexedPlace(segment, Base(list, i), p, e)
          = entry.offset + (IF s = 0 THEN 0 ELSE entry.slices[s]) + y
    BY <2>2, <2>3, Zenon DEF IndexedPlace
  <2> QED BY <1>9, <1>14, <2>1, <2>4
<1>16. Place(p, e) = Before(units, p) + (x + y)
  BY <1>14 DEF Place, Before
<1> QED BY <1>10, <1>15, <1>16

(* A step of a variable table that adds no edit unit.                       *)
LEMMA VariableStays ==
  ASSUME IndexingInv, ~IsCBE, UnitsInv, VariableLocated,
         UNCHANGED <<config, units, firstSegment, duration, streamOffset, deltas, elementSize>>,
         \A list \in {segments', flushed', inBody', inFooter', output'} :
           Leads(list, Offsets, Starts, duration),
         \A list \in {inBody', inFooter', output'} :
           HaveDeltas(list, deltas) /\ (duration = 0 => list = <<>>)
  PROVE  UnitsInv' /\ VariableLocated'
<1>0. config' = config /\ units' = units /\ duration' = duration /\ deltas' = deltas
  OBVIOUS
<1>1. Elements' = Elements /\ CBEElement' = CBEElement
  BY <1>0, SameConfig
<1>2. Offsets' = Offsets /\ Starts' = Starts
  BY <1>0, SameOperators DEF Offsets, Starts, Before
<1>3. duration > 0 => deltas' = DeltaEntries(units[1])'
  BY <1>0, SameOperators DEF VariableLocated
<1>4. streamOffset' = Before(units, duration)'
  BY DEF VariableLocated, Before
<1>5. UnitsInv'
  BY <1>0 DEF UnitsInv
<1>6. \A q \in 1 .. duration' : \A i \in 1 .. Len(Elements') :
        Elements'[i] \in CBEElement' => units'[q][i] = elementSize'[Elements'[i]]
  BY <1>0, <1>1 DEF VariableLocated
<1>7. firstSegment' = <<>>
  BY DEF VariableLocated
<1> QED BY ONLY <1>0, <1>2, <1>3, <1>4, <1>5, <1>6, <1>7,
         \A list \in {segments', flushed', inBody', inFooter', output'} :
           Leads(list, Offsets, Starts, duration),
         \A list \in {inBody', inFooter', output'} :
           HaveDeltas(list, deltas) /\ (duration = 0 => list = <<>>)
         DEF VariableLocated

(* What is written of a variable table, and what is kept of it.             *)
LEMMA VariableFlushLeads ==
  ASSUME IndexingInv, ~IsCBE, VariableLocated, NEW isFooter, NEW final,
         WriteSegments(isFooter, final)
  PROVE  /\ UNCHANGED <<config, firstSegment, duration, streamOffset, deltas, elementSize>>
         /\ IsTable(output')
         /\ \A list \in {segments', flushed', output'} : Leads(list, Offsets, Starts, duration)
         /\ HaveDeltas(output', deltas) /\ (duration = 0 => output' = <<>>)
<1>1. /\ IsTable(segments) /\ IsTable(flushed) /\ IsTable(output) /\ duration \in Nat
      /\ Leads(segments, Offsets, Starts, duration) /\ Leads(flushed, Offsets, Starts, duration)
      /\ Leads(output, Offsets, Starts, duration) /\ HaveDeltas(output, deltas)
      /\ duration = 0 => output = <<>>
  BY DEF IndexingInv, TypeInv, VariableLocated
<1>2. CASE IndexFails
  BY <1>1, <1>2 DEF IndexFails
<1>3. CASE ~IndexFails
  <2> DEFINE list == IF Repeats(isFooter) THEN flushed \o segments ELSE segments
  <2>1. /\ duration # 0 /\ segments' = <<>> /\ output' = VBESegments(list)
        /\ flushed' = IF Keeps(isFooter) THEN flushed \o segments
                      ELSE IF Repeats(isFooter) THEN <<>> ELSE flushed
        /\ UNCHANGED <<config, firstSegment, duration, streamOffset, deltas, elementSize>>
    BY <1>3 DEF WriteSegments
  <2>2. /\ IsTable(flushed \o segments)
        /\ Leads(flushed \o segments, Offsets, Starts, duration)
    BY <1>1, TableConcat, ConcatLeads
  <2>3. IsTable(list) /\ Leads(list, Offsets, Starts, duration)
    BY <1>1, <2>2
  <2>4. Leads(flushed', Offsets, Starts, duration) /\ Leads(segments', Offsets, Starts, duration)
    BY <1>1, <2>1, <2>2, NoneLead
  <2> HIDE DEF list
  <2>5. PICK new : new = output'
    OBVIOUS
  <2>6. IsTable(new) /\ SamePlaces(list, new) /\ SameEntries(list, new)
    BY <2>1, <2>3, <2>5, VariableWritten
  <2>7. Leads(new, Offsets, Starts, duration)
    BY <2>3, <2>6, SameLead
  <2>8. HaveDeltas(new, deltas)
    <3>1. DOMAIN list = 1 .. Len(list) /\ Len(new) = Len(list)
      BY <2>3, <2>6, TableLen DEF SamePlaces
    <3>2. ASSUME NEW i \in 1 .. Len(list) PROVE new[i].deltas = deltas
      <4>1. new[i] = [list[i] EXCEPT !.deltas = deltas]
        BY <2>1, <2>5, <3>1 DEF VBESegments
      <4>2. IsSegment(list[i])
        BY <2>3 DEF IsTable
      <4> QED BY <4>1, <4>2 DEF IsSegment
    <3> QED BY <3>1, <3>2 DEF HaveDeltas
  <2> QED BY <2>1, <2>4, <2>5, <2>6, <2>7, <2>8
<1> QED BY <1>2, <1>3

(* The element sizes after an edit unit are its own.                        *)
LEMMA SizesKept ==
  ASSUME config \in Configs, NEW sizes, ~SizeChanged(sizes), elementSize' = ElementSizes(sizes)
  PROVE  /\ \A i \in 1 .. Len(Elements) :
              Elements[i] \in CBEElement => elementSize'[Elements[i]] = sizes[i]
         /\ ~CreatesDeltas => \A e \in Element : elementSize'[e] = elementSize[e]
<1>1. /\ DOMAIN Elements = 1 .. Len(Elements)
      /\ \A i \in 1 .. Len(Elements) : Elements[i] \in Element
      /\ \A i, j \in 1 .. Len(Elements) : Elements[i] = Elements[j] => i = j
  BY ElementFacts
<1>2. ASSUME NEW i \in 1 .. Len(Elements)
      PROVE  (CHOOSE j \in DOMAIN Elements : Elements[j] = Elements[i]) = i
  <2>1. i \in DOMAIN Elements /\ Elements[i] = Elements[i]
    BY <1>1
  <2>2. PICK j : j = CHOOSE k \in DOMAIN Elements : Elements[k] = Elements[i]
    OBVIOUS
  <2>3. j \in DOMAIN Elements /\ Elements[j] = Elements[i]
    BY <2>1, <2>2
  <2> QED BY <1>1, <2>2, <2>3
<1>3. CASE CreatesDeltas
  <2>1. ASSUME NEW i \in 1 .. Len(Elements), Elements[i] \in CBEElement
        PROVE  elementSize'[Elements[i]] = sizes[i]
    <3>1. elementSize'[Elements[i]] = sizes[CHOOSE j \in DOMAIN Elements : Elements[j] = Elements[i]]
      BY <1>1, <1>3, <2>1 DEF ElementSizes
    <3> QED BY <1>2, <3>1
  <2> QED BY <1>3, <2>1
<1>4. CASE ~CreatesDeltas
  <2>1. \A e \in Element : elementSize'[e] = elementSize[e]
    BY <1>4 DEF ElementSizes
  <2>2. \A i \in 1 .. Len(Elements) :
          Elements[i] \in CBEElement => elementSize[Elements[i]] = sizes[i]
    BY <1>1, <1>4 DEF SizeChanged
  <2> QED BY <1>1, <2>1, <2>2
<1> QED BY <1>3, <1>4

(* Another edit unit.                                                       *)
LEMMA UnitAppended ==
  ASSUME config \in Configs, duration \in Nat, UnitsInv, NEW sizes \in config.sizes,
         units' = Append(units, sizes), duration' = duration + 1, config' = config
  PROVE  /\ UnitsInv' /\ sizes \in Sizes
         /\ \A q \in 1 .. duration : units'[q] = units[q]
         /\ units'[duration + 1] = sizes
         /\ Before(units', duration + 1) = Before(units, duration) + ContentPackageSize(sizes)
         /\ \A p \in 0 .. duration : Before(units', p) = Before(units, p)
<1>1. /\ units' \in Seq(config.sizes) /\ Len(units') = duration + 1
      /\ \A q \in 1 .. duration : units'[q] = units[q]
      /\ units'[duration + 1] = sizes
  BY AppendProperties DEF UnitsInv
<1>2. UnitsInv' /\ sizes \in Sizes
  BY <1>1, ElementFacts DEF UnitsInv
<1>3. ASSUME NEW p \in 0 .. duration PROVE Before(units', p) = Before(units, p)
  <2>1. PICK us : us = units'
    OBVIOUS
  <2>2. \A q \in 1 .. p : us[q] = units[q]
    BY <1>1, <2>1
  <2>3. Before(us, p) = Before(units, p)
    BY <2>2, BeforeSame
  <2> QED BY <2>1, <2>3
<1>4. Before(units', duration + 1) = Before(units', duration) + ContentPackageSize(sizes)
  <2>1. PICK us : us = units'
    OBVIOUS
  <2>2. \A q \in 1 .. (duration + 1) : ContentPackageSize(us[q]) \in Nat
    <3>1. \A q \in 1 .. (duration + 1) : q \in 1 .. duration \/ q = duration + 1
      OBVIOUS
    <3>2. \A q \in 1 .. duration : ContentPackageSize(units[q]) \in Nat
      BY UnitsAre
    <3>3. ContentPackageSize(sizes) \in Nat
      BY <1>2, PackageSize
    <3> QED BY <1>1, <2>1, <3>1, <3>2, <3>3
  <2>3. Before(us, duration + 1) = Before(us, duration) + ContentPackageSize(us[duration + 1])
    BY <2>2, BeforeNext
  <2> QED BY <1>1, <2>1, <2>3
<1>5. duration \in 0 .. duration
  OBVIOUS
<1> QED BY <1>1, <1>2, <1>3, <1>4, <1>5

(* An edit unit of a variable table.                                        *)
LEMMA VariableUnitLocated ==
  ASSUME IndexingInv, ~IsCBE, Running, HaveUnit, UnitsInv, VariableLocated,
         NEW sizes \in config.sizes, UpdateIndex(sizes), ~IndexFails,
         units' = Append(units, sizes), UNCHANGED <<inBody, inFooter>>
  PROVE  UnitsInv' /\ VariableLocated'
<1>1. /\ ~SizeChanged(sizes) /\ deltas' = DeltasAfter(sizes) /\ elementSize' = ElementSizes(sizes)
      /\ UpdateVBEIndex(sizes) /\ firstSegment' = firstSegment /\ duration' = duration + 1
      /\ streamOffset' = streamOffset + ContentPackageSize(sizes)
      /\ UNCHANGED <<config, flushed, output>>
  BY DEF UpdateIndex
<1>2. /\ config \in Configs /\ duration \in Nat /\ firstSegment = <<>>
      /\ \A list \in {segments, flushed, inBody, inFooter, output} : IsTable(list)
  BY DEF IndexingInv, TypeInv, VariableLocated
<1>3. CreatesDeltas <=> duration = 0
  BY <1>2 DEF CreatesDeltas
<1>4. /\ UnitsInv' /\ sizes \in Sizes
      /\ \A q \in 1 .. duration : units'[q] = units[q]
      /\ units'[duration + 1] = sizes
      /\ Before(units', duration + 1) = Before(units, duration) + ContentPackageSize(sizes)
      /\ \A p \in 0 .. duration : Before(units', p) = Before(units, p)
  BY <1>1, <1>2, UnitAppended
<1>5. config' = config
  BY <1>1
<1>6. Elements' = Elements /\ CBEElement' = CBEElement
  BY <1>5, SameConfig
<1>7. streamOffset' = Before(units, duration)'
  <2>1. streamOffset' = Before(units', duration + 1)
    BY <1>1, <1>4 DEF VariableLocated
  <2> QED BY <1>1, <2>1
<1>8. duration' > 0 /\ units'[1] = (IF duration = 0 THEN sizes ELSE units[1])
  BY <1>1, <1>2, <1>4
<1>9. deltas' = DeltaEntries(units[1])'
  <2>1. deltas' = DeltaEntries(units'[1])
    BY <1>1, <1>2, <1>3, <1>8 DEF DeltasAfter, VariableLocated
  <2> QED BY <1>5, <2>1, SameOperators
<1>10. \A q \in 1 .. duration' : \A i \in 1 .. Len(Elements') :
         Elements'[i] \in CBEElement' => units'[q][i] = elementSize'[Elements'[i]]
  <2>1. /\ \A i \in 1 .. Len(Elements) :
             Elements[i] \in CBEElement => elementSize'[Elements[i]] = sizes[i]
        /\ ~CreatesDeltas => \A e \in Element : elementSize'[e] = elementSize[e]
    BY <1>1, <1>2, SizesKept
  <2>2. SUFFICES ASSUME NEW q \in 1 .. (duration + 1), NEW i \in 1 .. Len(Elements),
                        Elements[i] \in CBEElement
                 PROVE  units'[q][i] = elementSize'[Elements[i]]
    BY <1>1, <1>6
  <2>3. CASE q = duration + 1
    BY <1>4, <2>1, <2>2, <2>3
  <2>4. CASE q # duration + 1
    <3>1. q \in 1 .. duration /\ ~CreatesDeltas
      BY <1>2, <1>3, <2>4
    <3>2. units'[q][i] = elementSize[Elements[i]]
      BY <1>4, <2>2, <3>1 DEF VariableLocated
    <3>3. Elements[i] \in Element
      BY <1>2, ElementFacts
    <3> QED BY <2>1, <3>1, <3>2, <3>3
  <2> QED BY <2>3, <2>4
<1>11. /\ \A p \in 0 .. (duration - 1) : Offsets'[p] = Offsets[p] /\ Starts'[p] = Starts[p]
       /\ Offsets'[duration] = streamOffset /\ Starts'[duration] = SliceStarts(sizes)
  <2>1. \A p \in 0 .. duration : /\ Offsets'[p] = Before(units', p)
                                 /\ Starts'[p] = SliceStarts(units'[p + 1])
    <3>1. /\ Offsets' = [p \in 0 .. (duration' - 1) |-> Before(units, p)']
          /\ Starts' = [p \in 0 .. (duration' - 1) |-> SliceStarts(units[p + 1])']
      BY DEF Offsets, Starts
    <3>2. duration' - 1 = duration
      BY <1>1, <1>2
    <3> QED BY <1>5, <3>1, <3>2, SameOperators DEF Before
  <2>2. ASSUME NEW p \in 0 .. (duration - 1)
        PROVE  Offsets'[p] = Offsets[p] /\ Starts'[p] = Starts[p]
    <3>1. p \in 0 .. duration /\ p + 1 \in 1 .. duration
      BY <1>2
    <3> QED BY <1>4, <2>1, <3>1 DEF Offsets, Starts
  <2>3. duration \in 0 .. duration
    BY <1>2
  <2> QED BY <1>4, <2>1, <2>2, <2>3 DEF VariableLocated
<1>12. \A list \in {segments', flushed', inBody', inFooter', output'} :
         Leads(list, Offsets', Starts', duration')
  <2>1. PICK n : Taken(segments, segments', n)
    BY UnitTaken, <1>1
  <2>2. LET s == segments'[Len(segments')] IN
          s.entries[s.duration] = SegmentEntry(EntryForUnit, streamOffset, SliceStarts(sizes))
    BY UnitTaken, <1>1
  <2>3. PICK more, next : more = Offsets' /\ next = Starts'
    OBVIOUS
  <2>4. /\ \A p \in 0 .. (duration - 1) : more[p] = Offsets[p] /\ next[p] = Starts[p]
        /\ more[duration] = streamOffset /\ next[duration] = SliceStarts(sizes)
    BY <1>11, <2>3
  <2>5. Leads(segments, Offsets, Starts, duration)
    BY DEF VariableLocated
  <2>6. Leads(segments', more, next, duration + 1)
    BY <2>1, <2>2, <2>4, <2>5, TakenLeads
  <2>7. ASSUME NEW list \in {flushed, inBody, inFooter, output}
        PROVE  Leads(list, more, next, duration + 1)
    <3>1. IsTable(list) /\ Leads(list, Offsets, Starts, duration)
      BY <1>2 DEF VariableLocated
    <3>2. duration + 1 \in Nat /\ duration <= duration + 1
      BY <1>2
    <3> QED BY ONLY <1>2, <2>4, <3>1, <3>2, MoreUnits
  <2> QED BY <1>1, <2>3, <2>6, <2>7
<1>13. \A list \in {inBody', inFooter', output'} :
         HaveDeltas(list, deltas') /\ (duration' = 0 => list = <<>>)
  <2>1. ASSUME NEW list \in {inBody, inFooter, output}
        PROVE  HaveDeltas(list, deltas')
    <3>1. CASE duration = 0
      <4>1. list = <<>>
        BY <3>1 DEF VariableLocated
      <4> QED BY <4>1 DEF HaveDeltas
    <3>2. CASE duration # 0
      BY <1>1, <1>3, <3>2 DEF DeltasAfter, VariableLocated
    <3> QED BY <3>1, <3>2
  <2>2. duration' # 0
    BY <1>1, <1>2
  <2> QED BY <1>1, <2>1, <2>2
<1>14. firstSegment' = <<>>
  BY <1>1, <1>2
<1> QED BY ONLY <1>4, <1>7, <1>9, <1>10, <1>12, <1>13, <1>14 DEF VariableLocated

(* An entry that is completed, in the cache or in its segment.              *)
LEMMA CompletedLocated ==
  ASSUME IndexingInv, GOPInv, ~IsCBE, UnitsInv, VariableLocated, NEW p \in Nat,
         CompleteEntry(p)
  PROVE  UnitsInv' /\ VariableLocated'
<1>1. /\ UpdateIndexEntry(Picture, p, Final[p]) /\ UNCHANGED <<units, inBody, inFooter>>
  BY CompletesPicture DEF CompleteEntry
<1>2. /\ IsTable(segments) /\ duration \in Nat
      /\ Leads(segments, Offsets, Starts, duration)
  BY DEF IndexingInv, TypeInv, VariableLocated
<1>3. /\ UNCHANGED <<config, units, firstSegment, flushed, duration, streamOffset, deltas,
                     elementSize, output, inBody, inFooter>>
      /\ Leads(segments', Offsets, Starts, duration)
  <2>1. CASE segments' = segments
    BY <1>1, <1>2, <2>1 DEF UpdateIndexEntry, IndexFails
  <2>2. CASE segments' # segments
    <3>1. PICK i \in DOMAIN segments :
            /\ HoldsPosition(i, p)
            /\ segments' = [segments EXCEPT
                 ![i].entries[p - segments[i].start + 1] =
                   SegmentEntry(Final[p], @.offset, @.slices)]
            /\ UNCHANGED <<config, firstSegment, flushed, duration, streamOffset, deltas,
                           elementSize, output>>
      BY <1>1, <2>2 DEF UpdateIndexEntry, IndexFails
    <3>2. PICK k : k = p - segments[i].start + 1
      OBVIOUS
    <3>3. i \in 1 .. Len(segments)
      BY <1>2, TableLen
    <3>4. k \in 1 .. Len(segments[i].entries)
      <4>1. PICK a \in Nat, n \in Nat : a = segments[i].start /\ n = segments[i].duration
        <5>1. IsSegment(segments[i])
          BY <1>2, <3>3 DEF IsTable
        <5> QED BY <5>1 DEF IsSegment
      <4>2. Len(segments[i].entries) = n /\ a <= p /\ p < a + n
        BY <1>2, <3>1, <3>3, <4>1 DEF HoldsPosition, Leads
      <4> QED BY <3>2, <4>1, <4>2
    <3>5. PICK x : x = SegmentEntry(Final[p], segments[i].entries[k].offset,
                                    segments[i].entries[k].slices)
      OBVIOUS
    <3>6. PICK new : new = CompletedList(segments, i, k, x)
      OBVIOUS
    <3>7. Leads(new, Offsets, Starts, duration)
      BY ONLY <1>2, <3>3, <3>4, <3>5, <3>6, CompletedLeads
    <3>8. segments' = new
      BY <3>1, <3>2, <3>5, <3>6 DEF CompletedList
    <3> QED BY <1>1, <3>1, <3>7, <3>8
  <2> QED BY <2>1, <2>2
<1>4. /\ \A list \in {segments', flushed', inBody', inFooter', output'} :
           Leads(list, Offsets, Starts, duration)
      /\ \A list \in {inBody', inFooter', output'} :
           HaveDeltas(list, deltas) /\ (duration = 0 => list = <<>>)
  BY <1>3 DEF VariableLocated
<1> QED BY <1>3, <1>4, VariableStays

(* The start.                                                               *)
LEMMA UnitsInit == Init => UnitsInv
  BY DEF Init, InitIndexTable, UnitsInv

LEMMA VariableInit ==
  ASSUME Init, ~IsCBE
  PROVE  VariableLocated
<1>1. /\ firstSegment = <<>> /\ streamOffset = 0 /\ duration = 0 /\ units = <<>>
      /\ segments = <<NewSegment(0)>> /\ flushed = <<>> /\ inBody = <<>> /\ inFooter = <<>>
      /\ output = <<>>
  BY DEF Init, InitIndexTable, RequireIndexTableSegmentPair
<1>2. streamOffset = Before(units, duration)
  BY <1>1, BeforeNone
<1>3. Leads(segments, Offsets, Starts, duration)
  <2>1. Len(segments) = 1 /\ segments[1] = NewSegment(0)
    BY <1>1, OneSegment, NewSegmentIs
  <2>2. Len(segments[1].entries) = 0 /\ segments[1].duration = 0 /\ segments[1].start = 0
    BY <2>1 DEF NewSegment
  <2> QED BY <1>1, <2>1, <2>2 DEF Leads
<1>4. \A list \in {segments, flushed, inBody, inFooter, output} :
        Leads(list, Offsets, Starts, duration)
  BY <1>1, <1>3, NoneLead
<1>5. \A list \in {inBody, inFooter, output} :
        HaveDeltas(list, deltas) /\ (duration = 0 => list = <<>>)
  BY <1>1, NoneLead
<1>6. 1 .. duration = {}
  BY <1>1
<1> QED BY <1>1, <1>2, <1>4, <1>5, <1>6 DEF VariableLocated

(* Segments of a variable table go to a partition.                          *)
LEMMA VariableWrittenLocated ==
  ASSUME IndexingInv, ~IsCBE, UnitsInv, VariableLocated, NEW isFooter, NEW final,
         WriteSegments(isFooter, final), units' = units,
         inBody' \in {inBody, inBody \o output'}, inFooter' \in {inFooter, output'}
  PROVE  UnitsInv' /\ VariableLocated'
<1>1. /\ UNCHANGED <<config, units, firstSegment, duration, streamOffset, deltas, elementSize>>
      /\ IsTable(output') /\ IsTable(inBody)
      /\ \A list \in {segments', flushed', output'} : Leads(list, Offsets, Starts, duration)
      /\ HaveDeltas(output', deltas) /\ (duration = 0 => output' = <<>>)
  BY VariableFlushLeads DEF IndexingInv, TypeInv
<1>2. /\ \A list \in {inBody, inFooter} : /\ Leads(list, Offsets, Starts, duration)
                                          /\ HaveDeltas(list, deltas)
                                          /\ duration = 0 => list = <<>>
  BY DEF VariableLocated
<1>3. /\ Leads(inBody', Offsets, Starts, duration) /\ HaveDeltas(inBody', deltas)
      /\ duration = 0 => inBody' = <<>>
  <2>1. PICK new : new = output'
    OBVIOUS
  <2>2. /\ Leads(inBody \o new, Offsets, Starts, duration)
        /\ HaveDeltas(inBody \o new, deltas)
    BY <1>1, <1>2, <2>1, ConcatLeads, ConcatDeltas
  <2>3. duration = 0 => inBody \o new = <<>>
    BY <1>1, <1>2, <2>1
  <2> QED BY <1>2, <2>1, <2>2, <2>3
<1>4. /\ \A list \in {segments', flushed', inBody', inFooter', output'} :
           Leads(list, Offsets, Starts, duration)
      /\ \A list \in {inBody', inFooter', output'} :
           HaveDeltas(list, deltas) /\ (duration = 0 => list = <<>>)
  BY <1>1, <1>2, <1>3
<1> QED BY <1>1, <1>4, VariableStays

(* A step that leaves the segments as they are.                             *)
LEMMA VariableSame ==
  ASSUME IndexingInv, ~IsCBE, UnitsInv, VariableLocated,
         UNCHANGED <<config, units, firstSegment, duration, streamOffset, deltas, elementSize,
                     segments, flushed, inBody, inFooter, output>>
  PROVE  UnitsInv' /\ VariableLocated'
<1>1. /\ \A list \in {segments', flushed', inBody', inFooter', output'} :
           Leads(list, Offsets, Starts, duration)
      /\ \A list \in {inBody', inFooter', output'} :
           HaveDeltas(list, deltas) /\ (duration = 0 => list = <<>>)
  BY DEF VariableLocated
<1> QED BY <1>1, VariableStays

(* Every step of a variable table.                                          *)
LEMMA VariableNext ==
  ASSUME IndexingInv, GOPInv, ~IsCBE, UnitsInv, VariableLocated, [Next]_vars
  PROVE  UnitsInv' /\ VariableLocated'
<1> DEFINE Same == UNCHANGED <<config, units, firstSegment, duration, streamOffset, deltas,
                               elementSize, segments, flushed, inBody, inFooter, output>>
<1>0. config \in Configs /\ config.editUnits \in Nat
  BY ConfigFacts DEF IndexingInv, TypeInv
<1>1. ASSUME NEW e \in Element, WriteDataFrame(e) PROVE Same
  BY <1>1 DEF WriteDataFrame, AddIndexEntry, IndexFails
<1>2. ASSUME NEW complete \in BOOLEAN, NEW key \in {0, 1}, WritePictureFrame(complete, key)
      PROVE  Same
  BY <1>2 DEF WritePictureFrame, AddIndexEntry, IndexFails
<1>3. GiveUpPreviousGOP => Same
  BY DEF GiveUpPreviousGOP, IgnoreRequiredUpdates
<1>4. ASSUME NEW p \in 0 .. (config.editUnits - 1), CompleteEntry(p)
      PROVE  UnitsInv' /\ VariableLocated'
  <2>1. p \in Nat
    BY <1>0
  <2> QED BY <1>4, <2>1, CompletedLocated
<1>5. ASSUME NEW sizes \in config.sizes, WriteUnit(sizes) PROVE UnitsInv' /\ VariableLocated'
  <2>1. /\ Running /\ HaveUnit /\ UpdateIndex(sizes) /\ UNCHANGED <<inBody, inFooter>>
        /\ units' = IF indexStatus' = "ok" THEN Append(units, sizes) ELSE units
    BY <1>5 DEF WriteUnit
  <2>2. CASE IndexFails
    BY <2>1, <2>2, VariableSame DEF IndexFails
  <2>3. CASE ~IndexFails
    <3>1. indexStatus' = "ok"
      BY <2>1, <2>3 DEF UpdateIndex, Running
    <3> QED BY <2>1, <2>3, <3>1, VariableUnitLocated
  <2> QED BY <2>2, <2>3
<1>6. ASSUME NEW sizes \in config.sizes, NEW n, WriteClipSamples(sizes, n) PROVE FALSE
  BY <1>0, <1>6, ConfigFacts DEF WriteClipSamples
<1>7. StartPartition => UnitsInv' /\ VariableLocated'
  <2> SUFFICES ASSUME StartPartition PROVE UnitsInv' /\ VariableLocated'
    OBVIOUS
  <2>1. PICK final : final = ~IsCBE
    OBVIOUS
  <2>2. WriteSegments(FALSE, final) /\ units' = units /\ inBody' = inBody \o output'
        /\ inFooter' = inFooter
    BY <2>1 DEF StartPartition
  <2> QED BY <2>2, VariableWrittenLocated
<1>8. CompleteEntries => Same
  BY DEF CompleteEntries, IgnoreRequiredUpdates, IndexFails
<1>9. WriteIndexPartition => UnitsInv' /\ VariableLocated'
  BY VariableWrittenLocated DEF WriteIndexPartition
<1>10. WriteFooter => UnitsInv' /\ VariableLocated'
  <2> SUFFICES ASSUME WriteFooter PROVE UnitsInv' /\ VariableLocated'
    OBVIOUS
  <2>1. CASE HaveFooterSegments
    BY <2>1, VariableWrittenLocated DEF WriteFooter
  <2>2. CASE ~HaveFooterSegments
    BY <2>2, VariableSame DEF WriteFooter, indexVars
  <2> QED BY <2>1, <2>2
<1>11. Rewrite => Same
  BY DEF Rewrite, indexVars
<1>12. Done => Same
  BY DEF Done, vars, indexVars
<1>13. UNCHANGED vars => Same
  BY DEF vars, indexVars
<1>14. Same => UnitsInv' /\ VariableLocated'
  BY VariableSame
<1> HIDE DEF Same
<1> QED BY <1>1, <1>2, <1>3, <1>4, <1>5, <1>6, <1>7, <1>8, <1>9, <1>10, <1>11, <1>12, <1>13,
           <1>14 DEF Next

-----------------------------------------------------------------------------
(* Where the elements of a constant table are. *)

(* A segment gives the size of edit unit u and where its elements are.      *)
Describes(s, u) ==
  /\ s.byteCount = ContentPackageSize(u)
  /\ \A e \in 1 .. Len(Elements) : DeltaOf(s, e).delta = SizeOf(u, 1 .. (e - 1))

(* What is written of a table with the segments first and main, the         *)
(* duration of which was open then or known beforehand.                     *)
SameUnits(a, b) == a.start = b.start /\ a.byteCount = b.byteCount /\ a.deltas = b.deltas
WrittenOf(list, first, main) ==
  \A i \in 1 .. Len(list) :
    IF i <= Len(first) THEN list[i] = first[i]
                       ELSE i = Len(first) + 1 /\ SameUnits(list[i], main)

(* A constant table: its segment describes all edit units but for the first *)
(* one, when that has a segment of its own. Once it has been written the    *)
(* first segment is not dropped any more.                                   *)
ConstantLocated ==
  /\ \A q \in 1 .. duration : q > segments[1].start => units[q] = units[duration]
  /\ duration > segments[1].start => Describes(segments[1], units[duration])
  /\ duration = segments[1].start => segments[1].byteCount = 0 /\ segments[1].deltas = <<>>
  /\ ~config.clip /\ ~CreatesDeltas =>
       \A i \in 1 .. Len(Elements) : elementSize[Elements[i]] = units[duration][i]
  /\ firstSegment # <<>> /\ duration > 0 => Describes(firstSegment[1], units[1])
  /\ \A list \in {inBody, inFooter, output} :
       /\ WrittenOf(list, firstSegment, segments[1])
       /\ list # <<>> =>
            duration > 0 /\ (stage = "writing" => firstSegment = <<>> \/ duration > 1)

(* Every element of a constant table is in the first slice.                 *)
LEMMA DescribedBy ==
  ASSUME config \in Configs, IsCBE, NEW u \in Sizes, NEW s,
         s.byteCount = ContentPackageSize(u),
         s.deltas = DeltaEntries(u) \/ (s.deltas = <<>> /\ Len(Elements) = 1)
  PROVE  Describes(s, u)
<1>1. /\ Len(Elements) \in Nat \ {0} /\ DOMAIN Elements = 1 .. Len(Elements)
      /\ \A i \in 1 .. Len(Elements) : Elements[i] \in CBEElement
  BY ElementFacts DEF IsCBE
<1>2. ASSUME NEW e \in 1 .. Len(Elements)
      PROVE  DeltaEntries(u)[e].delta = SizeOf(u, 1 .. (e - 1))
  <2>1. SliceOffset(e) = 0
    <3>1. \A j \in 2 .. e : j - 1 \in 1 .. Len(Elements)
      BY <1>1
    <3>2. {j \in 2 .. e : Elements[j - 1] \notin CBEElement} = {}
      BY <1>1, <3>1
    <3> QED BY <3>2, FS_EmptySet DEF SliceOffset
  <2>2. PICK o : o = SliceOffset(e)
    OBVIOUS
  <2>3. /\ SizeOf(u, 1 .. (e - 1)) =
             (IF o = 0 THEN 0 ELSE SliceStarts(u)[o]) + DeltaEntries(u)[e].delta
        /\ DeltaEntries(u)[e].delta \in Nat
    BY <2>2, SliceAndDelta
  <2> QED BY <2>1, <2>2, <2>3
<1>3. CASE s.deltas = DeltaEntries(u)
  <2>1. DOMAIN DeltaEntries(u) # {} /\ DOMAIN <<>> = {}
    BY <1>1 DEF DeltaEntries
  <2>2. s.deltas # <<>>
    BY <1>3, <2>1
  <2> QED BY <1>2, <1>3, <2>2 DEF Describes, DeltaOf
<1>4. CASE s.deltas = <<>> /\ Len(Elements) = 1
  <2>1. ASSUME NEW e \in 1 .. Len(Elements)
        PROVE  DeltaOf(s, e).delta = SizeOf(u, 1 .. (e - 1))
    <3>1. 1 .. (e - 1) = {}
      BY <1>4
    <3>2. DeltaOf(s, e).delta = 0
      BY <1>4 DEF DeltaOf
    <3> QED BY <3>1, <3>2, SumOfNone DEF SizeOf
  <2> QED BY <2>1 DEF Describes
<1> QED BY <1>3, <1>4

(* Segments with the same byte count and delta entries describe the same.   *)
LEMMA SameDescribed ==
  ASSUME NEW a, NEW b, SameUnits(a, b), NEW u, Describes(b, u)
  PROVE  Describes(a, u)
  BY DEF SameUnits, Describes, DeltaOf

(* Places in the essence are numbers.                                       *)
LEMMA BeforeIsNumber ==
  ASSUME NEW us, NEW p \in Nat, \A q \in 1 .. p : ContentPackageSize(us[q]) \in Nat
  PROVE  Before(us, p) \in Nat
<1>1. CASE p = 0
  BY <1>1, BeforeNone
<1>2. CASE p # 0
  <2>1. PICK m \in Nat : p = m + 1
    <3>1. p - 1 \in Nat /\ p = (p - 1) + 1
      BY <1>2
    <3> QED BY <3>1
  <2>2. m + 1 \in 1 .. (m + 1) /\ \A q \in 1 .. (m + 1) : ContentPackageSize(us[q]) \in Nat
    BY <2>1
  <2>3. /\ Before(us, m) \in Nat /\ ContentPackageSize(us[m + 1]) \in Nat
        /\ Before(us, m + 1) = Before(us, m) + ContentPackageSize(us[m + 1])
    BY <2>2, BeforeNext
  <2> QED BY <2>1, <2>3
<1> QED BY <1>1, <1>2

(* Edit units of the same size.                                             *)
LEMMA BeforeRepeated ==
  ASSUME NEW us, NEW a \in Nat, NEW c \in Nat, NEW p \in Nat, a <= p,
         \A q \in 1 .. p : ContentPackageSize(us[q]) \in Nat,
         \A q \in (a + 1) .. p : ContentPackageSize(us[q]) = c
  PROVE  Before(us, p) = Before(us, a) + (p - a) * c
<1> DEFINE Bad == {n \in Nat : a + n <= p /\ Before(us, a + n) # Before(us, a) + n * c}
<1>0. Before(us, a) \in Nat
  BY BeforeIsNumber
<1>1. SUFFICES ASSUME Bad # {} PROVE FALSE
  <2>1. PICK n : n = p - a
    OBVIOUS
  <2>2. n \in Nat /\ a + n = p /\ a + n <= p
    BY <2>1
  <2>3. n \notin Bad => Before(us, a + n) = Before(us, a) + n * c
    BY <2>2
  <2> HIDE DEF Bad
  <2> QED BY <2>1, <2>2, <2>3
<1>2. PICK n \in Bad : \A m \in Bad : n <= m
  <2>1. Bad \in SUBSET Nat
    OBVIOUS
  <2> HIDE DEF Bad
  <2> QED BY <1>1, <2>1, LeastNumber
<1>3. n \in Nat /\ a + n <= p /\ Before(us, a + n) # Before(us, a) + n * c
  BY <1>2
<1>4. CASE n = 0
  <2>1. a + n = a /\ n * c = 0
    BY <1>4
  <2> QED BY <1>0, <1>3, <2>1
<1>5. CASE n # 0
  <2>1. PICK m \in Nat : n = m + 1
    <3>1. n - 1 \in Nat /\ n = (n - 1) + 1
      BY <1>3, <1>5
    <3> QED BY <3>1
  <2>2. m \notin Bad
    BY <1>2, <2>1
  <2>3. a + m \in Nat /\ a + m <= p /\ a + n = (a + m) + 1
    BY <1>3, <2>1
  <2>4. Before(us, a + m) = Before(us, a) + m * c
    BY <2>2, <2>3
  <2>5. \A q \in 1 .. ((a + m) + 1) : ContentPackageSize(us[q]) \in Nat
    BY <1>3, <2>3
  <2>6. (a + m) + 1 \in (a + 1) .. p
    BY <1>3, <2>1
  <2>7. /\ Before(us, a + n) = Before(us, a + m) + c
        /\ Before(us, a + m) \in Nat
    BY <2>3, <2>5, <2>6, BeforeNext
  <2>8. n * c = m * c + c
    BY <2>1
  <2> QED BY <1>0, <1>3, <2>4, <2>7, <2>8
<1> QED BY <1>4, <1>5

(* The segments of a constant table lead to the elements.                   *)
LEMMA ConstantLocates ==
  ASSUME IndexingInv, IsCBE, UnitsInv, ConstantLocated
  PROVE  ElementsLocated
<1>1. /\ config \in Configs /\ duration \in Nat /\ IsTable(inBody) /\ IsTable(inFooter)
      /\ ConstantInv /\ IsTable(segments) /\ IsTable(firstSegment)
  BY DEF IndexingInv, TypeInv
<1>2. Len(Elements) \in Nat \ {0} /\ DOMAIN Elements = 1 .. Len(Elements)
  BY <1>1, ElementFacts
<1>3. SUFFICES ASSUME NEW list \in {inBody, inFooter}, NEW i \in DOMAIN list,
                      NEW p \in list[i].start .. (list[i].start + list[i].duration - 1),
                      p < Len(units), NEW e \in 1 .. Len(Elements)
               PROVE  IndexedPlace(list[i], Base(list, i), p, e) = Place(p, e)
  BY <1>2 DEF ElementsLocated, Locates
<1>4. /\ IsTable(list) /\ i \in 1 .. Len(list) /\ IsSegment(list[i]) /\ Len(list) \in Nat
      /\ WrittenOf(list, firstSegment, segments[1])
  BY <1>1, TableLen DEF ConstantLocated, IsTable
<1>5. PICK main, first : main = segments[1] /\ first = firstSegment
  OBVIOUS
<1>6. PICK s : s = list[i] /\ IsSegment(s)
  BY <1>4
<1>7. PICK a \in Nat, n \in Nat : a = s.start /\ n = s.duration
  BY <1>6 DEF IsSegment
<1>8. p \in Nat /\ p < duration /\ duration > 0 /\ a <= p /\ p < a + n
      /\ p + 1 \in 1 .. duration /\ 1 \in 1 .. duration /\ duration \in 1 .. duration
  BY <1>1, <1>3, <1>6, <1>7 DEF UnitsInv
<1>9. /\ \A q \in 1 .. duration : units[q] \in Sizes /\ ContentPackageSize(units[q]) \in Nat
      /\ Before(units, p) \in Nat
  BY <1>1, <1>8, UnitsAre
<1>10. /\ first = <<>> \/ (Len(first) = 1 /\ first[1].start = 0 /\ first[1].duration = 1)
       /\ main.start = Len(first) /\ Len(first) \in {0, 1} /\ (Len(first) = 0 <=> first = <<>>)
  <2>1. FirstUnits = 1
    BY <1>8 DEF FirstUnits
  <2>2. CASE first = <<>>
    BY <1>1, <1>5, <2>2, EmptySeq DEF ConstantInv
  <2>3. CASE first # <<>>
    BY <1>1, <1>5, <2>1, <2>3 DEF ConstantInv
  <2> QED BY <2>2, <2>3
<1>16. i \in Nat \ {0}
  BY <1>4
<1>11. Place(p, e) = Before(units, p) + SizeOf(units[p + 1], 1 .. (e - 1))
  BY DEF Place, Before
<1>12. ASSUME NEW base, NEW c, s.byteCount = c, Describes(s, units[p + 1])
       PROVE  Base(list, i) = base =>
                IndexedPlace(list[i], Base(list, i), p, e)
                  = base + (p - a) * c + SizeOf(units[p + 1], 1 .. (e - 1))
  <2>1. DeltaOf(s, e).delta = SizeOf(units[p + 1], 1 .. (e - 1))
    BY <1>12 DEF Describes
  <2>2. IndexedPlace(s, Base(list, i), p, e)
          = Base(list, i) + (p - s.start) * s.byteCount + DeltaOf(s, e).delta
    BY Zenon DEF IndexedPlace
  <2> QED BY <1>6, <1>7, <1>12, <2>1, <2>2
<1>13. SizeOf(units[p + 1], 1 .. (e - 1)) \in Nat
  <2>1. IsFiniteSet(1 .. (e - 1)) /\ \A j \in 1 .. (e - 1) : j \in 1 .. Len(Elements)
    <3>1. 1 \in Int /\ e - 1 \in Int /\ \A j \in 1 .. (e - 1) : j \in 1 .. Len(Elements)
      BY <1>2
    <3> QED BY ONLY <3>1, FS_Interval
  <2>2. PICK u \in Sizes : u = units[p + 1]
    BY <1>8, <1>9
  <2>3. \A j \in 1 .. (e - 1) : u[j] \in Nat
    BY <2>1, <2>2 DEF Sizes
  <2> QED BY <2>1, <2>2, <2>3, SumIsNumber DEF SizeOf
<1>14. CASE i <= Len(first)
  <2>1. i = 1 /\ s = first[1] /\ first # <<>> /\ a = 0 /\ p = 0
    <3>1. i = 1 /\ Len(first) = 1
      <4>1. PICK l \in {0, 1}, m \in Nat \ {0} : l = Len(first) /\ m = i
        BY <1>10, <1>16
      <4>2. m <= l
        BY <1>14, <4>1
      <4>3. l = 1 /\ m = 1
        BY ONLY <4>1, <4>2
      <4> QED BY <4>1, <4>3
    <3>2. s = first[1]
      BY <1>4, <1>5, <1>6, <1>14, <3>1 DEF WrittenOf
    <3>3. first # <<>> /\ a = 0
      BY <1>7, <1>10, <3>1, <3>2
    <3>4. a + n = 1
      BY <1>7, <1>10, <3>2, <3>3
    <3>5. p = 0
      BY <1>8, <3>3, <3>4
    <3> QED BY <3>1, <3>2, <3>3, <3>5
  <2>2. Describes(s, units[p + 1])
    BY <1>5, <1>8, <2>1 DEF ConstantLocated
  <2>3. Base(list, i) = 0
    <3>1. 1 .. (i - 1) = {}
      BY <2>1
    <3> QED BY <3>1, SumOfNone DEF Base
  <2>4. s.byteCount \in Nat
    BY <1>8, <1>9, <2>2 DEF Describes
  <2>5. Before(units, p) = 0 /\ (p - a) * s.byteCount = 0
    BY <2>1, <2>4, BeforeNone
  <2> QED BY <1>11, <1>12, <1>13, <2>2, <2>3, <2>5
<1>15. CASE ~(i <= Len(first))
  <2>1. i = Len(first) + 1 /\ SameUnits(s, main) /\ a = Len(first)
    <3>1. i = Len(first) + 1 /\ SameUnits(s, main)
      BY <1>4, <1>5, <1>6, <1>15 DEF WrittenOf
    <3> QED BY <1>7, <1>10, <3>1 DEF SameUnits
  <2>2. /\ \A q \in 1 .. duration : q > a => units[q] = units[duration]
        /\ Describes(main, units[duration])
    <3>1. a = main.start /\ duration > a
      BY <1>1, <1>8, <1>10, <2>1
    <3> QED BY <1>5, <3>1 DEF ConstantLocated
  <2>3. units[p + 1] = units[duration]
    BY <1>8, <2>2
  <2>4. Describes(s, units[p + 1])
    BY <2>1, <2>2, <2>3, SameDescribed
  <2>5. PICK c \in Nat : c = s.byteCount
    BY <1>8, <1>9, <2>4 DEF Describes
  <2>6. Before(units, p) = Before(units, a) + (p - a) * c
    <3>1. /\ \A q \in 1 .. p : ContentPackageSize(units[q]) \in Nat
          /\ \A q \in (a + 1) .. p : ContentPackageSize(units[q]) = c
      <4>1. \A q \in 1 .. p : q \in 1 .. duration
        BY <1>1, <1>8
      <4>2. \A q \in (a + 1) .. p : q \in 1 .. duration /\ q > a
        BY <1>1, <1>8
      <4>3. c = ContentPackageSize(units[duration])
        BY <2>3, <2>4, <2>5 DEF Describes
      <4> QED BY <1>9, <2>2, <4>1, <4>2, <4>3
    <3> QED BY <1>8, <3>1, BeforeRepeated
  <2>7. Base(list, i) = Before(units, a) /\ Before(units, a) \in Nat
    <3>1. CASE a = 0
      <4>1. 1 .. (i - 1) = {}
        BY <2>1, <3>1
      <4> QED BY <3>1, <4>1, SumOfNone, BeforeNone DEF Base
    <3>2. CASE a # 0
      <4>1. a = 1 /\ i = 2 /\ 1 \in 1 .. Len(list) /\ 1 <= Len(first) /\ first # <<>>
        <5>1. a = 1 /\ i = 2 /\ Len(first) = 1
          BY <1>10, <2>1, <3>2
        <5>2. PICK l \in Nat : l = Len(list) /\ i \in 1 .. l
          BY <1>4
        <5>3. 1 \in 1 .. Len(list)
          BY <5>1, <5>2
        <5> QED BY <1>10, <5>1, <5>3
      <4>2. list[1] = first[1] /\ first[1].duration = 1
        BY <1>4, <1>5, <1>10, <4>1 DEF WrittenOf
      <4>3. first[1].byteCount = ContentPackageSize(units[1])
        BY <1>5, <1>8, <4>1 DEF ConstantLocated, Describes
      <4> DEFINE f == [j \in DOMAIN list |-> list[j].duration * list[j].byteCount]
      <4>4. f[1] = ContentPackageSize(units[1]) /\ f[1] \in Nat
        <5>1. 1 \in DOMAIN list /\ ContentPackageSize(units[1]) \in Nat
          BY <1>4, <1>8, <1>9, <4>1, TableLen
        <5> QED BY <4>2, <4>3, <5>1
      <4>5. Base(list, i) = SumFunctionOnSet(f, {1})
        <5>1. 1 .. (i - 1) = {1}
          BY <4>1
        <5> QED BY <5>1 DEF Base
      <4> HIDE DEF f
      <4>6. Base(list, i) = ContentPackageSize(units[1])
        BY <4>4, <4>5, SumOfOne
      <4>7. Before(units, 0 + 1) = Before(units, 0) + ContentPackageSize(units[0 + 1])
        <5>1. \A q \in 1 .. (0 + 1) : q \in 1 .. duration
          BY <1>8
        <5> QED BY <1>9, <5>1, BeforeNext
      <4> QED BY <4>1, <4>4, <4>6, <4>7, BeforeNone
    <3> QED BY <3>1, <3>2
  <2> QED BY <1>11, <1>12, <1>13, <2>4, <2>5, <2>6, <2>7
<1> QED BY <1>14, <1>15

(* What a segment says of its edit units after one more.                    *)
LEMMA ExtendedUnits ==
  ASSUME NEW s, IsSegment(s), NEW size, NEW n, NEW sizes, NEW t,
         t = Extend(WithDeltas(s, sizes), size, n)
  PROVE  /\ t.start = s.start /\ t.byteCount = size
         /\ t.deltas = (IF CreatesDeltas THEN DeltaEntries(sizes) ELSE s.deltas)
<1>1. PICK ds : /\ WithDeltas(s, sizes) = [s EXCEPT !.deltas = ds]
                /\ ds = (IF CreatesDeltas THEN DeltaEntries(sizes) ELSE s.deltas)
  <2>1. s = [s EXCEPT !.deltas = s.deltas]
    BY DEF IsSegment
  <2> QED BY <2>1 DEF WithDeltas
<1>2. t = [start |-> s.start, duration |-> s.duration + n, byteCount |-> size, deltas |-> ds,
           entries |-> s.entries]
  BY <1>1 DEF Extend, IsSegment
<1> QED BY <1>1, <1>2

(* What the segments of a constant table say after an edit unit.            *)
LEMMA ConstantFields ==
  ASSUME ConstantTable, NEW sizes, UpdateCBEIndex(sizes)
  PROVE  IF duration = 0 /\ firstSegment # <<>>
           THEN /\ firstSegment' # <<>>
                /\ firstSegment'[1].byteCount = ContentPackageSize(sizes)
                /\ firstSegment'[1].deltas = DeltaEntries(sizes)
                /\ segments'[1].start = 1 /\ segments'[1].byteCount = segments[1].byteCount
                /\ segments'[1].deltas = segments[1].deltas
           ELSE /\ firstSegment' = (IF DropsFirst(sizes) THEN <<>> ELSE firstSegment)
                /\ segments'[1].start = (IF DropsFirst(sizes) THEN 0 ELSE segments[1].start)
                /\ segments'[1].byteCount = ContentPackageSize(sizes)
                /\ segments'[1].deltas =
                     (IF CreatesDeltas THEN DeltaEntries(sizes) ELSE segments[1].deltas)
<1>1. /\ IsSegment(segments[1]) /\ (firstSegment # <<>> => IsSegment(firstSegment[1]))
  BY ConstantFacts
<1>2. PICK size : size = ContentPackageSize(sizes)
  OBVIOUS
<1>3. CASE duration = 0 /\ firstSegment # <<>>
  <2>1. PICK x, f : x = firstSegment[1] /\ f = Extend(WithDeltas(x, sizes), size, 1)
    OBVIOUS
  <2>2. firstSegment' = <<f>> /\ segments' = <<[segments[1] EXCEPT !.start = 1]>>
    BY <1>2, <1>3, <2>1 DEF UpdateCBEIndex
  <2>3. f.byteCount = size /\ f.deltas = DeltaEntries(sizes)
    <3>1. IsSegment(x)
      BY <1>1, <1>3, <2>1
    <3> QED BY <1>3, <2>1, <3>1, ExtendedUnits DEF CreatesDeltas
  <2>4. firstSegment' # <<>> /\ firstSegment'[1] = f
    BY <2>2
  <2>5. segments'[1] = [segments[1] EXCEPT !.start = 1]
    BY <2>2
  <2> QED BY <1>1, <1>2, <1>3, <2>3, <2>4, <2>5 DEF IsSegment
<1>4. CASE ~(duration = 0 /\ firstSegment # <<>>)
  <2>1. PICK x, r, k : /\ x = segments[1] /\ k = MergedUnits(sizes)
                       /\ r = Extend(WithDeltas(x, sizes), size, k)
    OBVIOUS
  <2>2. /\ r.start = x.start /\ r.byteCount = size
        /\ r.deltas = (IF CreatesDeltas THEN DeltaEntries(sizes) ELSE x.deltas)
    BY <1>1, <2>1, ExtendedUnits
  <2>3. PICK s : s = [r EXCEPT !.start = IF DropsFirst(sizes) THEN 0 ELSE @]
    OBVIOUS
  <2>4. segments' = <<s>>
    <3>1. segments' = <<[Extend(WithDeltas(segments[1], sizes), size, MergedUnits(sizes))
                           EXCEPT !.start = IF DropsFirst(sizes) THEN 0 ELSE @]>>
      BY <1>2, <1>4, Zenon DEF UpdateCBEIndex
    <3> QED BY <2>1, <2>3, <3>1
  <2>5. firstSegment' = IF DropsFirst(sizes) THEN <<>> ELSE firstSegment
    BY <1>4, Zenon DEF UpdateCBEIndex
  <2>6. r = [start |-> x.start, duration |-> r.duration, byteCount |-> size,
             deltas |-> r.deltas, entries |-> r.entries]
    <3>1. PICK ds : WithDeltas(x, sizes) = [x EXCEPT !.deltas = ds]
      <4>1. x = [x EXCEPT !.deltas = x.deltas]
        BY <1>1, <2>1 DEF IsSegment
      <4> QED BY <4>1 DEF WithDeltas
    <3>2. r = [start |-> x.start, duration |-> x.duration + k, byteCount |-> size, deltas |-> ds,
               entries |-> x.entries]
      BY <1>1, <2>1, <3>1 DEF Extend, IsSegment
    <3> QED BY <3>2
  <2>7. /\ s.start = (IF DropsFirst(sizes) THEN 0 ELSE x.start)
        /\ s.byteCount = size /\ s.deltas = r.deltas
    BY <2>3, <2>6
  <2>8. segments'[1] = s
    BY <2>4
  <2> QED BY <1>2, <1>4, <2>1, <2>2, <2>5, <2>7, <2>8
<1> QED BY <1>3, <1>4

(* Edit units of the same sizes.                                            *)
LEMMA UnitsGrow ==
  ASSUME config \in Configs, duration \in Nat, UnitsInv, NEW sizes \in config.sizes,
         NEW n \in Nat, units' = units \o [i \in 1 .. n |-> sizes], duration' = duration + n,
         config' = config
  PROVE  /\ UnitsInv'
         /\ \A q \in 1 .. duration : units'[q] = units[q]
         /\ \A q \in (duration + 1) .. (duration + n) : units'[q] = sizes
<1>1. PICK more : more = [i \in 1 .. n |-> sizes] /\ more \in Seq(config.sizes) /\ Len(more) = n
  <2>1. PICK more : more = [i \in 1 .. n |-> sizes]
    OBVIOUS
  <2>2. more \in [1 .. n -> config.sizes]
    BY <2>1
  <2>3. more \in Seq(config.sizes)
    BY <2>2, SeqDef
  <2>4. Len(more) = n
    BY <2>2, <2>3
  <2> QED BY <2>1, <2>3, <2>4
<1>2. /\ units' \in Seq(config.sizes) /\ Len(units') = Len(units) + Len(more)
      /\ \A q \in 1 .. (Len(units) + Len(more)) :
           units'[q] = IF q <= Len(units) THEN units[q] ELSE more[q - Len(units)]
  BY <1>1, ConcatProperties DEF UnitsInv
<1>3. \A q \in 1 .. (duration + n) :
        units'[q] = IF q <= duration THEN units[q] ELSE more[q - duration]
  BY <1>1, <1>2 DEF UnitsInv
<1>4. ASSUME NEW q \in 1 .. duration PROVE units'[q] = units[q]
  <2>1. q \in 1 .. (duration + n) /\ q <= duration
    OBVIOUS
  <2> QED BY <1>3, <2>1
<1>5. ASSUME NEW q \in (duration + 1) .. (duration + n) PROVE units'[q] = sizes
  <2>1. q \in 1 .. (duration + n) /\ ~(q <= duration) /\ q - duration \in 1 .. n
    OBVIOUS
  <2> QED BY <1>1, <1>3, <2>1
<1>6. UnitsInv'
  BY <1>1, <1>2 DEF UnitsInv
<1> QED BY <1>4, <1>5, <1>6

(* Of the clip wrapped samples each takes up its own size.                  *)
LEMMA SizeOfSample == \A n \in Nat \ {0}, s \in Nat : UnitByteCount(n * s, n) = s
  BY DEF UnitByteCount

(* What a segment describes depends on the configuration alone.             *)
LEMMA SameDescriptions ==
  ASSUME config' = config
  PROVE  \A s, u : Describes(s, u)' <=> Describes(s, u)
  BY SameConfig DEF Describes, DeltaOf

(* What was written of a segment stays so while the segment does.           *)
LEMMA SameWritten ==
  ASSUME NEW list, NEW first, NEW a, NEW b, SameUnits(a, b), WrittenOf(list, first, b)
  PROVE  WrittenOf(list, first, a)
  BY DEF SameUnits, WrittenOf

(* Where the segment of the others starts, and whether it has any.          *)
LEMMA StartOfMain ==
  ASSUME ConstantInv, duration \in Nat
  PROVE  /\ segments[1].start \in {0, 1} /\ segments[1].start <= duration
         /\ firstSegment = <<>> => segments[1].start = 0
         /\ firstSegment # <<>> /\ duration > 0 => segments[1].start = 1
         /\ duration > segments[1].start => ~CreatesDeltas
         /\ ~CreatesDeltas => duration > segments[1].start
  BY DEF ConstantInv, FirstUnits, CreatesDeltas

(* More edit units like those that the segment describes.                   *)
LEMMA LocatedAgain ==
  ASSUME config \in Configs, duration \in Nat, ConstantInv, ConstantLocated,
         NEW sizes, NEW n \in Nat \ {0}, duration > segments[1].start, units[duration] = sizes,
         UNCHANGED <<config, firstSegment, stage, inBody, inFooter, output>>,
         duration' = duration + n,
         \A q \in 1 .. duration : units'[q] = units[q],
         \A q \in (duration + 1) .. (duration + n) : units'[q] = sizes,
         SameUnits(segments'[1], segments[1]),
         \A e \in Element : elementSize'[e] = elementSize[e]
  PROVE  ConstantLocated'
<1>0. config' = config
  OBVIOUS
<1>1. PICK a \in {0, 1} : a = segments[1].start /\ a < duration /\ ~CreatesDeltas
  BY StartOfMain
<1>2. PICK main, next, us : main = segments[1] /\ next = segments'[1] /\ us = units'
  OBVIOUS
<1>3. SameUnits(next, main) /\ next.start = a /\ Describes(main, sizes)
  BY <1>1, <1>2 DEF SameUnits, ConstantLocated
<1>4. Elements' = Elements /\ Len(Elements)' = Len(Elements)
  BY <1>0, SameConfig
<1>5. us[duration'] = sizes
  BY <1>2
<1>6. ASSUME NEW q \in 1 .. duration', q > a PROVE us[q] = us[duration']
  <2>1. CASE q <= duration
    <3>1. q \in 1 .. duration
      BY <1>6, <2>1
    <3>2. units[q] = units[duration]
      BY <1>1, <1>6, <3>1 DEF ConstantLocated
    <3> QED BY <1>2, <1>5, <3>1, <3>2
  <2>2. CASE ~(q <= duration)
    <3>1. q \in (duration + 1) .. (duration + n)
      BY <1>6, <2>2
    <3> QED BY <1>2, <1>5, <3>1
  <2> QED BY <2>1, <2>2
<1>7. Describes(segments[1], units[duration])'
  <2>1. Describes(next, us[duration'])
    BY <1>3, <1>5, SameDescribed
  <2> QED BY <1>0, <1>2, <2>1, SameDescriptions
<1>8. duration' # a /\ duration' > 0 /\ (duration > 1 => duration' > 1)
  BY <1>1
<1>9. ~config'.clip => \A i \in 1 .. Len(Elements') :
        elementSize'[Elements'[i]] = us[duration'][i]
  <2> SUFFICES ASSUME ~config.clip, NEW i \in 1 .. Len(Elements)
               PROVE  elementSize'[Elements[i]] = sizes[i]
    BY <1>4, <1>5
  <2>1. Elements[i] \in Element
    BY ElementFacts
  <2>2. elementSize[Elements[i]] = sizes[i]
    BY <1>1 DEF ConstantLocated
  <2> QED BY <2>1, <2>2
<1>10. firstSegment # <<>> => Describes(firstSegment[1], units[1])'
  <2> SUFFICES ASSUME firstSegment # <<>> PROVE Describes(firstSegment[1], units[1])'
    OBVIOUS
  <2>1. Describes(firstSegment[1], units[1]) /\ 1 \in 1 .. duration
    BY <1>1 DEF ConstantLocated
  <2>2. PICK f : f = firstSegment[1] /\ f = firstSegment'[1]
    OBVIOUS
  <2>3. Describes(f, us[1])
    BY <1>2, <2>1, <2>2
  <2> QED BY <1>0, <1>2, <2>2, <2>3, SameDescriptions
<1>11. ASSUME NEW list \in {inBody, inFooter, output}
       PROVE  WrittenOf(list, firstSegment, next)
  BY <1>2, <1>3, <1>11, SameWritten DEF ConstantLocated
<1>12. \A list \in {inBody', inFooter', output'} :
         /\ WrittenOf(list, firstSegment', segments'[1])
         /\ list # <<>> => duration' > 0 /\ (stage' = "writing" => firstSegment' = <<>> \/ duration' > 1)
  BY <1>2, <1>8, <1>11 DEF ConstantLocated
<1> QED BY ONLY <1>2, <1>3, <1>6, <1>7, <1>8, <1>9, <1>10, <1>12, firstSegment' = firstSegment
        DEF ConstantLocated

(* Edit units that the segment describes from now on.                       *)
LEMMA LocatedFirst ==
  ASSUME NEW sizes, UNCHANGED <<config, inBody, inFooter, output>>,
         \A list \in {inBody, inFooter, output} : list = <<>>,
         duration' \in Nat, duration' > segments'[1].start, units'[duration'] = sizes,
         \A q \in 1 .. duration' : q > segments'[1].start => units'[q] = sizes,
         segments'[1].start \in Nat,
         Describes(segments'[1], sizes),
         config.clip \/ \A i \in 1 .. Len(Elements) : elementSize'[Elements[i]] = sizes[i],
         firstSegment' # <<>> => Describes(firstSegment'[1], units'[1])
  PROVE  ConstantLocated'
<1>0. config' = config
  OBVIOUS
<1>1. PICK next, us, f, a : /\ next = segments'[1] /\ us = units' /\ f = firstSegment'[1]
                            /\ a = next.start
  OBVIOUS
<1>2. Elements' = Elements /\ Len(Elements)' = Len(Elements)
  BY <1>0, SameConfig
<1>3. Describes(segments[1], units[duration])'
  <2>1. Describes(next, us[duration'])
    BY <1>1
  <2> QED BY <1>0, <1>1, <2>1, SameDescriptions
<1>4. firstSegment' # <<>> => Describes(firstSegment[1], units[1])'
  <2> SUFFICES ASSUME firstSegment' # <<>> PROVE Describes(firstSegment[1], units[1])'
    OBVIOUS
  <2>1. Describes(f, us[1])
    BY <1>1
  <2> QED BY <1>0, <1>1, <2>1, SameDescriptions
<1>5. duration' # segments'[1].start
  OBVIOUS
<1>6. ~config'.clip => \A i \in 1 .. Len(Elements') : elementSize'[Elements'[i]] = units'[duration'][i]
  BY <1>2
<1>7. \A list \in {inBody', inFooter', output'} :
        list = <<>> /\ WrittenOf(list, firstSegment', segments'[1])
  BY DEF WrittenOf
<1>8. \A q \in 1 .. duration' : q > segments'[1].start => units'[q] = units'[duration']
  OBVIOUS
<1> QED BY ONLY <1>3, <1>4, <1>5, <1>6, <1>7, <1>8 DEF ConstantLocated

(* A clip wrapped sample is an edit unit of one element, and not empty.     *)
LEMMA ClipSize ==
  ASSUME config \in Configs, config.clip, NEW u \in config.sizes
  PROVE  /\ Len(Elements) = 1 /\ u \in [1 .. 1 -> Nat] /\ u[1] \in Nat \ {0}
         /\ ContentPackageSize(u) = u[1] /\ u = <<u[1]>>
<1>1. Len(Elements) = 1 /\ u \in Sizes /\ u[1] > 0
  BY ElementFacts, IndexingAssumption, SizesAssumption DEF Elements
<1>2. u \in [1 .. 1 -> Nat] /\ u[1] \in Nat \ {0}
  BY <1>1 DEF Sizes
<1>3. ContentPackageSize(u) = SizeOf(u, 1 .. 1) /\ 1 .. 1 = {1}
  BY <1>1, PackageSize
<1>4. SizeOf(u, {1}) = u[1]
  BY <1>2, SumOfOne DEF SizeOf
<1>5. u = <<u[1]>>
  BY <1>2
<1> QED BY <1>1, <1>2, <1>3, <1>4, <1>5

LEMMA ConstantInit ==
  ASSUME Init, IsCBE
  PROVE  ConstantLocated
<1>1. /\ duration = 0 /\ segments = <<NewSegment(0)>> /\ inBody = <<>> /\ inFooter = <<>>
      /\ output = <<>>
  BY DEF Init, InitIndexTable
<1>2. segments[1].start = 0 /\ segments[1].byteCount = 0 /\ segments[1].deltas = <<>>
  BY <1>1 DEF NewSegment
<1>3. CreatesDeltas /\ 1 .. duration = {}
  BY <1>1 DEF CreatesDeltas
<1>4. \A list \in {inBody, inFooter, output} :
        list = <<>> /\ WrittenOf(list, firstSegment, segments[1])
  BY <1>1 DEF WrittenOf
<1> QED BY ONLY <1>1, <1>2, <1>3, <1>4 DEF ConstantLocated

(* AVC-Intra packages of the same size are the same.                        *)
LEMMA SameSizeSame ==
  ASSUME config \in Configs, IsCBE, config.avci, NEW s \in config.sizes, NEW t \in config.sizes,
         ContentPackageSize(s) = ContentPackageSize(t)
  PROVE  s = t
<1>1. s \in Sizes /\ t \in Sizes
  BY ElementFacts
<1>2. SumFunction(s) = SumFunction(t)
  BY <1>1, PackageSize
<1> QED BY <1>2, SizesAssumption DEF IsCBE, CBEElement, Element, Elements

(* An edit unit of a constant table: the first one, the second one, which   *)
(* may show that the first is not special, or one like those before it.     *)
LEMMA ConstantUnitLocated ==
  ASSUME IndexingInv, IsCBE, Running, UnitsInv, ConstantLocated, NEW sizes \in config.sizes,
         UpdateIndex(sizes), ~IndexFails,
         \A q \in 1 .. duration : units'[q] = units[q], units'[duration + 1] = sizes,
         UNCHANGED <<inBody, inFooter, stage>>
  PROVE  ConstantLocated'
<1>1. /\ ~SizeChanged(sizes) /\ ~CBEIndexFails(sizes) /\ elementSize' = ElementSizes(sizes)
      /\ UpdateCBEIndex(sizes) /\ duration' = duration + 1
      /\ UNCHANGED <<config, output>>
  BY DEF UpdateIndex
<1>2. /\ config \in Configs /\ duration \in Nat /\ ConstantInv /\ ConstantTable
      /\ sizes \in Sizes /\ stage = "writing" /\ Len(Elements) \in Nat \ {0}
  BY IsConstantTable, ElementFacts DEF IndexingInv, TypeInv, Running
<1>3. /\ \A i \in 1 .. Len(Elements) : elementSize'[Elements[i]] = sizes[i]
      /\ ~CreatesDeltas => \A e \in Element : elementSize'[e] = elementSize[e]
  <2>1. /\ \A i \in 1 .. Len(Elements) :
             Elements[i] \in CBEElement => elementSize'[Elements[i]] = sizes[i]
        /\ ~CreatesDeltas => \A e \in Element : elementSize'[e] = elementSize[e]
    BY <1>1, <1>2, SizesKept
  <2>2. \A i \in 1 .. Len(Elements) : Elements[i] \in CBEElement
    BY <1>2, ElementFacts DEF IsCBE
  <2> QED BY <2>1, <2>2
<1>4. PICK main, next, us : main = segments[1] /\ next = segments'[1] /\ us = units'
  OBVIOUS
<1>5. CASE duration = 0 /\ firstSegment # <<>>
  <2>1. /\ firstSegment'[1].byteCount = ContentPackageSize(sizes) /\ firstSegment' # <<>>
        /\ firstSegment'[1].deltas = DeltaEntries(sizes)
        /\ next.start = 1 /\ next.byteCount = main.byteCount /\ next.deltas = main.deltas
    BY <1>1, <1>2, <1>4, <1>5, ConstantFields
  <2>2. main.start = 0 /\ main.byteCount = 0 /\ main.deltas = <<>>
    <3>1. main.start = 0
      BY <1>2, <1>4, <1>5, StartOfMain
    <3> QED BY <1>4, <1>5, <3>1 DEF ConstantLocated
  <2>3. \A list \in {inBody, inFooter, output} : list = <<>>
    BY <1>5 DEF ConstantLocated
  <2>4. duration' = 1 /\ us[1] = sizes
    BY <1>1, <1>4, <1>5
  <2>5. CreatesDeltas'
    BY <2>1, <2>4 DEF CreatesDeltas
  <2>6. Describes(firstSegment[1], units[1])'
    <3>1. PICK f : f = firstSegment'[1]
      OBVIOUS
    <3>2. Describes(f, us[1])
      BY <1>2, <2>1, <2>4, <3>1, DescribedBy
    <3> QED BY <1>1, <1>4, <3>1, <3>2, SameDescriptions
  <2>7. \A list \in {inBody', inFooter', output'} :
          list = <<>> /\ WrittenOf(list, firstSegment', segments'[1])
    BY <1>1, <2>3 DEF WrittenOf
  <2>8. \A q \in 1 .. duration' : ~(q > segments'[1].start)
    BY <1>4, <2>1, <2>4
  <2>9. ~(duration' > segments'[1].start) /\ segments'[1].byteCount = 0
        /\ segments'[1].deltas = <<>>
    BY <1>4, <2>1, <2>2, <2>4
  <2> QED BY ONLY <2>5, <2>6, <2>7, <2>8, <2>9 DEF ConstantLocated
<1>6. CASE ~(duration = 0 /\ firstSegment # <<>>)
  <2>1. /\ firstSegment' = (IF DropsFirst(sizes) THEN <<>> ELSE firstSegment)
        /\ next.start = (IF DropsFirst(sizes) THEN 0 ELSE main.start)
        /\ next.byteCount = ContentPackageSize(sizes)
        /\ next.deltas = (IF CreatesDeltas THEN DeltaEntries(sizes) ELSE main.deltas)
    BY <1>1, <1>2, <1>4, <1>6, Zenon, ConstantFields
  <2>2. CASE CreatesDeltas
    <3>1. Describes(next, sizes)
      BY <1>2, <2>1, <2>2, DescribedBy
    <3>2. \A list \in {inBody, inFooter, output} : list = <<>>
      <4>1. duration = 0 \/ (firstSegment # <<>> /\ duration = 1)
        BY <2>2 DEF CreatesDeltas
      <4> QED BY <1>2, <4>1 DEF ConstantLocated
    <3>3. /\ next.start \in Nat /\ next.start < duration' /\ us[duration'] = sizes
          /\ \A q \in 1 .. duration' : q > next.start => us[q] = sizes
          /\ firstSegment' # <<>> => Describes(firstSegment'[1], us[1])
      <4>1. CASE duration = 0
        <5>1. firstSegment = <<>> /\ firstSegment' = <<>> /\ next.start = 0 /\ duration' = 1
          <6>1. firstSegment = <<>> /\ ~DropsFirst(sizes) /\ main.start = 0
            BY <1>2, <1>4, <1>6, <4>1, StartOfMain DEF DropsFirst
          <6> QED BY <1>1, <2>1, <4>1, <6>1
        <5>2. us[1] = sizes /\ \A q \in 1 .. 1 : q = 1
          BY <1>4, <4>1
        <5> QED BY <5>1, <5>2
      <4>2. CASE duration # 0
        <5>1. duration = 1 /\ firstSegment # <<>> /\ duration' = 2 /\ main.start = 1
          <6>1. duration = 1 /\ firstSegment # <<>>
            BY <2>2, <4>2 DEF CreatesDeltas
          <6> QED BY <1>1, <1>2, <1>4, <6>1, StartOfMain
        <5>2. us[1] = units[1] /\ us[2] = sizes /\ \A q \in 1 .. 2 : q = 1 \/ q = 2
          BY <1>4, <5>1
        <5>3. Describes(firstSegment[1], us[1])
          BY <5>1, <5>2 DEF ConstantLocated
        <5>4. CASE DropsFirst(sizes)
          <6>1. ContentPackageSize(units[1]) = ContentPackageSize(sizes)
            BY <5>2, <5>3, <5>4 DEF DropsFirst, Describes
          <6>2. units[1] \in config.sizes /\ config.avci
            <7>1. config.avci
              BY <1>2, <5>1 DEF ConstantInv
            <7>2. 1 \in 1 .. duration
              BY <5>1
            <7> QED BY <1>2, <7>1, <7>2, UnitsAre
          <6>3. us[1] = sizes
            BY <1>2, <5>2, <6>1, <6>2, SameSizeSame
          <6> QED BY <2>1, <5>1, <5>2, <5>4, <6>3
        <5>5. CASE ~DropsFirst(sizes)
          <6>1. firstSegment' = firstSegment /\ next.start = 1
            BY <2>1, <5>1, <5>5
          <6>2. PICK f : f = firstSegment[1] /\ f = firstSegment'[1]
            BY <6>1
          <6> QED BY <5>1, <5>2, <5>3, <6>1, <6>2
        <5> QED BY <5>4, <5>5
      <4> QED BY <4>1, <4>2
    <3>4. duration' \in Nat
      BY <1>1, <1>2
    <3> QED BY <1>1, <1>3, <1>4, <3>1, <3>2, <3>3, <3>4, LocatedFirst
  <2>3. CASE ~CreatesDeltas
    <3>1. duration > main.start /\ ~DropsFirst(sizes) /\ duration \in 1 .. duration
      <4>1. duration > main.start /\ main.start \in {0, 1}
        BY <1>2, <1>4, <2>3, StartOfMain
      <4> QED BY <1>2, <2>3, <4>1 DEF DropsFirst, CreatesDeltas
    <3>2. Describes(main, units[duration])
      BY <1>4, <3>1 DEF ConstantLocated
    <3>3. units[duration] \in config.sizes /\ units[duration] \in Sizes
      BY <1>2, <3>1, UnitsAre
    <3>4. units[duration] = sizes
      <4>1. CASE ~config.clip
        <5>1. \A i \in 1 .. Len(Elements) : sizes[i] = units[duration][i]
          <6>1. \A i \in 1 .. Len(Elements) : Elements[i] \in Element
            BY <1>2, ElementFacts
          <6> QED BY <1>3, <2>3, <4>1, <6>1 DEF ConstantLocated
        <5> QED BY <1>2, <3>3, <5>1 DEF Sizes
      <4>2. CASE config.clip
        <5>1. main.byteCount = ContentPackageSize(units[duration])
          BY <3>2 DEF Describes
        <5>2. main.byteCount \in {0, ContentPackageSize(sizes)}
          BY <1>1, <1>4, <1>6 DEF CBEIndexFails, CannotExtend
        <5>3. PICK u : u = units[duration] /\ u \in config.sizes
          BY <3>3
        <5>4. /\ ContentPackageSize(u) = u[1] /\ u[1] \in Nat \ {0} /\ u = <<u[1]>>
              /\ ContentPackageSize(sizes) = sizes[1] /\ sizes = <<sizes[1]>>
          BY <1>2, <4>2, <5>3, ClipSize
        <5>5. u[1] = sizes[1]
          BY <5>1, <5>2, <5>3, <5>4
        <5> QED BY <5>3, <5>4, <5>5
      <4> QED BY <4>1, <4>2
    <3>5. SameUnits(next, main)
      BY <2>1, <2>3, <3>1, <3>2, <3>4 DEF SameUnits, Describes
    <3>6. firstSegment' = firstSegment
      BY <2>1, <3>1
    <3>7. \A q \in (duration + 1) .. (duration + 1) : units'[q] = sizes
      <4>1. \A q \in (duration + 1) .. (duration + 1) : q = duration + 1
        BY <1>2
      <4> QED BY <4>1
    <3>8. PICK n \in Nat \ {0} : n = 1
      OBVIOUS
    <3>9. /\ duration' = duration + n
          /\ \A q \in (duration + 1) .. (duration + n) : units'[q] = sizes
      BY <1>1, <3>7, <3>8
    <3>10. UNCHANGED <<config, firstSegment, stage, inBody, inFooter, output>>
      BY <1>1, <3>6
    <3>11. duration > segments[1].start /\ SameUnits(segments'[1], segments[1])
      BY <1>4, <3>1, <3>5
    <3> QED BY <1>2, <1>3, <2>3, <3>4, <3>9, <3>10, <3>11, LocatedAgain
  <2> QED BY <2>2, <2>3
<1> QED BY <1>5, <1>6

(* A step that adds no edit unit to a constant table.                       *)
LEMMA ConstantKeeps ==
  ASSUME UnitsInv, ConstantLocated,
         UNCHANGED <<config, units, firstSegment, segments, duration, elementSize>>,
         \A list \in {inBody', inFooter', output'} :
           /\ WrittenOf(list, firstSegment, segments[1])
           /\ list # <<>> =>
                duration > 0 /\ (stage' = "writing" => firstSegment = <<>> \/ duration > 1)
  PROVE  UnitsInv' /\ ConstantLocated'
<1>0. config' = config /\ duration' = duration /\ firstSegment' = firstSegment
      /\ segments' = segments /\ units' = units /\ elementSize' = elementSize
  OBVIOUS
<1>1. Elements' = Elements /\ Len(Elements)' = Len(Elements)
  BY <1>0, SameConfig
<1>2. UnitsInv'
  BY <1>0 DEF UnitsInv
<1>3. CreatesDeltas' <=> CreatesDeltas
  BY <1>0 DEF CreatesDeltas
<1>4. \A s, u : Describes(s, u)' <=> Describes(s, u)
  BY <1>0, SameDescriptions
<1>5. /\ duration > segments[1].start => Describes(segments[1], units[duration])'
      /\ firstSegment # <<>> /\ duration > 0 => Describes(firstSegment[1], units[1])'
  <2>1. PICK s, u, f, v : s = segments[1] /\ u = units[duration] /\ f = firstSegment[1] /\ v = units[1]
    OBVIOUS
  <2>2. /\ Describes(segments[1], units[duration])' <=> Describes(s, u)
        /\ Describes(firstSegment[1], units[1])' <=> Describes(f, v)
    BY <1>0, <1>1, <2>1 DEF Describes, DeltaOf
  <2> QED BY <2>1, <2>2 DEF ConstantLocated
<1>6. ~config'.clip /\ ~CreatesDeltas' =>
        \A i \in 1 .. Len(Elements') : elementSize'[Elements'[i]] = units'[duration'][i]
  BY <1>0, <1>1, <1>3 DEF ConstantLocated
<1>7. \A list \in {inBody', inFooter', output'} :
         /\ WrittenOf(list, firstSegment', segments'[1])
         /\ list # <<>> =>
              duration' > 0 /\ (stage' = "writing" => firstSegment' = <<>> \/ duration' > 1)
  BY <1>0
<1>8. /\ \A q \in 1 .. duration' : q > segments'[1].start => units'[q] = units'[duration']
      /\ duration' = segments'[1].start =>
           segments'[1].byteCount = 0 /\ segments'[1].deltas = <<>>
  BY <1>0 DEF ConstantLocated
<1> QED BY ONLY <1>0, <1>2, <1>5, <1>6, <1>7, <1>8 DEF ConstantLocated

(* A step of a constant table that changes nothing of it.                   *)
LEMMA ConstantSame ==
  ASSUME UnitsInv, ConstantLocated,
         UNCHANGED <<config, units, firstSegment, segments, duration, elementSize, inBody,
                     inFooter, output>>,
         stage' = "writing" => stage = "writing"
  PROVE  UnitsInv' /\ ConstantLocated'
<1>1. \A list \in {inBody', inFooter', output'} :
        /\ WrittenOf(list, firstSegment, segments[1])
        /\ list # <<>> =>
             duration > 0 /\ (stage' = "writing" => firstSegment = <<>> \/ duration > 1)
  BY DEF ConstantLocated
<1> QED BY <1>1, ConstantKeeps

(* Clip wrapped samples: the first ones, or more of the same size.          *)
LEMMA ClipSamplesLocated ==
  ASSUME IndexingInv, UnitsInv, ConstantLocated, NEW sizes \in config.sizes,
         NEW n \in Nat \ {0}, WriteClipSamples(sizes, n)
  PROVE  UnitsInv' /\ ConstantLocated'
<1>1. /\ Running /\ config.clip /\ UNCHANGED <<ignored, inBody, inFooter, stage>>
      /\ UpdateIndexSamples(n * sizes[1], n)
      /\ units' = IF indexStatus' = "ok" THEN units \o [i \in 1 .. n |-> sizes] ELSE units
      /\ indexStatus = "ok"
  BY DEF WriteClipSamples, Running
<1>2. /\ config \in Configs /\ IsCBE /\ ~config.avci /\ duration \in Nat /\ ConstantInv
      /\ firstSegment = <<>> /\ IsSegment(segments[1]) /\ Len(segments) = 1
  <2>1. config \in Configs /\ IsCBE /\ ~config.avci
    BY <1>1, ConfigFacts DEF IndexingInv, TypeInv
  <2>2. duration \in Nat /\ ConstantInv /\ IsSegment(segments[1])
    BY <2>1, IsConstantTable, ConstantFacts
  <2> QED BY <2>1, <2>2 DEF ConstantInv
<1>3. /\ Len(Elements) = 1 /\ sizes[1] \in Nat \ {0} /\ ContentPackageSize(sizes) = sizes[1]
      /\ sizes = <<sizes[1]>> /\ sizes \in Sizes
  BY <1>1, <1>2, ClipSize, ElementFacts
<1>4. CASE IndexFails
  <2>1. /\ UNCHANGED <<config, units, firstSegment, segments, duration, elementSize, inBody,
                       inFooter, output, stage>>
        /\ indexStatus' # "ok"
    BY <1>1, <1>4 DEF IndexFails
  <2> QED BY <2>1, ConstantSame
<1>5. CASE ~IndexFails
  <2>1. indexStatus' = "ok" /\ duration' = duration + n /\ config' = config
        /\ UNCHANGED <<firstSegment, output>>
    <3>1. CASE n = 1
      <4>1. UpdateIndex(<<n * sizes[1]>>) /\ IsCBE
        BY <1>1, <1>2, <3>1 DEF UpdateIndexSamples
      <4>2. PICK given : UpdateIndex(given)
        BY <4>1
      <4>3. /\ UpdateCBEIndex(given) /\ indexStatus' = "ok" /\ duration' = duration + n
            /\ config' = config /\ output' = output
        BY <1>1, <1>2, <1>5, <3>1, <4>2 DEF UpdateIndex
      <4>4. firstSegment' = firstSegment
        BY <1>2, <4>3, Zenon DEF UpdateCBEIndex, DropsFirst
      <4> QED BY <4>3, <4>4
    <3>2. CASE n # 1
      BY <1>1, <1>5, <3>2 DEF UpdateIndexSamples
    <3> QED BY <3>1, <3>2
  <2>2. /\ UnitsInv'
        /\ \A q \in 1 .. duration : units'[q] = units[q]
        /\ \A q \in (duration + 1) .. (duration + n) : units'[q] = sizes
    BY <1>1, <1>2, <2>1, UnitsGrow
  <2>3. CASE n = 1
    <3>1. n * sizes[1] = sizes[1]
      BY <1>3, <2>3
    <3>2. UpdateIndex(sizes)
      BY <1>1, <1>3, <2>3, <3>1 DEF UpdateIndexSamples
    <3>3. units'[duration + 1] = sizes
      BY <1>2, <2>2, <2>3
    <3> QED BY <1>1, <1>2, <1>5, <2>2, <3>2, <3>3, ConstantUnitLocated
  <2>4. CASE n # 1
    <3>1. UnitByteCount(n * sizes[1], n) = sizes[1]
      BY <1>3, SizeOfSample
    <3>2. /\ ~CannotExtend(segments[1], sizes[1]) /\ elementSize' = elementSize
          /\ segments' = [segments EXCEPT ![1] = Extend(@, sizes[1], n)]
      BY <1>1, <1>5, <2>4, <3>1 DEF UpdateIndexSamples
    <3>3. PICK main, next : main = segments[1] /\ next = segments'[1]
      OBVIOUS
    <3>4. next = Extend(main, sizes[1], n)
      <4>1. 1 \in DOMAIN segments
        BY <1>2, TableLen DEF IndexingInv, TypeInv
      <4> QED BY <3>2, <3>3, <4>1
    <3>5. next.start = main.start /\ next.byteCount = sizes[1] /\ next.deltas = main.deltas
      BY <1>2, <3>3, <3>4 DEF Extend, IsSegment
    <3>6. main.start = 0
      BY <1>2, <3>3, StartOfMain
    <3>7. CASE duration = 0
      <4>1. main.deltas = <<>>
        BY <3>3, <3>6, <3>7 DEF ConstantLocated
      <4>2. Describes(next, sizes)
        BY <1>2, <1>3, <3>5, <4>1, DescribedBy
      <4>3. \A list \in {inBody, inFooter, output} : list = <<>>
        BY <3>7 DEF ConstantLocated
      <4>4. duration' = n /\ units'[n] = sizes /\ \A q \in 1 .. n : units'[q] = sizes
        <5>1. \A q \in 1 .. n : q \in (duration + 1) .. (duration + n)
          BY <3>7
        <5>2. n \in 1 .. n
          OBVIOUS
        <5> QED BY <2>1, <2>2, <3>7, <5>1, <5>2
      <4>5. duration' \in Nat /\ duration' > 0
        BY <4>4
      <4> QED BY <1>1, <1>2, <2>1, <2>2, <3>3, <3>5, <3>6, <4>2, <4>3, <4>4, <4>5, LocatedFirst
    <3>8. CASE duration # 0
      <4>1. Describes(main, units[duration]) /\ duration \in 1 .. duration
        BY <1>2, <3>3, <3>6, <3>8 DEF ConstantLocated
      <4>2. PICK u : u = units[duration] /\ u \in config.sizes
        BY <1>2, <4>1, UnitsAre
      <4>3. ContentPackageSize(u) = u[1] /\ u[1] \in Nat \ {0} /\ u = <<u[1]>>
        BY <1>1, <1>2, <4>2, ClipSize
      <4>4. main.byteCount = u[1] /\ main.byteCount \in {0, sizes[1]}
        BY <3>2, <3>3, <4>1, <4>2, <4>3 DEF CannotExtend, Describes
      <4>5. u[1] = sizes[1]
        BY <4>3, <4>4
      <4>6. units[duration] = sizes /\ SameUnits(next, main)
        BY <1>3, <3>5, <4>2, <4>3, <4>4, <4>5 DEF SameUnits
      <4>7. UNCHANGED <<config, firstSegment, stage, inBody, inFooter, output>>
        BY <1>1, <2>1
      <4>8. duration > segments[1].start /\ SameUnits(segments'[1], segments[1])
            /\ \A e \in Element : elementSize'[e] = elementSize[e]
        BY <1>2, <3>2, <3>3, <3>6, <3>8, <4>6
      <4>9. ConstantLocated'
        BY <1>2, <2>1, <2>2, <4>6, <4>7, <4>8, LocatedAgain
      <4> QED BY <2>2, <4>9
    <3> QED BY <2>2, <3>7, <3>8
  <2> QED BY <2>3, <2>4
<1> QED BY <1>4, <1>5

(* What is written of a constant table.                                     *)
LEMMA ConstantOutput ==
  ASSUME IndexingInv, IsCBE, ConstantLocated, NEW isFooter, NEW final,
         WriteSegments(isFooter, final)
  PROVE  /\ UNCHANGED <<config, firstSegment, segments, duration, elementSize>>
         /\ IsTable(output') /\ WrittenOf(output', firstSegment, segments[1])
         /\ output' # <<>> => duration > 0
<1>1. CASE IndexFails
  BY <1>1 DEF IndexFails, IndexingInv, TypeInv, ConstantLocated
<1>2. CASE ~IndexFails
  <2>1. /\ duration # 0 /\ output' = CBESegments(final)
        /\ UNCHANGED <<config, firstSegment, segments, duration, elementSize>>
    BY <1>2 DEF WriteSegments
  <2>2. ConstantTable /\ InputDuration \in Nat \cup {NoDuration}
    BY IsConstantTable
  <2>3. IsTable(output')
    BY <1>2, <2>2, ConstantFlush
  <2>4. /\ IsTable(firstSegment) /\ IsSegment(segments[1]) /\ duration \in Nat
    BY <2>2, ConstantFacts
  <2>5. PICK x : x = [segments[1] EXCEPT !.duration = WrittenDuration(final)]
    OBVIOUS
  <2>6. SameUnits(x, segments[1])
    BY <2>4, <2>5 DEF SameUnits, IsSegment
  <2>7. PICK rest : rest = (IF WritesMainSegment THEN <<x>> ELSE <<>>)
    OBVIOUS
  <2>8. PICK list : list = output'
    OBVIOUS
  <2>9. list = firstSegment \o rest
    BY <2>1, <2>5, <2>7, <2>8, Zenon DEF CBESegments
  <2>10. /\ Len(list) = Len(firstSegment) + Len(rest)
         /\ \A i \in 1 .. (Len(firstSegment) + Len(rest)) :
              list[i] = IF i <= Len(firstSegment) THEN firstSegment[i]
                        ELSE rest[i - Len(firstSegment)]
    <3>1. PICK S : firstSegment \in Seq(S) /\ rest \in Seq(S)
      <4>1. firstSegment \in Seq(Range(firstSegment))
        BY <2>4 DEF IsTable
      <4>2. firstSegment \in Seq(Range(firstSegment) \cup {x})
        BY <4>1, SeqMonotonic
      <4>3. rest \in Seq(Range(firstSegment) \cup {x})
        <5>1. PICK T : T = Range(firstSegment) \cup {x}
          OBVIOUS
        <5>4. x \in T
          BY <5>1
        <5>2. <<x>> \in Seq(T) /\ <<>> \in Seq(T)
          BY <5>4
        <5>3. rest \in Seq(T)
          BY ONLY <2>7, <5>2, Zenon
        <5> QED BY <5>1, <5>3
      <4> QED BY <4>2, <4>3
    <3> QED BY <2>9, <3>1, ConcatProperties
  <2>11. PICK l \in Nat : l = Len(firstSegment)
    BY <2>4, TableLen
  <2>12. ASSUME NEW i \in 1 .. Len(list)
         PROVE  IF i <= l THEN list[i] = firstSegment[i]
                          ELSE i = l + 1 /\ SameUnits(list[i], segments[1])
    <3>1. CASE i <= l
      BY <2>10, <2>11, <3>1
    <3>2. CASE ~(i <= l)
      <4>1. Len(rest) \in {0, 1} /\ (Len(rest) = 1 => rest[1] = x)
        BY <2>7
      <4>2. PICK r \in {0, 1} : r = Len(rest) /\ i \in 1 .. (l + r)
        BY <2>10, <2>11, <4>1
      <4>3. r = 1 /\ i = l + 1 /\ i - l = 1
        BY <3>2, <4>2
      <4>4. list[i] = x
        BY <2>10, <2>11, <3>2, <4>1, <4>2, <4>3
      <4> QED BY <2>6, <3>2, <4>3, <4>4
    <3> QED BY <3>1, <3>2
  <2>13. WrittenOf(list, firstSegment, segments[1])
    BY <2>11, <2>12 DEF WrittenOf
  <2> QED BY <2>1, <2>3, <2>4, <2>8, <2>13
<1> QED BY <1>1, <1>2

(* A constant table goes to a partition.                                    *)
LEMMA ConstantWrittenLocated ==
  ASSUME IndexingInv, IsCBE, UnitsInv, ConstantLocated, NEW isFooter, NEW final,
         WriteSegments(isFooter, final), units' = units,
         inBody' \in {inBody, output'} \/ (inBody = <<>> /\ inBody' = inBody \o output'),
         inFooter' \in {inFooter, output'},
         stage' = "writing" => firstSegment = <<>> \/ duration > 1
  PROVE  UnitsInv' /\ ConstantLocated'
<1>1. /\ UNCHANGED <<config, firstSegment, segments, duration, elementSize>>
      /\ IsTable(output') /\ WrittenOf(output', firstSegment, segments[1])
      /\ output' # <<>> => duration > 0
  BY ConstantOutput
<1>2. inBody' \in {inBody, output'}
  <2>1. PICK new : new = output' /\ IsTable(new)
    BY <1>1
  <2>2. <<>> \o new = new
    BY <2>1, ConcatEmptySeq DEF IsTable
  <2> QED BY <2>1, <2>2
<1>3. \A list \in {inBody, inFooter} :
        WrittenOf(list, firstSegment, segments[1]) /\ (list # <<>> => duration > 0)
  BY DEF ConstantLocated
<1>4. \A list \in {inBody', inFooter', output'} :
        /\ WrittenOf(list, firstSegment, segments[1])
        /\ list # <<>> =>
             duration > 0 /\ (stage' = "writing" => firstSegment = <<>> \/ duration > 1)
  BY <1>1, <1>2, <1>3
<1> QED BY <1>1, <1>4, ConstantKeeps

(* Every step of a constant table.                                          *)
LEMMA ConstantNext ==
  ASSUME IndexingInv, IsCBE, UnitsInv, ConstantLocated, [Next]_vars
  PROVE  UnitsInv' /\ ConstantLocated'
<1> DEFINE Same == /\ UNCHANGED <<config, units, firstSegment, segments, duration, elementSize,
                                  inBody, inFooter, output>>
                   /\ stage' = "writing" => stage = "writing"
<1>0. /\ config \in Configs /\ VBEElement = {} /\ duration \in Nat /\ ConstantInv
      /\ indexStatus = "ok" => ConstantWritten
  BY ConfigFacts DEF IndexingInv, TypeInv
<1>1. ASSUME NEW e \in Element, WriteDataFrame(e) PROVE FALSE
  BY <1>0, <1>1 DEF WriteDataFrame
<1>2. ASSUME NEW complete \in BOOLEAN, NEW key \in {0, 1}, WritePictureFrame(complete, key)
      PROVE  FALSE
  BY <1>0, <1>2 DEF WritePictureFrame
<1>3. GiveUpPreviousGOP => FALSE
  BY <1>0 DEF GiveUpPreviousGOP
<1>4. ASSUME NEW p \in 0 .. (config.editUnits - 1), CompleteEntry(p) PROVE FALSE
  BY <1>0, <1>4 DEF CompleteEntry
<1>5. ASSUME NEW sizes \in config.sizes, WriteUnit(sizes) PROVE UnitsInv' /\ ConstantLocated'
  <2>1. /\ Running /\ UpdateIndex(sizes) /\ UNCHANGED <<inBody, inFooter, stage>>
        /\ units' = IF indexStatus' = "ok" THEN Append(units, sizes) ELSE units
    BY <1>5 DEF WriteUnit
  <2>2. CASE IndexFails
    <3>1. indexStatus' # "ok"
      BY <2>2 DEF IndexFails
    <3> QED BY <2>1, <2>2, <3>1, ConstantSame DEF IndexFails
  <2>3. CASE ~IndexFails
    <3>1. indexStatus' = "ok" /\ duration' = duration + 1 /\ config' = config
      BY <2>1, <2>3 DEF UpdateIndex, Running
    <3>2. units' = Append(units, sizes)
      BY <2>1, <3>1
    <3>3. /\ UnitsInv' /\ units'[duration + 1] = sizes
          /\ \A q \in 1 .. duration : units'[q] = units[q]
      BY <1>0, <3>1, <3>2, UnitAppended
    <3>4. ConstantLocated'
      BY <2>1, <2>3, <3>3, ConstantUnitLocated
    <3> QED BY <3>3, <3>4
  <2> QED BY <2>2, <2>3
<1>6. ASSUME NEW sizes \in config.sizes, NEW n \in 1 .. config.samples, WriteClipSamples(sizes, n)
      PROVE  UnitsInv' /\ ConstantLocated'
  <2>1. n \in Nat \ {0}
    <3>1. config.samples \in Nat
      BY <1>0, IndexingAssumption
    <3> QED BY <3>1
  <2> QED BY <1>6, <2>1, ClipSamplesLocated
<1>7. StartPartition => UnitsInv' /\ ConstantLocated'
  <2> SUFFICES ASSUME StartPartition PROVE UnitsInv' /\ ConstantLocated'
    OBVIOUS
  <2>1. PICK final : final = ~IsCBE
    OBVIOUS
  <2>2. /\ WriteSegments(FALSE, final) /\ units' = units /\ inBody' = inBody \o output'
        /\ inFooter' = inFooter /\ CBETableKnown /\ indexStatus = "ok"
    BY <2>1 DEF StartPartition, Running
  <2>3. inBody = <<>>
    BY <1>0, <2>2 DEF CBETableKnown, ConstantWritten
  <2>4. firstSegment = <<>> \/ duration > 1
    BY <1>0, <2>2 DEF CBETableKnown, ConstantInv, RequireIndexTableSegmentPair
  <2> QED BY <2>2, <2>3, <2>4, ConstantWrittenLocated
<1>8. CompleteEntries => Same
  BY DEF CompleteEntries, IgnoreRequiredUpdates, IndexFails
<1>9. WriteIndexPartition => UnitsInv' /\ ConstantLocated'
  <2> SUFFICES ASSUME WriteIndexPartition PROVE UnitsInv' /\ ConstantLocated'
    OBVIOUS
  <2>1. /\ WriteSegments(FALSE, TRUE) /\ units' = units /\ inBody' = inBody \o output'
        /\ inFooter' = inFooter /\ stage' = "indexed" /\ indexStatus = "ok" /\ ~haveWritten
    BY DEF WriteIndexPartition, NeedsIndexPartition
  <2>2. inBody = <<>>
    BY <1>0, <2>1 DEF ConstantWritten
  <2> QED BY <2>1, <2>2, ConstantWrittenLocated
<1>10. WriteFooter => UnitsInv' /\ ConstantLocated'
  <2> SUFFICES ASSUME WriteFooter PROVE UnitsInv' /\ ConstantLocated'
    OBVIOUS
  <2>1. units' = units /\ inBody' = inBody /\ stage' = "footer"
    BY DEF WriteFooter
  <2>2. CASE HaveFooterSegments
    BY <2>1, <2>2, ConstantWrittenLocated DEF WriteFooter
  <2>3. CASE ~HaveFooterSegments
    BY <2>1, <2>3, ConstantSame DEF WriteFooter, indexVars
  <2> QED BY <2>2, <2>3
<1>11. Rewrite => UnitsInv' /\ ConstantLocated'
  <2> SUFFICES ASSUME Rewrite PROVE UnitsInv' /\ ConstantLocated'
    OBVIOUS
  <2>1. units' = units /\ inFooter' = inFooter /\ stage' = "closed"
    BY DEF Rewrite
  <2>2. CASE InputDuration = NoDuration /\ inBody # <<>>
    BY <2>1, <2>2, ConstantWrittenLocated DEF Rewrite
  <2>3. CASE ~(InputDuration = NoDuration /\ inBody # <<>>)
    BY <2>1, <2>3, ConstantSame DEF Rewrite, indexVars
  <2> QED BY <2>2, <2>3
<1>12. Done => Same
  BY DEF Done, vars, indexVars
<1>13. UNCHANGED vars => Same
  BY DEF vars, indexVars
<1>14. Same => UnitsInv' /\ ConstantLocated'
  BY ConstantSame
<1> HIDE DEF Same
<1> QED BY <1>1, <1>2, <1>3, <1>4, <1>5, <1>6, <1>7, <1>8, <1>9, <1>10, <1>11, <1>12, <1>13,
           <1>14 DEF Next

(* The index leads to every element of every edit unit, of a variable table *)
(* and of a constant one.                                                   *)
LocatedInv == UnitsInv /\ IF IsCBE THEN ConstantLocated ELSE VariableLocated

-----------------------------------------------------------------------------
(* The theorems. *)

(* The inductive invariant: an entry is right, still required or given up,  *)
(* and one that is still required has not been flushed.                     *)
THEOREM IndexingInvariant == Spec => [](IndexingInv /\ GOPInv)
<1>1. Init => IndexingInv /\ GOPInv
  BY InitInv, GOPInit
<1>2. IndexingInv /\ GOPInv /\ [Next]_vars => IndexingInv' /\ GOPInv'
  BY NextInv, GOPNext
<1> QED BY <1>1, <1>2, PTL DEF Spec

(* Whatever order frames, completions, partitions and the end of the file   *)
(* come in: an entry in the file shows what the stream shows there unless   *)
(* the writer gave it up, and no entry is completed after its segment has   *)
(* been flushed and freed.                                                  *)
THEOREM FlushedIsComplete == Spec => []FlushedEntriesComplete
<1>1. IndexingInv => FlushedEntriesComplete
  <2> SUFFICES ASSUME IndexingInv PROVE FlushedEntriesComplete
    OBVIOUS
  <2>1. indexStatus # "undefined"
    BY DEF IndexingInv, TypeInv
  <2>2. ASSUME NEW list \in {inBody, inFooter}
        PROVE  IsTable(list) /\ Right(list, ignored)
    BY DEF IndexingInv, TypeInv, RightInv
  <2>3. ASSUME NEW list \in {inBody, inFooter}, NEW i \in DOMAIN list,
               NEW k \in DOMAIN list[i].entries, list[i].start + k - 1 \notin ignored
        PROVE  Shown(list[i].entries[k]) = Final[list[i].start + k - 1]
    <3>1. i \in 1 .. Len(list) /\ IsSegment(list[i])
      BY <2>2, TableLen DEF IsTable
    <3>2. DOMAIN list[i].entries = 1 .. Len(list[i].entries)
      BY <3>1, LenProperties DEF IsSegment
    <3> QED BY <2>2, <2>3, <3>1, <3>2 DEF Right
  <2> QED BY <2>1, <2>3 DEF FlushedEntriesComplete
<1> QED BY <1>1, IndexingInvariant, PTL

(* A file that has been completed indexes every edit unit once and in       *)
(* order, wherever its partitions began and however the table was split     *)
(* over them, repeated or written again.                                    *)
THEOREM TableIsWhole == Spec => []WholeTableWritten
<1>1. IndexingInv => WholeTableWritten
  <2> SUFFICES ASSUME IndexingInv, stage = "closed", indexStatus = "ok"
               PROVE  /\ Spans(IF RepeatIndexTable THEN inFooter ELSE inBody \o inFooter,
                               0, duration)
                      /\ IsCBE /\ inBody # <<>> => Spans(inBody, 0, duration)
    BY DEF WholeTableWritten
  <2>1. CASE ~IsCBE
    BY <2>1 DEF IndexingInv, VariableInv, SpansInv
  <2>2. CASE IsCBE
    <3>1. ConstantWritten /\ IsTable(inBody) /\ IsTable(inFooter)
      BY <2>2 DEF IndexingInv, TypeInv
    <3>2. inBody # <<>> => Spans(inBody, 0, duration)
      BY <3>1 DEF ConstantWritten
    <3>3. inBody \o <<>> = inBody /\ <<>> \o inFooter = inFooter
      BY <3>1, ConcatEmptySeq DEF IsTable
    <3>4. /\ RepeatIndexTable => Spans(inFooter, 0, duration)
          /\ ~RepeatIndexTable =>
               \/ inBody = <<>> /\ Spans(inFooter, 0, duration)
               \/ inBody # <<>> /\ inFooter = <<>>
      BY <3>1 DEF ConstantWritten
    <3> QED BY <3>2, <3>3, <3>4
  <2> QED BY <2>1, <2>2
<1> QED BY <1>1, IndexingInvariant, PTL

(* No segment grows past what its length can say, and a table is cut at the *)
(* starts of GOPs where that can be done: a segment that comes near its     *)
(* limit ends at the first GOP that may not fit, and one that ends earlier, *)
(* or within a GOP, is full.                                                *)
THEOREM SegmentsEndAtGOPs == Spec => []SegmentsCutAtGOPs
<1>1. GOPInv => SegmentsCutAtGOPs
  BY DEF GOPInv, SegmentsCutAtGOPs
<1> QED BY <1>1, IndexingInvariant, PTL

(* Whatever the sizes of the elements, the order in which entries are       *)
(* completed and partitions started: entry, slice and delta together lead   *)
(* to every element of every edit unit in the essence, in the body, in a    *)
(* table that is repeated, in the footer, and with a first edit unit of its *)
(* own size.                                                                *)
THEOREM ElementsAreLocated == Spec => []ElementsLocated
<1>1. Init => LocatedInv
  BY UnitsInit, VariableInit, ConstantInit DEF LocatedInv
<1>2. IndexingInv /\ GOPInv /\ LocatedInv /\ [Next]_vars => LocatedInv'
  BY VariableNext, ConstantNext, KindStays DEF LocatedInv
<1>3. IndexingInv /\ LocatedInv => ElementsLocated
  BY VariableLocates, ConstantLocates DEF LocatedInv
<1> QED BY <1>1, <1>2, <1>3, IndexingInvariant, PTL DEF Spec
=============================================================================
