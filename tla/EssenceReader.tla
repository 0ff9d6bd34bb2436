--------------------------- MODULE EssenceReader ---------------------------
(***************************************************************************)
(* EssenceReader: reading content packages of a frame wrapped essence      *)
(* container by position.  The file may be complete when it is opened, or  *)
(* still be written by another process, or arrive as a stream.  In the     *)
(* last two cases the partitions, the index table and the end are          *)
(* discovered on the way: a position that is neither indexed nor the last  *)
(* known one is reached by scanning from the last known content package.   *)
(*                                                                         *)
(* A read is a sequence of steps of at most one key and length each; the   *)
(* file may grow before any of them.                                       *)
(***************************************************************************)
EXTENDS EssenceChunkHelper, IndexTableHelper, EssenceReaderBuffer

CONSTANTS
  Files,       \* the files, see FilesAssumption
  MaxSamples,  \* the most samples one read asks for
  Unlimited    \* INT64_MAX

(* Of a file: its items in order; for each position the item that starts    *)
(* there, else 0; its length; the sizes it may have while it grows; whether *)
(* it can seek and whether it is complete when opened; how many frames are  *)
(* read to extract information.  A key and length takes one unit, and so    *)
(* does every item but essence and filler.  packages, content, starts and   *)
(* offsets say what the file holds: the number of content packages, the     *)
(* essence items of each, where it starts in the file and in the essence    *)
(* container, with the ends behind the last.                                *)
ASSUME FilesAssumption ==
  \A f \in Files :
    /\ DOMAIN f.items = 1 .. Len(f.items)
    /\ \A i \in DOMAIN f.items : f.items[i].size >= 1 /\ f.itemAt[f.items[i].at] = i
    /\ DOMAIN f.itemAt = 0 .. f.length - 1 /\ f.length \in f.ends
    /\ \A p \in DOMAIN f.itemAt :
         f.itemAt[p] # 0 => f.itemAt[p] \in DOMAIN f.items /\ f.items[f.itemAt[p]].at = p
    /\ {f.seekable, f.complete} \subseteq BOOLEAN /\ (f.complete => f.seekable)
    /\ f.complete => f.ends = {f.length}
    /\ {f.packages, f.extract, f.length} \subseteq Nat /\ Unlimited > f.packages
    /\ f.items[1].kind = "partition"
    /\ f.complete => \E i \in DOMAIN f.items : f.items[i].kind = "index"
ASSUME MaxSamplesAssumption == MaxSamples \in Nat \ {0}

VARIABLES
  file,
  available,   \* how much of the file there is
  pos,         \* mFile->tell()
  partitions,  \* the partition packs read, as items
  reader,      \* the members of the reader that follow the content packages
  limits,      \* mReadStartPosition and mReadDuration
  chunks,      \* mEssenceChunkHelper
  index,       \* mIndexTableHelper
  buffer,      \* mReadFrameBuffer
  call,        \* the read in progress
  phase,       \* whether the application has the information it extracts first
  result       \* of the last read

vars == <<file, available, pos, partitions, reader, limits, chunks, index, buffer,
          call, phase, result>>

-----------------------------------------------------------------------------
(* The file.                                                                *)

Item(i) == file.items[i]
ItemHere == IF pos < file.length THEN file.itemAt[pos] ELSE 0
AfterItem(i) == Item(i).at + Item(i).size

(* Reading a key and length fails at the end of what is there; in the       *)
(* middle of an item it reads something else.                               *)
KLFails == pos >= available \/ ItemHere = 0
WhyKLFails == IF pos >= available THEN "eof" ELSE "misread"

(* readNextNonFillerKL: the item it ends at, or the filler that is missing. *)
NextNonFiller ==
  Min({Len(file.items)} \cup
      {i \in ItemHere .. Len(file.items) :
         Item(i).kind # "filler" \/ Item(i).at >= available})

SeekFails(p) == ~file.seekable /\ p < pos

Grow ==
  /\ available < file.length
  /\ available' = Min({p \in file.ends : p > available})
  /\ UNCHANGED <<file, pos, partitions, reader, limits, chunks, index, buffer, call,
                 phase, result>>

-----------------------------------------------------------------------------
(* The reader's members: mPosition, mBasePosition, mFilePosition, mNextKey  *)
(* (an item, or 0), mAtCPStart, whether mEssenceStartKey is known,          *)
(* mLastKnownBasePosition and -FilePosition, mHaveFooter, mFileIsComplete   *)
(* and mBaseReadError.                                                      *)

NewReader(complete) ==
  [position |-> 0, base |-> -1, filePosition |-> -1, nextKey |-> 0, atStart |-> FALSE,
   startKey |-> FALSE, known |-> [base |-> -1, pos |-> -1], haveFooter |-> complete,
   complete |-> complete, readError |-> FALSE]

NoCall == [pc |-> "idle", mode |-> "none", start |-> 0, requested |-> 0, count |-> 0,
           read |-> 0, from |-> 0, base |-> 0, taken |-> 0, size |-> 0, content |-> <<>>]
NoResult == [ok |-> TRUE, why |-> "none", position |-> 0, requested |-> 0, read |-> 0,
             content |-> <<>>]

ResetState(r) == [r EXCEPT !.nextKey = 0, !.atStart = FALSE]

(* An exception ends the read; MXFFileReader::Read seeks back.              *)
EndWith(r, why) ==
  /\ reader' = [r EXCEPT !.position = call.start]
  /\ call' = NoCall
  /\ result' = [NoResult EXCEPT !.ok = FALSE, !.why = why, !.position = call.start,
                                !.requested = call.requested]
Throw(why) == EndWith(reader, why)

(* An exception while seeking or reading a key and length is remembered.    *)
Catch(why) == EndWith([ResetState(reader) EXCEPT !.readError = TRUE], why)

At(pc) == call.pc = pc
GoTo(pc) == call' = [call EXCEPT !.pc = pc]

(* A mutant: the last known package is the one the reader was at last.      *)
SetContentPackageStartAnyKnown(base, position, key, h) ==
  /\ reader' = [reader EXCEPT
       !.base = base, !.filePosition = position, !.nextKey = key, !.atStart = TRUE,
       !.startKey = @ \/ key # 0, !.readError = FALSE,
       !.known = [base |-> Max({base, @.base}), pos |-> position]]
  /\ chunks' = IF base > reader.known.base /\ ~h.complete
               THEN UpdateLastChunk(h, position, FALSE) ELSE h

SetContentPackageStart(base, position, key, h) ==
  /\ reader' = [reader EXCEPT
       !.base = base, !.filePosition = position, !.nextKey = key, !.atStart = TRUE,
       !.startKey = @ \/ key # 0, !.readError = FALSE,
       !.known = IF base > @.base THEN [base |-> base, pos |-> position] ELSE @]
  /\ chunks' = IF base > reader.known.base /\ ~h.complete
               THEN UpdateLastChunk(h, position, FALSE) ELSE h

LegitimisePosition(x, p) ==
  IF p < 0 \/ x.duration = 0 THEN 0 ELSE Min({p, x.duration - 1})

SetReadLimits(x, l) ==
  IF ~x.complete THEN [start |-> Max({0, l.start}), duration |-> Max({0, l.duration})]
  ELSE LET start == LegitimisePosition(x, l.start)
       IN  [start |-> start,
            duration |-> IF l.duration <= 0 \/ x.duration = 0 THEN 0
                         ELSE LegitimisePosition(x, l.start + l.duration - 1) - start + 1]

-----------------------------------------------------------------------------
(* Opening.  All partitions, index table segments and chunks of a complete  *)
(* file are read at once.                                                   *)

PartitionItems(f) == SelectSeq([i \in DOMAIN f.items |-> i], LAMBDA i : f.items[i].kind = "partition")

CreateEssenceChunkIndex(f) ==
  LET bodies == SelectSeq(PartitionItems(f), LAMBDA p : f.items[p].body)
      Starts(p) == {i \in p .. Len(f.items) : f.items[i].kind = "start"}
      NextPartition(p) == {i \in p + 1 .. Len(f.items) : f.items[i].kind = "partition"}
      End(p) == IF NextPartition(p) = {} THEN f.length ELSE f.items[Min(NextPartition(p))].at
      Number(p) == Len(SelectSeq(PartitionItems(f), LAMBDA q : q <= p))
      Chunk(p, h) ==
        UpdateLastChunk(AppendChunk(h, Number(p), f.items[Min(Starts(p))].at), End(p), TRUE)
  IN  [FoldLeft(LAMBDA h, p : Chunk(p, h), NoChunks, bodies) EXCEPT !.complete = TRUE]

ExtractIndexTable(f) ==
  LET found == SelectSeq(f.items, LAMBDA i : i.kind = "index")
      x == FoldLeft(LAMBDA y, i : ReadIndexTableSegment(y, i.segment), NoIndex, found)
  IN  [x EXCEPT !.complete = found # <<>>]

(* The last edit unit that is indexed is looked up, and the file cannot be  *)
(* opened if it is not in the essence container.                            *)
Opened(f) ==
  LET size == GetEssenceDataSize(CreateEssenceChunkIndex(f))
      x == SetEssenceDataSize(ExtractIndexTable(f), size)
      y == IF size = 0 THEN SetIsComplete(x) ELSE x
  IN  IF y.complete /\ y.duration > 0 THEN FoundWithSize(y, y.duration - 1) ELSE y

LastUnitAvailable(f) ==
  LET x == Opened(f)
      offset == GetEditUnitOffset(x, x.duration - 1)
      size == GetEditUnitSize(x, x.duration - 1)
  IN  x.complete /\ x.duration > 0 => offset <= x.dataSize /\ offset + size <= x.dataSize

(* A complete file that is well formed: its content packages are made of    *)
(* items that follow one another, of which the first and no other starts    *)
(* one; its index table and its chunks lead to them; there is a footer.     *)
PackageSize(f, p) ==
  (IF p < f.packages THEN f.offsets[p + 1] ELSE GetEssenceDataSize(CreateEssenceChunkIndex(f)))
    - f.offsets[p]

ItemEnd(f, i) == f.items[i].at + f.items[i].size

PackageWellFormed(f, p) ==
  LET end == f.starts[p] + PackageSize(f, p)
      inside == {i \in DOMAIN f.items : f.items[i].at \in f.starts[p] .. end - 1}
  IN  /\ PackageSize(f, p) \in Nat \ {0} /\ f.starts[p] \in Nat /\ end <= f.length
      /\ f.itemAt[f.starts[p]] \in inside
      /\ \A i \in inside :
           /\ f.items[i].at \in Nat /\ f.items[i].size \in Nat /\ f.items[i].kind # "partition"
           /\ f.items[i].kind = "start" <=> f.items[i].at = f.starts[p]
           /\ ItemEnd(f, i) <= end
           /\ ItemEnd(f, i) < end => f.itemAt[ItemEnd(f, i)] \in inside
           /\ \A j \in inside : f.items[i].at < f.items[j].at => ItemEnd(f, i) <= f.items[j].at
      /\ f.content[p] \in Seq(inside)
      /\ ToSet(f.content[p]) = {i \in inside : f.items[i].kind \in {"start", "element"}}
      /\ \A j, k \in DOMAIN f.content[p] :
           j < k => f.items[f.content[p][j]].at < f.items[f.content[p][k]].at

Chunk == [offset : Nat, position : Nat, size : Nat \ {0}, complete : BOOLEAN]
ChunksInOrder(h) ==
  /\ h = [chunks |-> h.chunks, last |-> h.last, partitions |-> h.partitions, complete |-> TRUE]
  /\ h.chunks \in Seq(Chunk)
  /\ \A i \in DOMAIN h.chunks : \A j \in i + 1 .. Len(h.chunks) :
       /\ ChunkEnd(h, "offset", i) <= h.chunks[j].offset
       /\ ChunkEnd(h, "position", i) <= h.chunks[j].position

PackageInChunk(f, h, p) ==
  \E i \in DOMAIN h.chunks :
    /\ h.chunks[i].offset <= f.offsets[p]
    /\ f.offsets[p] + PackageSize(f, p) <= ChunkEnd(h, "offset", i)
    /\ f.starts[p] - h.chunks[i].position = f.offsets[p] - h.chunks[i].offset

IndexInOrder(x) ==
  /\ x = [segments |-> x.segments, last |-> x.last, unit |-> x.unit, dataSize |-> x.dataSize,
          duration |-> x.duration, complete |-> TRUE]
  /\ x.segments \in Seq(ToSet(x.segments))
  /\ \A i \in DOMAIN x.segments : x.segments[i].duration \in Nat

PackageIndexed(f, x, p) ==
  /\ \E i \in DOMAIN x.segments :
       LET s == x.segments[i]
       IN  s.start <= p - 1 /\ (p - 1 < SegmentEnd(s) \/ (s.duration = 0 /\ x.unit > 0))
  /\ HaveEditUnitSize(x, p - 1)
  /\ GetEditUnitOffset(x, p - 1) = f.offsets[p]
  /\ GetEditUnitSize(x, p - 1) = PackageSize(f, p)

WellFormed(f) ==
  LET h == CreateEssenceChunkIndex(f)
      x == Opened(f)
  IN  /\ f.complete /\ LastUnitAvailable(f) /\ f.content \in Seq(Seq(DOMAIN f.items)) /\ Len(f.content) = f.packages
      /\ f.offsets \in [1 .. f.packages -> Nat]
      /\ \E i \in DOMAIN f.items :
           f.items[i].kind = "partition" /\ f.items[i].footer /\ f.items[i].at < f.length
      /\ h.last = 1 /\ x.last \in {1} \cup DOMAIN x.segments /\ ChunksInOrder(h) /\ IndexInOrder(x) /\ x.duration = f.packages
      /\ \A p \in 1 .. f.packages :
           PackageWellFormed(f, p) /\ PackageInChunk(f, h, p) /\ PackageIndexed(f, x, p)

(* The first item, the header partition pack with its metadata, has been    *)
(* read.                                                                    *)
Init ==
  /\ file \in Files
  /\ file.complete => LastUnitAvailable(file)
  /\ available = Min(file.ends)
  /\ pos = 1
  /\ partitions = IF file.complete THEN PartitionItems(file) ELSE <<1>>
  /\ reader = NewReader(file.complete)
  /\ chunks = IF file.complete THEN CreateEssenceChunkIndex(file) ELSE NoChunks
  /\ index = IF file.complete THEN Opened(file) ELSE NoIndex
  /\ limits = [start |-> 0, duration |-> IF index.complete THEN index.duration ELSE Unlimited]
  /\ buffer = NoBuffer
  /\ call = NoCall
  /\ phase = IF file.extract = 0 THEN "read" ELSE "opened"
  /\ result = NoResult

fileVars == <<file, available>>

-----------------------------------------------------------------------------
(* EssenceReader::Read.                                                     *)

Read(p, n) ==
  LET have == IsBuffered(buffer, p, n)
      popped == Pop(buffer, p)
      prepared == PrepareRead(buffer, p, n)
      end == limits.start + limits.duration
      inside == limits.duration > 0 /\ p < end
  IN  /\ At("idle")
      /\ IF inside /\ ~have
         THEN /\ buffer' = prepared
              /\ call' = [NoCall EXCEPT !.pc = "seek", !.start = p, !.requested = n,
                                        !.count = Min({n, end - p})]
              /\ reader' = [reader EXCEPT !.position = p]
              /\ UNCHANGED result
         ELSE /\ buffer' = IF have THEN PushFrames(popped, n, CurrentFrame(popped).content)
                           ELSE PushFrames(prepared, 0, <<>>)
              /\ reader' = [reader EXCEPT !.position = p + n]
              /\ result' = [NoResult EXCEPT
                   !.position = p, !.requested = n, !.read = IF have THEN n ELSE 0,
                   !.content = IF have THEN CurrentFrame(popped).content ELSE <<>>]
              /\ UNCHANGED call
      /\ UNCHANGED <<fileVars, pos, partitions, limits, chunks, index, phase>>

(* The application reads on, or seeks if the file can; after an error it    *)
(* does not read further on before it has read successfully.                *)
ReadAny ==
  /\ phase = "read"
  /\ \E p \in 0 .. file.packages, n \in 1 .. MaxSamples :
       /\ ~file.seekable => p = reader.position
       /\ ~result.ok => p <= result.position
       /\ Read(p, n)

(* ExtractFrameInfo: the first frames are read one by one, and kept if the  *)
(* file cannot seek.                                                        *)
StartExtract ==
  /\ phase = "opened" /\ At("idle")
  /\ phase' = "extract"
  /\ buffer' = [buffer EXCEPT !.keep = ~file.seekable]
  /\ reader' = [reader EXCEPT !.position = 0]
  /\ result' = NoResult
  /\ UNCHANGED <<fileVars, pos, partitions, limits, chunks, index, call>>

Extracted == reader.position = file.extract \/ ~result.ok \/ result.read < result.requested

Extract == phase = "extract" /\ ~Extracted /\ Read(reader.position, 1)

(* After an error it will be done again.                                    *)
EndExtract ==
  /\ phase = "extract" /\ At("idle") /\ Extracted
  /\ phase' = IF result.ok /\ result.position + result.read > 0 THEN "read" ELSE "opened"
  /\ buffer' = [buffer EXCEPT !.keep = FALSE]
  /\ reader' = [reader EXCEPT !.position = 0]
  /\ result' = NoResult
  /\ UNCHANGED <<fileVars, pos, partitions, limits, chunks, index, call>>

(* All samples are read, or the end was met: the index entry of the first   *)
(* one goes with the frames.                                                *)
EndRead ==
  LET lookup == HaveEditUnit(index, call.start)
      pushed == PushFrames(buffer, call.read, call.content)
  IN  /\ At("done")
      /\ IF lookup /\ ~SearchStarts(index)
         THEN Throw("undefined") /\ UNCHANGED <<buffer, index>>
         ELSE /\ index' = IF lookup THEN Found(index, call.start) ELSE index
              /\ buffer' = pushed
              /\ reader' = [reader EXCEPT !.position = call.start + call.requested]
              /\ call' = NoCall
              /\ result' = [ok |-> TRUE, why |-> "none", position |-> call.start,
                            requested |-> call.requested, read |-> call.read,
                            content |-> call.content]
      /\ UNCHANGED <<fileVars, pos, partitions, limits, chunks, phase>>

-----------------------------------------------------------------------------
(* SeekEssence: find the content package at mPosition.                      *)

Position == reader.position
AtPosition == reader.atStart /\ reader.base = Position

(* What is asked of the index and the chunks if it is not the last known.   *)
AsksIndex == reader.known.base # Position /\ HaveEditUnitOffset(index, Position)
IndexedOffset == GetEditUnitOffset(index, Position)
IndexUnusable == AsksIndex /\ Position # 0 /\ ~SearchStarts(index)
IsKnown == \/ reader.known.base = Position
           \/ AsksIndex /\ HaveFilePosition(chunks, IndexedOffset)
KnownPosition == IF reader.known.base = Position THEN reader.known.pos
                 ELSE GetFilePosition(chunks, IndexedOffset)

AskedIndex == IF AsksIndex /\ Position # 0 THEN Found(index, Position) ELSE index
AskedChunks == IF AsksIndex /\ chunks.chunks # <<>>
               THEN Sought(chunks, "offset", IndexedOffset) ELSE chunks

SeekEssence ==
  /\ At("seek")
  /\ \/ /\ AtPosition
        /\ GoTo("open")
        /\ UNCHANGED <<pos, reader, chunks, index, buffer, result>>
     \/ /\ ~AtPosition /\ IndexUnusable
        /\ Catch("undefined")
        /\ UNCHANGED <<pos, chunks, index, buffer>>
     \/ /\ ~AtPosition /\ ~IndexUnusable
        /\ index' = AskedIndex
        /\ UNCHANGED buffer
        /\ \/ /\ IsKnown /\ ~SeekFails(KnownPosition)
              /\ pos' = KnownPosition
              /\ SetContentPackageStart(Position, KnownPosition, 0, AskedChunks)
              /\ GoTo("open")
              /\ UNCHANGED result
           \/ /\ IsKnown /\ SeekFails(KnownPosition)
              /\ Catch("seek")
              /\ chunks' = AskedChunks
              /\ UNCHANGED pos
           \/ /\ ~IsKnown
              /\ call' = [call EXCEPT !.pc = "locate"]
              /\ chunks' = AskedChunks
              /\ UNCHANGED <<pos, reader, result>>
  /\ UNCHANGED <<fileVars, partitions, limits, phase>>

(* Where the scan starts: at the first content package, the last known one  *)
(* or the one the reader is in.                                             *)
BehindUnlessFailed == reader.base < reader.known.base  \* a mutant
Behind == reader.base < reader.known.base \/ reader.readError

LocatePackage ==
  /\ At("locate")
  /\ \/ /\ chunks.complete /\ index.complete
        /\ Catch("assertion")
        /\ UNCHANGED <<pos, chunks>>
     \/ /\ ~(chunks.complete /\ index.complete) /\ reader.base < 0
        /\ call' = [call EXCEPT !.pc = "find", !.mode = "first"]
        /\ UNCHANGED <<pos, reader, chunks, result>>
     \/ /\ ~(chunks.complete /\ index.complete) /\ reader.base >= 0 /\ Behind
        /\ IF reader.known.base >= Position
           THEN Catch("backwards") /\ UNCHANGED <<pos, chunks>>
           ELSE IF SeekFails(reader.known.pos)
           THEN Catch("seek") /\ UNCHANGED <<pos, chunks>>
           ELSE /\ pos' = reader.known.pos
                /\ SetContentPackageStart(reader.known.base, reader.known.pos, 0, chunks)
                /\ GoTo("scan")
                /\ UNCHANGED result
     \/ /\ ~(chunks.complete /\ index.complete) /\ reader.base >= 0 /\ ~Behind
        /\ GoTo("scan")
        /\ UNCHANGED <<pos, reader, chunks, result>>
  /\ UNCHANGED <<fileVars, partitions, limits, index, buffer, phase>>

(* ReadFirstEssenceKL at the start of a content package: the item, which    *)
(* has been read already or is read now.                                    *)
FirstKLFails == reader.nextKey = 0 /\ (KLFails \/ Item(ItemHere).kind # "start")
WhyFirstKLFails == IF KLFails THEN WhyKLFails ELSE "key"
FirstItem == IF reader.nextKey # 0 THEN reader.nextKey ELSE ItemHere

(* A content package before the requested one is passed over.               *)
ScanPackage ==
  /\ At("scan")
  /\ \/ /\ reader.base >= Position
        /\ GoTo("open")
        /\ UNCHANGED <<pos, reader, result>>
     \/ /\ reader.base < Position /\ ~reader.atStart
        /\ call' = [call EXCEPT !.pc = "find", !.mode = "next"]
        /\ UNCHANGED <<pos, reader, result>>
     \/ /\ reader.base < Position /\ reader.atStart /\ FirstKLFails
        /\ Catch(WhyFirstKLFails)
        /\ UNCHANGED pos
     \/ /\ reader.base < Position /\ reader.atStart /\ ~FirstKLFails
        /\ pos' = AfterItem(FirstItem)
        /\ reader' = [ResetState(reader) EXCEPT !.startKey = TRUE]
        /\ call' = [call EXCEPT !.pc = "rest", !.mode = "scan", !.from = reader.filePosition,
                                !.base = reader.base, !.taken = 0, !.size = 0]
        /\ UNCHANGED result
  /\ UNCHANGED <<fileVars, partitions, limits, chunks, index, buffer, phase>>

-----------------------------------------------------------------------------
(* SeekContentPackageStart: on to the next first essence element, through   *)
(* partitions, index table segments and what else there is.                 *)

Partition == Item(Last(partitions))

(* SetHaveFooter and SetFileIsComplete.                                     *)
WithFooter(h, x) ==
  SetEssenceDataSize(x, GetEssenceDataSize(h))
CompletedWithOldLimits(x) == index' = SetIsComplete(x) /\ UNCHANGED limits  \* a mutant
Completed(x) ==
  /\ index' = SetIsComplete(x)
  /\ limits' = SetReadLimits(index', limits)

(* A partition pack that the reader has met before is refused.              *)
ReadNextPartition(k, h) ==
  LET footer == Item(k).footer /\ ~reader.haveFooter
      x == IF footer THEN WithFooter(h, index) ELSE index
      ends == footer /\ ~Item(k).indexed
  IN  IF Partition.at >= Item(k).at
      THEN /\ Catch("assertion")
           /\ chunks' = h
           /\ UNCHANGED <<partitions, limits, index>>
      ELSE /\ partitions' = Append(partitions, k)
           /\ chunks' = [h EXCEPT !.complete = @ \/ footer]
           /\ IF ends THEN Completed(x) ELSE index' = x /\ UNCHANGED limits
           /\ reader' = [reader EXCEPT !.nextKey = 0, !.haveFooter = @ \/ footer,
                                       !.complete = @ \/ ends]
           /\ UNCHANGED <<call, result>>

FindAtPartition ==
  /\ At("find") /\ reader.nextKey # 0
  /\ ReadNextPartition(reader.nextKey, chunks)
  /\ UNCHANGED <<fileVars, pos, buffer, phase>>

(* The end: SeekEssence returns false.                                      *)
FindNothingAndScanOn ==  \* a mutant
  /\ At("find") /\ reader.nextKey = 0 /\ reader.complete
  /\ GoTo("scan")
  /\ UNCHANGED <<file, available, pos, partitions, reader, limits, chunks, index, buffer,
                 phase, result>>
FindNothing ==
  /\ At("find") /\ reader.nextKey = 0 /\ reader.complete
  /\ GoTo("done")
  /\ UNCHANGED <<fileVars, pos, partitions, reader, limits, chunks, index, buffer, phase, result>>

Finding == At("find") /\ reader.nextKey = 0 /\ ~reader.complete

FindsItem ==
  ~KLFails /\ Item(NextNonFiller).at < available /\ Item(NextNonFiller).kind # "filler"

FindFails ==
  /\ Finding /\ ~FindsItem
  /\ Catch(IF KLFails THEN WhyKLFails ELSE "eof")
  /\ pos' = IF KLFails THEN pos
            ELSE IF Item(NextNonFiller).at >= available THEN Item(NextNonFiller).at
            ELSE file.length
  /\ UNCHANGED <<fileVars, partitions, limits, chunks, index, buffer, phase>>

Finds(kinds) == Finding /\ FindsItem /\ Item(NextNonFiller).kind \in kinds

FindPartition ==
  /\ Finds({"partition"})
  /\ LET k == NextNonFiller
     IN  /\ pos' = Item(k).at + 1
         /\ ReadNextPartition(k, IF Partition.body THEN UpdateLastChunk(chunks, Item(k).at, TRUE)
                                 ELSE chunks)
  /\ UNCHANGED <<fileVars, buffer, phase>>

FindRIP ==
  /\ Finds({"rip"})
  /\ pos' = Item(NextNonFiller).at + 1
  /\ IF reader.haveFooter
     THEN /\ Completed(index)
          /\ reader' = [reader EXCEPT !.complete = TRUE]
          /\ UNCHANGED <<call, result>>
     ELSE Catch("rip") /\ UNCHANGED <<limits, index>>
  /\ UNCHANGED <<fileVars, partitions, chunks, buffer, phase>>

(* In the footer, a segment that covers the last content package completes  *)
(* the file.                                                                *)
CompletesFileAnywhere(new, x) == SegmentEnd(new) >= x.duration  \* a mutant
CompletesFile(new, x) == reader.haveFooter /\ SegmentEnd(new) >= x.duration

FindIndex ==
  /\ Finds({"index"})
  /\ LET new == Item(NextNonFiller).segment
         wanted == ~index.complete /\ Partition.index
         x == ReadIndexTableSegment(index, new)
         ends == CompletesFile(new, x)
     IN  /\ pos' = AfterItem(NextNonFiller)
         /\ IF wanted /\ ~SegmentFits(index, new)
            THEN Catch("index") /\ UNCHANGED <<limits, index>>
            ELSE /\ IF wanted /\ ends THEN Completed(x)
                    ELSE index' = (IF wanted THEN x ELSE index) /\ UNCHANGED limits
                 /\ reader' = [reader EXCEPT !.complete = @ \/ (wanted /\ ends)]
                 /\ UNCHANGED <<call, result>>
  /\ UNCHANGED <<fileVars, partitions, chunks, buffer, phase>>

(* The first element of a content package, in a partition with the body.    *)
IsFirst(i) == /\ Partition.body
              /\ \/ Item(i).kind = "start"
                 \/ Item(i).kind = "element" /\ ~reader.startKey

AppendsChunk(h) == ~h.complete /\ h.partitions < Len(partitions)

FindStart ==
  /\ Finds({"start", "element"}) /\ IsFirst(NextNonFiller)
  /\ LET i == NextNonFiller
         h == IF AppendsChunk(chunks) THEN AppendChunk(chunks, Len(partitions), Item(i).at) ELSE chunks
     IN  /\ pos' = Item(i).at + 1
         /\ SetContentPackageStart(IF call.mode = "first" THEN 0 ELSE reader.base + 1,
                                   Item(i).at, i, h)
  /\ GoTo("scan")
  /\ UNCHANGED <<fileVars, partitions, limits, index, buffer, phase, result>>

FindOther ==
  /\ Finds({"metadata", "start", "element"})
  /\ Item(NextNonFiller).kind = "metadata" \/ ~IsFirst(NextNonFiller)
  /\ pos' = AfterItem(NextNonFiller)
  /\ UNCHANGED <<fileVars, partitions, reader, limits, chunks, index, buffer, call, phase, result>>

-----------------------------------------------------------------------------
(* ReadFrameWrappedSamples: the elements of the content package at          *)
(* mPosition, whose size the index may know.                                *)

Sized == HaveEditUnitSize(index, Position)
Offset == GetEditUnitOffset(index, Position)
Size == GetEditUnitSize(index, Position)

(* What GetEditUnit, GetKeyAndFilePosition and GetFilePosition refuse, and  *)
(* the assertion that the reader is where the index says.                   *)
OpenUndefined == /\ Sized \/ (Position # 0 /\ HaveEditUnitOffset(index, Position))
                 /\ ~SearchStarts(index)
OpenBeyond == Sized /\ index.duration # 0 /\ Position >= index.duration
OpenFails ==
  \/ Sized /\ (Size < 0 \/ ~HaveEditUnitPosition(chunks, Offset, Size))
  \/ /\ ~Sized /\ HaveEditUnitOffset(index, Position)
     /\ ~HaveFilePosition(chunks, Offset)
OpenElsewhere ==
  /\ Sized \/ HaveEditUnitOffset(index, Position)
  /\ GetFilePosition(chunks, Offset) # reader.filePosition

(* Where the lookups that are made leave the index and the chunks.          *)
OpenedIndex ==
  IF Sized THEN FoundWithSize(index, Position)
  ELSE IF Position # 0 /\ HaveEditUnitOffset(index, Position) THEN Found(index, Position)
  ELSE index
OpenedChunks ==
  IF chunks.chunks # <<>> /\ (IF Sized THEN Size >= 0 ELSE HaveEditUnitOffset(index, Position))
  THEN Sought(chunks, "offset", Offset) ELSE chunks

OpenPackage ==
  /\ At("open")
  /\ IF OpenUndefined THEN Throw("undefined") /\ UNCHANGED <<chunks, index>>
     ELSE IF OpenBeyond THEN Throw("index") /\ UNCHANGED <<chunks, index>>
     ELSE /\ index' = OpenedIndex
          /\ chunks' = OpenedChunks
          /\ IF OpenFails THEN Throw("index")
             ELSE IF OpenElsewhere THEN Throw("backwards")
             ELSE /\ call' = [call EXCEPT !.pc = "first", !.mode = "read",
                                  !.from = reader.filePosition, !.base = Position, !.taken = 0,
                                  !.size = IF Sized THEN Size ELSE 0]
                  /\ UNCHANGED <<reader, result>>
  /\ UNCHANGED <<fileVars, pos, partitions, limits, buffer, phase>>

(* The value of an element goes to its frame; the file may end in it, which *)
(* is not remembered as the failure to read a key is.                       *)
ReadValue(i, r) ==
  IF AfterItem(i) <= available
  THEN /\ pos' = AfterItem(i)
       /\ reader' = r
       /\ call' = [call EXCEPT !.pc = "rest", !.taken = @ + Item(i).size,
                               !.content = Append(@, i)]
       /\ UNCHANGED result
  ELSE /\ pos' = available
       /\ EndWith(r, "eof")

FirstElement ==
  /\ At("first")
  /\ IF FirstKLFails THEN Catch(WhyFirstKLFails) /\ UNCHANGED pos
     ELSE ReadValue(FirstItem, [ResetState(reader) EXCEPT !.startKey = TRUE])
  /\ UNCHANGED <<fileVars, partitions, limits, chunks, index, buffer, phase>>

(* ReadNonfirstEssenceKL, for the package that is read or passed over.      *)
Enough == call.mode = "read" /\ call.size # 0 /\ call.taken >= call.size
Rest == At("rest") /\ ~Enough

RestEnough ==
  /\ At("rest") /\ Enough
  /\ GoTo("ended")
  /\ UNCHANGED <<fileVars, pos, partitions, reader, limits, chunks, index, buffer, phase, result>>

RestFails ==
  /\ Rest /\ KLFails
  /\ Catch(WhyKLFails)
  /\ UNCHANGED <<fileVars, pos, partitions, limits, chunks, index, buffer, phase>>

RestAtStart ==
  /\ Rest /\ ~KLFails /\ Item(ItemHere).kind = "start"
  /\ pos' = pos + 1
  /\ SetContentPackageStart(reader.base + 1, pos, ItemHere, chunks)
  /\ GoTo("ended")
  /\ UNCHANGED <<fileVars, partitions, limits, index, buffer, phase, result>>

RestAtPartition ==
  /\ Rest /\ ~KLFails /\ Item(ItemHere).kind = "partition"
  /\ LET h == UpdateLastChunk(chunks, pos, TRUE)
         footer == Item(ItemHere).footer /\ ~reader.haveFooter
     IN  /\ chunks' = [h EXCEPT !.complete = @ \/ footer]
         /\ index' = IF footer THEN WithFooter(h, index) ELSE index
         /\ reader' = [reader EXCEPT !.nextKey = ItemHere, !.haveFooter = @ \/ footer]
  /\ pos' = pos + 1
  /\ GoTo("ended")
  /\ UNCHANGED <<fileVars, partitions, limits, buffer, phase, result>>

RestAtOther ==
  /\ Rest /\ ~KLFails /\ Item(ItemHere).kind \notin {"start", "partition"}
  /\ IF call.mode = "read" /\ Item(ItemHere).kind = "element" THEN ReadValue(ItemHere, reader)
     ELSE /\ pos' = AfterItem(ItemHere)
          /\ call' = [call EXCEPT !.taken = @ + Item(ItemHere).size]
          /\ UNCHANGED <<reader, result>>
  /\ UNCHANGED <<fileVars, partitions, limits, chunks, index, buffer, phase>>

(* A package whose size was not known is added to the index, and the next   *)
(* one is sought: by the scan, or for the next sample.                      *)
EndFails == \/ call.size # 0 /\ call.taken # call.size
            \/ /\ call.size = 0
               /\ \/ ~Holds(chunks, "position", call.from)
                  \/ ~UpdateIndexAllowed(index, call.base)

EndPackage ==
  /\ At("ended") /\ ~EndFails
  /\ IF call.size = 0
     THEN /\ index' = UpdateIndex(index, call.base, GetEssenceOffset(chunks, call.from))
          /\ chunks' = Sought(chunks, "position", call.from)
     ELSE UNCHANGED <<chunks, index>>
  /\ IF call.mode = "scan" THEN GoTo("scan") /\ UNCHANGED reader
     ELSE /\ reader' = [reader EXCEPT !.position = @ + 1]
          /\ call' = [call EXCEPT !.pc = IF call.read + 1 = call.count THEN "done" ELSE "seek",
                                  !.read = @ + 1]
  /\ UNCHANGED <<fileVars, pos, partitions, limits, buffer, phase, result>>

EndPackageFails ==
  /\ At("ended") /\ EndFails
  /\ IF call.mode = "scan" THEN Catch("index") ELSE Throw("index")
  /\ UNCHANGED <<fileVars, pos, partitions, limits, chunks, index, buffer, phase>>

Step ==
  \/ SeekEssence \/ LocatePackage \/ ScanPackage
  \/ FindAtPartition \/ FindNothing \/ FindFails \/ FindPartition \/ FindRIP \/ FindIndex
  \/ FindStart \/ FindOther
  \/ OpenPackage \/ FirstElement
  \/ RestEnough \/ RestFails \/ RestAtStart \/ RestAtPartition \/ RestAtOther
  \/ EndPackage \/ EndPackageFails \/ EndRead

Next == Grow \/ ReadAny \/ StartExtract \/ Extract \/ EndExtract \/ Step

(* A call runs to its end.                                                  *)
Spec == Init /\ [][Next]_vars /\ WF_vars(Step)

-----------------------------------------------------------------------------
(* Properties.                                                              *)

PackagesFrom(p, n) == FlattenSeq([i \in 1 .. n |-> file.content[p + i]])

(* The frames a read returns are those of the content packages from the     *)
(* position asked for on, whatever was sought, scanned, buffered or failed  *)
(* before.                                                                  *)
FramesFromTheirPosition ==
  result.read > 0 => result.content = PackagesFrom(result.position, result.read)

(* Every edit unit the index table answers for, from the file or from what  *)
(* was read, is where the file has it.                                      *)
IndexTrue ==
  index.unit = 0 =>
    \A p \in 1 .. index.duration - 1 :
      /\ \E i \in DOMAIN index.segments :
           index.segments[i].start <= p /\ p < SegmentEnd(index.segments[i])
      /\ GetEditUnitOffset(index, p) = file.offsets[p + 1]

(* The chunks translate the offset of every content package before the last *)
(* known one into its file position, and back.                              *)
ChunksTrue ==
  \A p \in 1 .. reader.known.base :
    /\ HaveFilePosition(chunks, file.offsets[p])
    /\ GetFilePosition(chunks, file.offsets[p]) = file.starts[p]
    /\ Holds(chunks, "position", file.starts[p])
    /\ GetEssenceOffset(chunks, file.starts[p]) = file.offsets[p]

(* What was learnt of the file, from its index table segments, its          *)
(* partitions and the content packages read or passed over, at the opening, *)
(* on the way or in a read that failed, leads to where the packages are.    *)
LookupsTrue == IndexTrue /\ ChunksTrue

(* The reader's position in the file is that of the content package it says *)
(* it is at, and so is the last known one: after a failed read as well.     *)
KnowsWhereItIs ==
  /\ reader.known.base >= 0 => reader.known.pos = file.starts[reader.known.base + 1]
  /\ reader.atStart =>
       /\ reader.filePosition = file.starts[reader.base + 1]
       /\ pos = reader.filePosition + (IF reader.nextKey = 0 THEN 0 ELSE 1)

(* When the end is met, in the middle of a read or not, all content         *)
(* packages are indexed and the read limits cover them and no more.         *)
CompleteWhenAllIsKnown ==
  reader.complete =>
    /\ reader.haveFooter /\ index.complete /\ chunks.complete
    /\ index.duration = file.packages
    /\ limits = [start |-> 0, duration |-> file.packages]

(* What has to be there to read up to a position.                           *)
HasFooter == \E i \in DOMAIN file.items : file.items[i].kind = "partition" /\ file.items[i].footer
NeededBefore(p) ==
  IF p < file.packages THEN file.starts[p + 1] + 1
  ELSE IF HasFooter THEN file.length ELSE file.length + 1

(* A read fails for lack of data only if it needs data that is not there    *)
(* yet.  Otherwise a stream fails to seek back, an index table with         *)
(* constant edit unit size fails a file that was not complete when it was   *)
(* opened (at a second partition, or away from the last known package), a   *)
(* partition is refused that was read before the content package behind it  *)
(* became known, and the search for a segment starts outside the table      *)
(* after the footer has replaced what was met.  A complete file is read.    *)
Cause(why) ==
  CASE why = "eof" -> available < NeededBefore(call.start + call.requested)
    [] why = "seek" -> ~file.seekable
    [] why \in {"index", "backwards", "key"} -> index.unit > 0 /\ ~file.complete
    [] why = "assertion" -> Partition.at > reader.known.pos /\ ~file.complete
    [] why = "undefined" -> reader.haveFooter /\ ~file.complete
    [] OTHER -> FALSE
FailsOnlyForCause ==
  [][~At("idle") /\ call'.pc = "idle" /\ ~result'.ok => Cause(result'.why)]_vars

(* A read ends, however often the scan goes on from partition to partition. *)
ReadsEnd == ~At("idle") ~> At("idle")

(* The reader is a source of content packages: it answers with those asked  *)
(* for, with fewer only when the footer, if there is one, is there, and     *)
(* refuses only what was not complete when it was opened.                   *)
PackagesThere ==
  LET ended == \E i \in DOMAIN file.items :
                 /\ file.items[i].kind = "partition" /\ file.items[i].footer
                 /\ file.items[i].at < available
      there == {p \in 1 .. file.packages : AfterItem(Last(file.content[p])) <= available}
  IN  IF ended THEN file.packages + 1 ELSE Cardinality(there)

Source == INSTANCE EssenceSource WITH
  content <- file.content, whole <- file.complete, there <- PackagesThere,
  asked <- [position |-> call.start, count |-> call.requested],
  answer <- [ok |-> result.ok, elements |-> result.content]
ImplementsSource == Source!SourceSpec
=============================================================================
