# bmx: a TLA+ model of the MXF writers and readers

bmx is a C++ library and a set of applications that write, read and convert
MXF files. This directory holds TLA+ modules that model the library's stateful
core, TLC configurations that check them on small instances, and proofs that
TLAPS checks. Paths are relative to the repository; `mxf_op1a/` and the like
stand for `src/src/mxf_op1a/`, `apps/` for `src/apps/`.

bmx runs in one thread. What makes it hard to test is elsewhere: calls for
different tracks interleave in an order the caller chooses, index entries are
completed many frames after they were added, partition and index decisions
depend on what has been flushed already, files are read while they still grow,
and pools, buffers and caches have limits.

## The system

### Writing OP-1a

An application writes samples track by track. `OP1AFile` owns everything:

    application -> OP1ATrack::WriteSamples -> OP1AFile::WriteSamples
                      |                          |-> OP1AContentPackageManager   (queue)
                      |-> writer helper          |-> OP1AFile::WriteContentPackages
                      |   (MPEG-2, AVC)                |-> OP1AIndexTable        (segments)
                      '-> OP1AIndexTable               '-> libMXF partitions
                          AddIndexEntry, UpdateIndexEntry

| component | state | operations | hard behaviour | correct when |
|---|---|---|---|---|
| content package manager (`OP1AContentPackage.cpp`) | queue of packages being filled, pool of used ones, position | WriteSamples, WriteSample, WriteUserTimecode, UpdateIndexTable, WriteNextContentPackage | any interleaving of tracks; a call that spans packages and fails half way; reuse of stale packages; the limit of 250 | the n-th package written has exactly the n-th share of every track, once |
| index table (`OP1AIndexTable.cpp`) | per element a cache of entries ahead of the packages; segments; entries still to be updated | AddIndexEntry, UpdateIndexEntry, IgnoreRequiredUpdates, UpdateIndex, WriteSegments, CompleteWrite | entries completed late, in the cache or in a segment, racing the flush of segments; delta entries and the odd first AVC-Intra edit unit; 16-bit segment length | no entry reaches the file incomplete; entry, slice and delta lead to every element; segments are cut in time, at GOPs where that can be done, and make up the whole table |
| MPEG-2 long GOP helper (`MPEG2LGWriterHelper.cpp`, `OP1AMPEG2LGTrack.cpp`) | temporal offsets of the current GOP, key frames, GOP statistics | ProcessFrame, then Add/UpdateIndexEntry by the track | frames come in coded order, entries are in display order; GOPs cut by edits | offsets lead to the frame displayed; exactly the entries whose frame may come are waited for |
| OP-1a file (`OP1AFile.cpp`) | partitions, first write, waiting flag, frame count, CBE index partition, footer offset | WriteSamples, WriteContentPackages, CompleteWrite | a partition that waits for entries while packages queue up; tables written before the essence and rewritten; an end at any moment | offsets and tables agree with the essence; the file ends whole |
| AVC helper (`AVCWriterHelper.cpp`, `OP1AAVCTrack.cpp`) | decoded picture buffer, frames whose entries are incomplete, key frames, GOP statistics | ProcessFrame, PopIndexedFrame, CompleteProcess | frames leave the buffer when it is more than full or at an IDR frame; entries become complete in another order than they were added; offsets that do not fit | an entry that is not waited for leads to the frame displayed, or says that it does not |
| other tracks and helpers | sizes, first-frame flags | one frame in, one frame out | | |

D-10 and RDD 9 files have a manager of content packages of their own
(`D10ContentPackage.cpp`, `RDD9ContentPackage.cpp`): the sound of a file may begin
anywhere in its sequence of sample counts, packages wait until the sound has
shown where, and those made meanwhile have no number of samples yet. They are
correct when every package has the share that its place in the sequence gives it,
and when a call is refused only for a fault of its caller or for one of two limits of
the RDD 9 code: one data frame at a time, and no timecode before its package is begun.

### Reading

    application -> MXFGroupReader / MXFSequenceReader -> MXFFileReader
                                                           |-> EssenceReader (index, chunks, buffer)
                                                           '-> external MXFFileReaders
                   FrameBuffer of each track <- frames pushed by the EssenceReader

| component | state | operations | hard behaviour | correct when |
|---|---|---|---|---|
| group and file readers (`MXFGroupReader.cpp`, `MXFFileReader.cpp`) | read limits, read error; positions are those of the members | SetReadLimits, Seek, Read | members of other rates, precharge (negative positions), a read that fails between two members and is retried | members stay in step, frames of one read are of one position, none is lost |
| frame buffers (`FrameBuffer.cpp`, `MXFFrameBuffer.cpp`) | queue, mark of the read in progress | StartRead, CompleteRead, AbortRead, PushFrame, GetLastFrame | several readers mark the same buffer | a failed read leaves no frame |
| essence reader (`EssenceReader.cpp`, buffer, index and chunk helpers) | position, last known package, index learnt so far, limits | Read, Seek, SetReadLimits | growing files, footer discovered while scanning, buffered frames with other sample counts | any seek finds the package of its position; limits follow completion |

### Files under the readers and writers

`MXFChecksumFile` keeps a digest over a prefix of the file across reads, writes
and seeks, and several of them are stacked on one input; `MXFHTTPFile` serves
reads from ranged requests through a buffer and retries. They are correct when a
read gives the bytes of its position and a digest is of what it says.

### The rest

Avid and AS-02 write a file per
track. AS-10, AS-11, ST 436, RDD 6, the essence parsers, the descriptor
helpers, Wave files, `apps/` and the metadata utilities are formats, tables and
option parsing with little state that evolves. libMXF and libMXF++ are vendored.
`PROJECT.json` lists every component with its sources, status and reason, and
every hazard at its line with the properties that cover it.

## The modules

| module | models | extends |
|---|---|---|
| `SampleSequences` | sample counts per content package and the sums of them | |
| `Interleaver` | abstract: an interleaver promises each package its share | SampleSequences |
| `OP1AContentPackages` | the content package manager | SampleSequences |
| `OP1AIndexTable` | the index table's state and operations, used by two compositions | |
| `OP1AIndexing` | the table driven by tracks, packages and partitions in any order the callers allow | OP1AIndexTable |
| `MPEG2LGWriterHelper` | offsets, GOP tracking and the track's updates | |
| `OP1AFile` | the file: partitions and essence with the table | OP1AIndexTable |
| `AVCWriterHelper` | decoded picture buffer, offsets, GOP tracking and the track's updates | |
| `SoundSequencePackages` | the content package managers of D-10 and RDD 9 | |
| `PositionConversion` | positions and durations between rates, in 64-bit words | SampleSequences |
| `MXFGroupReader` | group and file reader, frame buffers, the application's retry loop | PositionConversion |
| `EssenceSource` | abstract: a source answers with the packages asked for | |
| `EssenceChunkHelper`, `IndexTableHelper`, `EssenceReaderBuffer` | the essence reader's parts, as operators on records | |
| `EssenceReader` | reading, seeking and scanning a file that is complete, grows or is a stream | the three |
| `MXFHTTPFile` | ranged requests, buffer, retry | |
| `MXFChecksumFile` | digests stacked on one input | |
| `SampleSequences_proof`, `OP1AContentPackages_proof`, `OP1AIndexTable_proof`, `OP1AIndexing_proof`, `MPEG2LGWriterHelper_proof`, `OP1AFile_proof`, `MXFGroupReader_proof`, `InputFiles_proof` | lemmas and theorems | the module of that name; `InputFiles_proof`: `MXFHTTPFile` and `EssenceReader` |

`MC_*` modules give each its instances; a `config` variable, chosen in Init and
never changed, lets one run cover several configurations of the code. Three MC
modules put unrelated modules side by side, a variable `part` saying which of
them is at work: `MC_OP1AContentPackages` (with `SoundSequencePackages`),
`MC_WriterHelpers` and `MC_InputFiles`.

### Content packages

`contentPackages`, `freeContentPackages` and `position` are the members of the
manager; `accepted`, `index` and `file` record what was handed in, what went to
the index table and what to the file. A sample is its ordinal in its track, so a
sample in the wrong place, lost or repeated is visible. WriteSamples can throw
half way (`CreateContentPackage`, line 806), so it is a start and one action per
iteration of its loop, with nothing else in between; every other call is one
action. `Reset` keeps what the code keeps, the old timecode. The index table is
updated one or two packages ahead of the write, as OP1AFile does for the first
package. WriteUserTimecode with no package waiting for one indexes the deque out
of range; the status is then "undefined" and the model stops. Clip wrapping, with
one package that never ends, is not modelled.

### Index table

`OP1AIndexTable` holds the operators; it has an action for each operation of the
code: the cache, `requireUpdates`, segments (with their entries, delta entries
and edit unit byte count), the constant path with the first AVC-Intra segment,
the duration check of a single pass. `indexStatus` is "ok", "failed" for a
thrown check, and "undefined" for the walk in `UpdateIndexEntry` (line 474) that
leaves the vector. `OP1AIndexing` composes it with the protocol of its callers:
a data and a picture track that add entries, complete them later or give them
up, each in the way of its kind (MPEG-2 adds an entry without its temporal offset,
which `UpdateTemporalOffset` fills in, and gives up at the next GOP; AVC replaces
the whole entry and does not give up before the end), content packages that take them, partitions that flush them when
`HaveSegmentsWithUpdates` allows, and the end of the file with minimal, body or
separate index partitions, footer, and the rewrite of a table written early.

### MPEG-2 helper

A stream is a sequence of GOPs of given shapes, in coded order, that may be cut
after any frame. `offsets`, `gopStart`, `keyFrame` and so on are the helper's
members; `entries`, `required` and `ignored` are what the track has told the
index table. The properties compare with the display order of the stream, which
the helper never sees as a whole. A GOP is no longer than an offset of 8 bits
reaches: GOPs of 128 to 256 frames are left out, and with them the exemption of a
first GOP of 256 from the comparison of structures; longer ones the code refuses, so
that the limit of UINT16_MAX on the longest GOP is never met.

### AVC helper

The stream is as for MPEG-2, but a frame has a picture order count, and a GOP may
begin with an IDR frame or not, have frames before its key frame, lose its
beginning (the first one) or its end, or use a count twice. `helper` holds the
members that lead to entries, `gops` those for the descriptor, `table` what the
track has told the index table. Processing a frame makes room in the buffer,
which pops frames in the order of their counts, lets offsets come together with
the position they belong to, and hands on complete entries; all that is one
action, as it is one call. The properties compare with the display order of the
whole stream. They hold for streams that keep to the limit of the buffer; beyond
it only that nothing is waited for in the end. Separate fields, parameter sets and
the remaining flags are left out.

### D-10 and RDD 9 content packages

`SoundSequencePackages` serves both managers; `layout.format` chooses between
them where they differ: what sets the number of samples of a package (the first
call, for D-10 for all sound tracks), what is counted as known (RDD 9: the least
written), when the sequence is known at all, and whether a timecode makes a
package. A call of the file, write-out included, is one action; the loop over
packages is a fold, which a throw ends. The caller hands over a package's sound
at a time, as the code assumes until the offset is known, or any portion if the
offset was set before; tracks may run ahead of each other without bound. Errors
end the writer with a status that names the check.

### File

`OP1AFile` composes the index table with the file's own state. The queue of
content packages is counted here (`supplied`, `written`): that packages hold
what they should is shown above, on its own. `pc` is the place in
WriteContentPackages and CompleteWrite, so the loop over packages, the wait for
entries, the new partition, and the parts of CompleteWrite are actions; entries
may become complete at any frame, for AVC also at the end, or never; an MPEG-2 track
gives up on those of the GOP before when the next one starts. `partitions` is the
file: per partition the segments written to it, its body offset and the edit
units in it. Sizes are small numbers; headers, fill, metadata and KAG are left
out, so `footerOffset` counts essence only. Where the code promises a footer
position before the essence is there (a single pass), the promise is compared.

### Group reader

One module serves MXFGroupReader over its members and MXFFileReader over its own
essence (`internal`) and external files: the two functions are line for line the
same, except that an internal member does not complete its read by itself. A
member's read succeeds, is short because the footer shows the end, or fails
because the file has not grown as far; the growth of the files interleaves with
the reads of the members. One frame buffer stands for the buffers of a member's
tracks. The application is the loop of bmxtranswrap with its retries.
Disabled tracks and clip wrapping are left out; what an essence reader learns of
its file is the next module's. `PositionConversion` computes as the code does: with the
sign of the operands, the rounding and the wrap of 64-bit words; `Word` and
`PastEnd` (the memory after a sample sequence) are constants.

### Essence reader

A file is a sequence of items with sizes: partition packs, index segments,
metadata, filler, the first element of a content package (`start`) and further
ones, and the random index. `available` is how much of it there is; `Grow` adds
to it between any two steps. The reader's loops become steps of at most one key
and length each, so that data may run out at every one of them; `call` has the
place in the code, what is sought, and whether a package is read or passed over.
`reader` has the members that follow the packages (base position, file position,
the last known package, the key read ahead, footer), `chunks` and `index` the
helpers' state, `buffer` the frames. A header item is of one size, as the reader
only passes over it. When a stream is opened, the first frames are read for
information and kept; the model does so too. A complete file is opened with the look-up
of its last edit unit, and is one whose last content package is there
(`LastUnitAvailable`). A key with its length is there or not as a whole, and so are the
values of partition packs, index segments and metadata: a cut inside a key
(`EssenceReader.cpp:816`), or inside a value after `UpdateLastChunk` (line 1005), does
not occur. Positions are from 0 on; the branch for negative ones (lines 418-422) is
left out, as the group reader's model has the precharge.

A read that failed is repeated at the position of the failure or before it, which
is what the applications do: a value that was cut off is not remembered as an error
(`EssenceReader.cpp`, as a failure to read a key is), so the position after it
must not be asked for. `EssenceSource` is the abstract specification: packages
appear, the application asks, and the answer has the packages asked for, fewer
only at the end; what was not whole when opened may refuse. Files with
an index, without one, with several partitions, with a constant edit unit size,
with an index that lags behind the essence, and with filler between packages are
built by `MC_EssenceReader`. Files that are complete and have no index at all do
not open that way and are excluded by `FilesAssumption`; clip wrapped essence and
Avid's extra entries are left out.

### Files below the readers

A byte is its position in the file. `MXFHTTPFile` has the buffer and its
position; a request ends with all that was sent, with more than there is room
for, cut off, or with an HTTP/2 error and a retry. `MXFChecksumFile` has the
stack of files that `AppMXFFileFactory` builds on an input, from which the
application reads at the top; a read, a seek or the update of one calls the
ones below. The input may be seekable or a stream, grow, and end early. Servers
that ignore ranges (a warning and other bytes) and the write side of the digest
(which follows appended bytes) are left out.

## The runs

| run | instance | shows |
|---|---|---|
| `cp_manager` | picture <<1>>, sound <<2, 1>>; limit 3; calls of up to 4 samples; 5 edit units; timecodes. D-10 and RDD 9: sequence <<2, 1, 2>>, input from each of its places, no, one or two sound tracks, with and without timecode, data and a preset offset; limit 5, 6 packages | packages have their share, whatever the order of calls; includes the refinement of `Interleaver` and the liveness `SuppliedIsWritten` |
| `index_table` | variable (data, picture and sound), repeated, AVC-Intra, single pass and clip tables; minimal, body and separate index partitions; segments of 2 entries, a GOP guess of 1, GOPs from 0 and 3, cache of 3; 4 to 7 edit units | what is written is complete, found and whole, in segments cut in time |
| `index_clip_size` | a clip table with calls of one and of several samples | finding 1 |
| `writer_helpers` | MPEG-2: closed I P B B and open I B B P B, each cut anywhere, up to 8 frames. AVC: five GOPs that hold back up to three frames, up to 6 frames, a buffer of 2, offsets from -3 to 1 | offsets, waiting, GOP statistics |
| `file` | seven layouts: body or separate partitions, constant tables in header, after, before, single pass; 4 to 6 frames; at most 2 waiting packages, queue of 3 | offsets, partition starts, completion, rewrite |
| `file_interval` | a constant table with a partition for every frame | finding 2 |
| `group_reader` | complete picture and sound of different lengths, either first; precharge of 2; a growing group; a growing file with an external one; 2 retries | members in step, nothing lost, the loop ends |
| `group_retry` | the growing group | finding 3 |
| `group_precharge` | precharge with sound in a sequence of two counts | finding 4 |
| `essence_reader` | eight layouts of three packages, complete, growing from the start on or streamed; reads of up to 2 packages from any position; runtime segments of 2 entries | packages from their position, what is learnt is true, reads fail only for a cause, the reader implements `EssenceSource` |
| `essence_reader_partial_index` | a growing file whose index covers one of two packages that were met before | finding 5 |
| `input_files` | HTTP: a file of 6 bytes, buffer of 2, reads of 1 and 3. Checksums: up to 5 bytes, one or two types, updates in chunks of 2, reads of 1 and 3 | bytes of their position; digests of a beginning, at the end of all |

**Why the bounds are enough.** The limits of the code (250 packages, 200
waiting, 250 cached entries, 65000 entries in a segment) are constants; the
instances use 2 to 4, keep their order (waiting below queue, queue not above the
cache), and read or write past every one of them. With segments of 2 entries, a guess of 1 and GOPs from 0 and 3 a segment is cut
at 2 because it is full and the next one at 3 before it is. A package goes through new, filled, written, pooled
and reused within 5 edit units with a limit of 3. A sound sequence of two counts
is the shortest whose packages differ; a call of 4 samples spans three of them.
Two GOPs and a cut suffice for state to leak from one GOP to the next, three
segments for a repeat, a constant table needs at most two edit units before its
form is fixed. Three growing edit units with two retries let a failure fall
before, between and after any two members, and again on the retry. An AVC buffer
of 2 with GOPs that hold back up to three frames has streams within the limit, at
it and beyond it; offsets from -3 to 1 saturate at either end within 6 frames. All
rotations of <<2, 1, 2>> differ, as those of the real sequence do, and share
beginnings, so that a short file leaves the offset open; 6 packages with a limit
of 5 let a track run a whole sequence and two packages ahead. Three packages with a
partition between any two of them, and an index segment for one or two, are the
least with a package before, at and after what is indexed, and with a chunk that is
neither first nor last. A read of 3 bytes takes some from an HTTP buffer of 2 and
requests the rest; two checksums are the least where one reads below another.

**Deadlock** is checked except in the group and essence readers: a loop or an
idle reader whose file does not grow any more may stop. The writers have an
explicit `Done`.

**Fairness.** `OP1AContentPackages!FairSpec` has weak fairness on the loop of a
call and on WriteNextContentPackage: one thread runs a call to its end, and
`OP1AFile::WriteSamples` offers the queue to `WriteContentPackages` after every
call. (OP1AFile holds packages back while a partition waits; that this ends at
the latest with the file is `ClosedFileWhole`.) No fairness is assumed for the
caller. `MXFGroupReader!FairSpec` has weak fairness on the application as a whole, which is
the thread that runs; the files need not grow, ever: `TheLoopEnds` rests on the
count of retries. `EssenceReader!Spec` has weak fairness on `Step`, the steps of a
call in progress, which is the thread that runs; neither a call nor the growth of
the file is assumed, and a call that meets the end of what is there fails.

## Findings

1. `OP1AIndexTable.cpp:519`: a clip wrapped call with a single sample goes to
   `CheckDeltaEntries`, which compares with sizes that calls with several samples
   never recorded, and throws that the size changed when it did not.
2. `OP1AFile.cpp:1339`: the body offset of a partition is read from the index
   before the package is indexed, but the first package of a constant table may
   have indexed two; with a partition interval of one the second partition's
   offset is one package too far.
3. `MXFGroupReader.cpp:453`: members complete their own read on the frame buffers
   that the group has marked, which clears the mark; when a later member fails,
   AbortRead leaves the earlier members' frames and the retry repeats them. With
   frames left in a buffer AbortRead also removes the wrong end (`FrameBuffer.cpp:94`).
4. `Utils.cpp:437`: a negative position divided by an unsigned length. With a
   sequence of one count the wrapped quotient is right, with two it is not.

5. `IndexTableHelper.cpp:286`: when a segment from the file covers the beginning
   of a runtime segment, the start of the rest is moved in `mEntriesStart`, which
   `GetEditUnit` (line 209) does not use: the rest is found at the offsets of
   earlier edit units.

`MembersInStep` and `FramesTogether` of the passing run are stated for what
remains: positions recover after every failure, and no frame stays where the
buffers are marked by one reader only. `MC_EssenceReader` keeps the layout of
finding 5 to complete files in the passing run.

The models also show, where properties state what holds around it:

- **Essence reader.** A read that ran out of data between a partition pack and its
  first essence is refused by an assertion ever after, although the data has come
  (`EssenceReader.cpp:1074`; the cause "assertion" of `FailsOnlyForCause`). After
  the footer's segments have replaced the runtime segments, the segment found last
  may be out of range (cause "undefined"). A file with a constant edit unit size
  that grows or is streamed fails at a second partition (causes "index" and
  "key"). The condition of `InsertCBEIndexSegment` is the opposite of its
  comment (`IndexTableHelper.cpp:652`).
- **AVC.** The branch at `OP1AAVCTrack.cpp:105` is never taken. The flag for a
  constant number of B frames compares with the longest run so far
  (`AVCWriterHelper.cpp:150`). Part of the condition on the key frame is dead
  (lines 538-539). A stream beyond the buffer's limit gets wrong entries without
  a warning.
- **HTTP.** The retry receives into the start of the data (`MXFHTTPFile.cpp:310`).
  The comparison of the accept-ranges header is inverted (line 126), so a read
  whose request was answered with too much returns nothing although the position
  has moved. `eof` is never true.
- **Checksums.** With several types on an input that cannot seek only the first
  is of the whole file (`AppMXFFileFactory.cpp:267`). A forward seek in a stream
  before updates are forced passes over bytes that no digest gets; the model's
  application does not do that.
- **D-10.** A package made before the offset was known, and without sound when it
  becomes known, refuses its sound by an assertion (`D10ContentPackage.cpp:185`):
  a picture two packages ahead of the sound is enough. The status is "late", and
  `RefusedForCause` says it takes that lead. Not modelled: with XML in
  generic stream partitions the body partition is made in the loop of
  `D10File::WriteSamples` only (line 328), so a file whose packages are all
  written by `FinalWrite` (a clip shorter than the sequence) has none.
- **RDD 9.** `PrepareWrite` takes the sound sequence over only if another element
  follows the first sound element (`RDD9ContentPackage.cpp:532`), so a file with
  one sound track and no data track refuses its first sample (status "sequence"),
  or divides by zero if the offset was preset (line 560), which the instances leave
  out. A user timecode before any sample of its package indexes the queue out of
  range (line 574), status "undefined"; and a call with more than one data frame is
  refused (line 222), status "count". `RefusedForCause` says that these come in no other case.

## What is proved

Every theorem holds for all values of the constants that the assumptions named
in the modules allow: any tracks, sequences, GOPs, files, limits and calls.

| theorem | says |
|---|---|
| **`OP1AContentPackages_proof`** | |
| `TypeCorrect` | the types hold, and no element of a package, queued or pooled, is over-filled or holds other than it counts |
| `FileIsInterleaved` | the n-th package written holds each track's n-th share |
| `PoolIsBounded`, `GivesUpOnlyWhenFull` | queue and pool keep to the limit; a call is refused only when the queue is at it |
| `IndexTableMatchesFile` | each edit unit is indexed once, in order, with the size it has in the file |
| `TimecodesStayInOrder` | queued timecodes are those of consecutive positions |
| `ImplementsTheInterleaver` | `Spec => Interleaved!Spec`: the manager refines the abstract interleaver |
| **`OP1AIndexing_proof`** | |
| `IndexingInvariant` | `Spec => []IndexingInv` |
| `FlushedIsComplete` | a flushed entry is right or was given up, and is never completed later |
| `TableIsWhole` | the finished file indexes every edit unit once and in order |
| `SegmentsEndAtGOPs` | segments keep to their limit, end at the first GOP start near it, and otherwise only when full |
| `ElementsAreLocated` | entry, slice and delta lead to every element of every edit unit in the essence |
| **`MPEG2LGWriterHelper_proof`** | |
| `OffsetsLeadToTheFrame` | the entry at the place of a frame in display order leads to it |
| `WaitsForWhatIsMissing` | entries are waited for, or given up, exactly where no frame is displayed |
| `KeyFramesLead` | decoding starts at the I frame an entry leads to |
| `DescribesItsGOPs` | GOPs called identical are; the longest GOP is the longest |
| **`OP1AFile_proof`** | |
| `LayoutInvariant` | `Spec => []LayoutInv` |
| `GOPsStartPartitions` | essence is in partitions opened for it, which start at GOPs for a variable table |
| `BodyOffsetsFollow` | a body offset is the size of the essence before it |
| `FooterWherePromised` | the footer of a single pass file is where the header said |
| `RewrittenTableFits` | a table that is written again has as many segments as the one it replaces |
| `ClosedFileIsWhole` | a closed file indexes each content package it holds once and in order, and none is left behind |
| `FlushedEntriesAreComplete` | an index entry is complete or was given up, and its essence before it, when its segment is written; nothing is refused on the way |
| **`MXFGroupReader_proof`** | |
| `PositionsConvert` | a position comes to the samples before it, and back |
| `GroupInvariant` | `Spec => []GroupInv` |
| `MembersStayInStep` | between reads every member is at the samples of the application's position |
| `FramesStayTogether` | frames taken together are of one position |
| `NoFrameIsSkipped` | frames follow one another without a gap, however often reads fail |
| **`InputFiles_proof`** | |
| `HTTPFileReadsTrue` | a read receives the bytes from its position without a gap and is behind them; it returns them, but where a retry lays them over those it had, or too many were sent |
| `ReadsGiveTheirFrames` | a read of a complete file returns the frames of the content packages from its position |
| `LookupsLeadThere` | index table and chunks lead to every content package, wherever the search before ended |
| `ReaderIsWhereItSays` | the reader is at the package it says it is at |
| `WholeFileStaysKnown` | no read takes back what is known of the file |
| `WholeFilesAreRead` | no read fails |
| `WholeFileIsSource` | the reader implements `EssenceSource`: the packages asked for, fewer only at the end, no refusal |

### The arguments

**Content packages.** `FileInterleaved` alone is not inductive, because it says
nothing of packages still in the queue or in the pool. `IInv` adds that the
element of track t in the i-th package of the queue is filled with exactly the
share of `accepted[t]` that falls there (`QueueInv`, with `Filled`), that
everything accepted is in file or queue (`AcceptedInv`), that a call in progress
has reached the package its next sample belongs to (`CallInv`), and that the file
is as long as `position`. Then appending n samples to one element shifts the
boundary `accepted[t]` by n, which changes `Filled` in that package only
(`WriteElementShare`, `OtherPackageShare`); a reused package is as good as a new
one (`FreshPackage`); and a package that is ready is filled to its full share
(`FrontPackage`), which is what goes to the file. `SampleSequences_proof` has the
arithmetic of shares: the share of a package is the difference of two sums, sums
grow, and a package past the boundary is empty. The refinement follows from
`IInv`: WriteNextContentPackage is a step of the interleaver, everything else a
stutter. `IndexInv` adds that the packages told to the index table are those of the
file and the first ones of the queue, in order; `TimecodeInv` that the queued packages
with a timecode are the first ones. `TypeOK` has, besides the types (`StateType`), that no element
is over-filled (`Fits`), in the queue (`QueueFits`, from `QueueInv`) and in the pool
(`PoolFits`: what is there was written whole, and `FreshPackage` empties it).

**Index table.** `IndexingInv` says of every entry, wherever it is, that it is
right, still required, or given up (`Right`); that a required one is in the cache or
in a segment that has not been flushed, so that completing it cannot miss; that the
segments in memory, those in the file and the cache follow one another without gap
or overlap (`Disjoint`, `Spans`); and what a constant table has written before its
size was known. What is flushed follows: `HaveSegmentsWithUpdates` is false only
if no required position is in a segment. `KeysInv` keeps the key of an MPEG-2 entry right while
its temporal offset is missing, so that filling that in makes it right. `GOPInv`, for the cuts, adds that a data element can always start a
partition, so that the entry of the picture decides whether a unit may start a segment. `OP1AIndexTable_proof` has what both
compositions need: lists of segments that are extended, joined or written stay
consecutive, entries stay where they are, and how UpdateIndex and WriteSegments change a
constant table (`ConstantUnit`, `ConstantFlush`).

`ElementsLocated` has an invariant of its own, `LocatedInv`, inductive together with
`IndexingInv`. In a variable table (`VariableLocated`) the offset of an entry is the sum
of the sizes of the edit units before it, `streamOffset` that sum so far (`Before`),
and its slices begin after the elements before them (`Leads`), in memory and in the file alike;
the delta entries are those of any edit unit, as only elements of a constant size come
between the start of a slice and an element of it (`SliceAndDelta`, `SameDeltas`). In a constant table
(`ConstantLocated`) the main segment describes every edit unit it covers and the first
segment, if there is one, the first edit unit; what was written agrees with them
(`WrittenOf`), and once it was written the first segment is not dropped any more. A
reader's place in a later segment is then the sum of the durations times byte counts
of the segments before it, which is the sum of the sizes of the edit units.

**MPEG-2 helper.** A frame's offset says where it is displayed, relative to where
it comes. `MPEG2Inv` relates the helper's offsets of the current GOP to the shape of
the stream's GOP, of which it has seen a beginning (`GOPInv`, `OffsetsInv`); an entry
of an earlier GOP is final (`LeadInv`); required positions are those between the
frames that came and the last one displayed (`RequiredInv`); the key frame is known
from the frames that lead it (`KeyInv`); structure and length describe the GOPs
that are over (`StructureInv`, `LongestInv`).

**File.** `LayoutInv` follows `pc` through WriteContentPackages and CompleteWrite.
`WaitingEntriesInv` has the entries ahead of the packages and where GOPs start among them, so that a
partition that waited still starts at a GOP; `PartitionsInv` (`LaidOut`) the edit units of
the partitions, which are contiguous, and their offsets; `SizesInv` the sizes a constant
table has, which two edit units determine; `PromiseInv` and `PlacedInv` the segments and
place of a table written before its essence, so that the rewrite finds the same number
and the footer is where it was promised. `BodyOffsetsFollow` supposes
`StartsApart`: no constant table that comes first has partitions of a single edit
unit, which is the configuration of finding 2. `WholeInv` then says what the index in the file
covers. For a variable table, what was kept for the footer or is spread over the
partitions spans the edit units up to some m, and the segments in memory those
from m on (`VariableTableInv`); an empty segment exists only before the first edit unit. For a constant
table (`ConstantTableInv`), the only partition with an index, unless the table is
repeated, is the one CompleteWrite returns to; what is written there before the essence spans the
promised duration, or will be written again, or is the pair's first segment alone. When the
file is closed no package is left to write (`AllWritten`), so that the whole of the index
spans what was written. `FlattenSeq`, a recursive function, is followed through a partition that is added
or changed by its defining equation (`FlattenMore`, `FlattenOnly`). `EntriesInv` has
what the index says of the pictures, with the keys of MPEG-2 entries (`KeysInv`) as above. `FlushedEntriesComplete` alone is not inductive: an entry
is right in the file if it was right, or still to be completed, in the segments in
memory (`SegmentsInv`), and in the cache before (`CachedInv`), and if a
position to be completed is always found in one of the two. A partition begins only where no entry
before it is required, and when the file ends nothing is (`NothingRequiredInv`). That
nothing is refused needs that no track is further ahead than the queue is long
(`QueueInv`), so that no cache is full before it, and that the sizes the table knows are those
to come (`SteadyInv`).

**Group reader.** The first part is about the code's conversions. A sum of n
counts is at least n, so a position that does not fit in a word is not reached by
samples that do, and within a word `PositionHigher` is `SamplesBefore`, which `PositionLower`
inverts: the sums grow strictly, so the part that is found is the one that was meant. For a negative
position the quotient is that of the wrapped word, which is right for a sequence of
one count only (`Converts`; finding 4 is the other case). The hypothesis `Readable` says
that the positions between start and end convert. `GroupInv` then says, of every moment of a read, that
members that have read are one edit unit ahead (`PositionInv`); and of a buffer that its frames
follow one another up to the application's position (`Linked`, `LeadsUpTo`), that
the mark of a read is where it began (`MarkRight`), and that it is empty between reads
if no failed read has left anything there (`Clean`). That a read fails changes
positions back by Seek, and buffers by AbortRead only where the mark is still set.
That an application with growing files stays within the word rests on the count of samples read: if
it is one, some member's file has the position.

**HTTP file.** The whole buffer is the bytes around the position, from
`position` less what was taken of it; every answer, cut off or not, extends it at its end.
`HTTPReadsTrue` says exactly what is returned in every case: the bytes from where the
read began, where it was not retried or had none before (`before`); after a retry as many bytes, the later
ones over the start of the earlier ones; and for an answer of too many, all that was asked for is behind
the position, whatever is returned.

**Essence reader.** `FramesFromTheirPosition` says something of a read that is over
only. `WholeFileInv` follows the read: between reads nothing is buffered
(`BufferInv`), so none is answered from an earlier one; in a read the packages
before `reader.position` have been taken whole (`CallInv`), and the reader is in the one that
follows, where an item begins or at its end, and has taken the essence
items before that place and no others (`PackageInv`, with `Passed`). What is known of the
file changes in one thing only, where the next search in the index segments
and in the chunks begins (`TablesInv`), and a search finds what it seeks wherever it begins
(`SoughtFinds`, `Indexed`, `InChunk`), as both are in order. `FlattenSeq` is followed as in the file above. Steps that
are not listed in `NextOfWhole` belong to files that grow, are streams or lack an
index: their guards contradict the invariant. For the refinement each step is one of
`Told`: it begins a read, answers one, forgets an answer, or changes nothing that a source knows.

### Assumptions

Those of the constants, named in the modules and evaluated by TLC on every
instance (`TrackAssumption`, `SampleSequenceAssumption`, `ManagerAssumption`,
`IndexTableAssumption`, `IndexingAssumption`, `MPEG2Assumption`, `FileAssumption`,
`WordAssumption`, `ConfigAssumption`, `NullAssumption`, `HTTPAssumption`,
`FilesAssumption`, `MaxSamplesAssumption`, `SizeAssumption`, `SizesAssumption`,
`SampleOffsetAssumption`). `FileAssumption` has the queue no longer than a cache
of entries: the code has 250 packages (`OP1AContentPackage.cpp`) and 250 entries
(`OP1AIndexTable.cpp`). It also limits the files: at most one element has no constant size (a picture, say, without the data
element that `OP1AIndexing` has beside it), a file with minimal partitions has no
partition interval, although `SetPartitionInterval` does not refuse one, and a single pass
file, whose duration is known beforehand, has constant sizes, its table before the essence and no
partition interval (`OP1AFile.cpp:446-456`). `SizeAssumption` says that no content package of the file is empty.
`SizesAssumption` has three things. A track is registered once. Clip wrapped samples are not
empty. And two AVC-Intra content packages of the same size have elements of the same sizes: the code
keeps a first segment if a constant element differs (`OP1AIndexTable.cpp:697-704`), but the
sizes it compares with are by then those of the second edit unit, so with equal totals it would
describe the first by the deltas of the second. The first picture differs from the others by its
parameter sets, which change the total.

Some theorems have a hypothesis besides. `StartsApart` and `Readable` exclude
what findings 2 and 4 show. `Regular`, for `FlushedEntriesAreComplete`, supposes the frames
of a file that is written without an error: an element with a constant size keeps it,
since the table refuses another one. `CompleteFiles`, for the essence reader, supposes that the complete
files are well formed (`WellFormed`): a package is made of items that follow one another, of
which the first alone starts one; the index table and the chunks, as built at the opening,
are in order and lead to each package, and a footer ends the file. The
theorems about the essence reader then speak of the behaviours with `file.complete`. TLC
evaluates `Regular` and `CompleteFiles` on the instances of the runs (`RegularAssumption`,
`WellFormedAssumption`), so the theorems apply to them.

`SampleOffsetAssumption` gives the sums of sample counts by their defining
equations; that they grow follows by the least number that would be an exception
(`LeastNumber`). The sums of sizes are the library's `SumFunctionOnSet`, and nothing is assumed of
them: a fold over a set is unfolded by its definition, and its value for a set with one more element
(`SumOneMore`) and for a union (`SumOfUnion`, in `OP1AIndexTable_proof`) is proved by a
smallest set that would be an exception (`SmallestSet`).

**Only model-checked:**

- `PackagesInSequence` and `RefusedForCause` of D-10 and RDD 9, and the AVC
  properties `AVCEntriesLead`, `AVCWaitsAsNeeded` and `AVCGOPsDescribed`. Their loops
  pop a queue until a condition holds and are folds over it: what such a fold leaves is an
  induction over data.
- `ChecksumsFollow`: a call at the top of the stack of files reaches the ones
  below by a recursive function.
- The essence reader on files that grow or are streams, where a read may run out of data
  at every key: `FailsOnlyForCause` names the causes, and the properties
  hold around them.
- All liveness: TLAPS proves neither ENABLED nor fairness conditions here.

## Plan

The order is that of importance: what every written file depends on comes first.

1. `SampleSequences`, `Interleaver`, `OP1AContentPackages`: done.
2. Type, interleaving, pool and refinement theorems about them: done.
3. `OP1AIndexTable`, `OP1AIndexing`: done.
4. `MPEG2LGWriterHelper`: done.
5. `OP1AFile`, composing 3 with the partitions: done.
6. `AVCWriterHelper`: done.
7. `PositionConversion`, `MXFGroupReader`, with frame buffers: done.
8. `EssenceReader` with its helpers, implementing `EssenceSource`: done for frame
   wrapped essence.
9. `MXFChecksumFile`: done for reading.
10. `MXFHTTPFile`: done.
11. `SoundSequencePackages` for D-10 and RDD 9: done.
12. Left: the clip wrapped element of OP-1a, the sequence reader, the partitions of
    D-10 and RDD 9.

Theorems, done: those above, in the order of the modules, down to the refinement of
`EssenceSource` by complete files. Left: the essence reader on files that grow, from
an invariant that has `WholeFileInv` for what is available of the file; the AVC helper,
once its loops are stated as what they leave in the buffer.

## Not modelled

Byte layout, metadata, labels, descriptors, parsing of elementary streams and
options: their outcome (frame types, sizes, rates, durations) is input of the
modules. Errors of the disk: the library passes them on and the application
ends. Clip wrapped essence, in which a single package never ends: written, it
has no queue; read, positions are computed from a constant size. Avid's paired
and extra index entries, an odd layout of complete files only. The partitions
and the index of D-10 (one constant) and RDD 9 (as OP-1a, with the difference that
no partition waits for entries). The sequence reader, which chooses a group by
position. Formats without interleaving of their own (Avid, AS-02, Wave), vendored
libraries and tools. The notes in `PROJECT.json` say it for every component.
