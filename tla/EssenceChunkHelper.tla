------------------------- MODULE EssenceChunkHelper -------------------------
(***************************************************************************)
(* EssenceChunkHelper: where the essence container lies in the file.  The  *)
(* container is cut in chunks, one for each partition that holds essence;  *)
(* an offset in the container and a position in the file are translated    *)
(* into each other, starting the search at the chunk found last.  The last *)
(* chunk of a file that is still being read grows up to the content        *)
(* package read last.                                                      *)
(*                                                                         *)
(* A helper is a record: its chunks, the chunk found last, the number of   *)
(* partitions that have been looked at, and whether it is complete.        *)
(***************************************************************************)
EXTENDS Integers, SequencesExt

NoChunks == [chunks |-> <<>>, last |-> 1, partitions |-> 0, complete |-> FALSE]

(* Of chunk i, where it ends, by file position or by essence offset.        *)
ChunkEnd(h, by, i) == h.chunks[i][by] + h.chunks[i].size

GetEssenceDataSize(h) ==
  IF h.chunks = <<>> THEN 0 ELSE ChunkEnd(h, "offset", Len(h.chunks))

(* The partition's BodyOffset is ignored where it differs.                  *)
AppendChunk(h, partition, position) ==
  [h EXCEPT
     !.chunks = Append(@, [offset |-> GetEssenceDataSize(h), position |-> position,
                           size |-> 0, complete |-> FALSE]),
     !.partitions = partition]

UpdateLastChunk(h, position, isEnd) ==
  IF /\ h.chunks # <<>>
     /\ ~Last(h.chunks).complete
     /\ position >= ChunkEnd(h, "position", Len(h.chunks))
  THEN [h EXCEPT !.chunks[Len(h.chunks)].size = position - Last(h.chunks).position,
                 !.chunks[Len(h.chunks)].complete = isEnd]
  ELSE h

(* EssenceOffsetUpdate and FilePositionUpdate: from the chunk found last to *)
(* the nearest one before that starts early enough, or the nearest one      *)
(* after that ends late enough.                                             *)
Sought(h, by, v) ==
  LET before == {i \in 1 .. h.last - 1 : h.chunks[i][by] <= v}
      after == {i \in h.last + 1 .. Len(h.chunks) : ChunkEnd(h, by, i) > v}
      found == IF h.chunks[h.last][by] > v THEN Max(before \cup {0})
               ELSE IF ChunkEnd(h, by, h.last) <= v /\ after # {} THEN Min(after)
               ELSE h.last
  IN  [h EXCEPT !.last = IF found = 0 THEN @ ELSE found]

(* Both ends of the chunk are inside it.                                    *)
Holds(h, by, v) ==
  /\ h.chunks # <<>>
  /\ LET s == Sought(h, by, v)
     IN  s.chunks[s.last][by] <= v /\ v <= ChunkEnd(s, by, s.last)

HaveFilePosition(h, offset) == Holds(h, "offset", offset)

(* Of an offset the helper holds.                                           *)
GetFilePosition(h, offset) ==
  LET c == h.chunks[Sought(h, "offset", offset).last]
  IN  c.position + (offset - c.offset)

GetEssenceOffset(h, position) ==
  LET c == h.chunks[Sought(h, "position", position).last]
  IN  c.offset + (position - c.position)

(* GetKeyAndFilePosition finds an edit unit that may reach past the end of  *)
(* a chunk that still grows, though not past the end of a complete one.     *)
HaveEditUnitPosition(h, offset, size) ==
  /\ Holds(h, "offset", offset)
  /\ LET s == Sought(h, "offset", offset)
     IN  s.chunks[s.last].complete => offset + size <= ChunkEnd(s, "offset", s.last)
=============================================================================
