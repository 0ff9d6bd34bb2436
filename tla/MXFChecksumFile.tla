-------------------------- MODULE MXFChecksumFile --------------------------
(***************************************************************************)
(* MXFChecksumFile: a file that computes a checksum of what is read from   *)
(* the file below it.  AppMXFFileFactory puts one on the input file for    *)
(* every type of checksum asked for, each on top of the one before.  The   *)
(* application reads through the topmost one, has it keep the checksum up  *)
(* with the reads from some point on, and in the end makes all final.      *)
(*                                                                         *)
(* The input file may be one that can seek, or a stream, where a seek      *)
(* forward is made good by the next read (mxf_stream_file.c).  It may grow *)
(* or end early.  A byte is its position in the file.                      *)
(***************************************************************************)
EXTENDS Integers, SequencesExt

CONSTANTS
  MaxSize,       \* bound: size of the input file
  MaxTypes,      \* bound: types of checksum
  ChunkSize,     \* how much is read at once to update a checksum
  ReadCounts     \* how much a read asks for

ASSUME ChecksumAssumption ==
  /\ MaxSize \in Nat /\ MaxTypes \in Nat \ {0} /\ ChunkSize \in Nat \ {0}
  /\ ReadCounts \subseteq Nat

VARIABLES
  files,   \* the input file and the checksum files on it, bottom up
  seeks,   \* whether the application seeks: not in a stream before updates are forced,
           \* where the stream would pass over bytes that no checksum file gets to read
  ok,      \* whether the last call succeeded
  ended    \* "no", "final" or "failed"

checksumVars == <<files, seeks, ok, ended>>

-----------------------------------------------------------------------------
(* The input file: its position, for a stream also the one it is read at    *)
(* (headPosition), and its size.  A checksum file: its position, what its   *)
(* checksum is of, whether it is final and updates are forced.              *)

InputFile(seekable, size) == [seekable |-> seekable, size |-> size, position |-> 0, head |-> 0]
ChecksumFile == [position |-> 0, summed |-> <<>>, force |-> FALSE, final |-> FALSE]

checksum_position(f) == Len(f.summed)
input == files[1]
top == Len(files)

(* disk_file_read and stream_file_read: what is read, and the file.         *)
InputRead(f, count) ==
  LET from == IF f.seekable THEN f.position ELSE Min({f.position, Max({f.head, f.size})})
      n == IF from < f.position THEN 0 ELSE Max({0, Min({count, f.size - from})})
      skipped == ~f.seekable /\ from < f.position
  IN  [file |-> IF f.seekable THEN [f EXCEPT !.position = @ + n]
                ELSE IF skipped THEN [f EXCEPT !.head = from]
                ELSE [f EXCEPT !.head = from + n, !.position = from + n],
       data |-> [i \in 1 .. n |-> from + i - 1]]

(* disk_file_seek and stream_file_seek.                                     *)
InputSeekFails(f, whence, to) == ~f.seekable /\ (whence = "end" \/ to < f.head)
InputSought(f, to) == [f EXCEPT !.position = to]

(* What a checksum file learns from what it reads.  A mutant: also when it  *)
(* reads behind the end of what its checksum is of.                         *)
SummedWithGap(f, data) ==
  IF f.final \/ f.position + Len(data) <= checksum_position(f) THEN f.summed
  ELSE f.summed \o SubSeq(data, Max({0, checksum_position(f) - f.position}) + 1, Len(data))
Summed(f, data) ==
  IF f.final \/ f.position > checksum_position(f) \/ f.position + Len(data) <= checksum_position(f)
  THEN f.summed
  ELSE f.summed \o SubSeq(data, checksum_position(f) - f.position + 1, Len(data))

Passed(f, data) == [f EXCEPT !.summed = Summed(f, data), !.position = @ + Len(data)]
WithForce(s, i, force) == [s EXCEPT ![i].force = force]

(* mxf_file_tell: -1 if a checksum file is out of step.                     *)
Tell(s, i) ==
  IF \A j \in 1 .. i : s[j].position = s[1].position THEN s[1].position ELSE -1

(* The calls for the i-th of the files s, which call those for itself and   *)
(* the one below it: each is what it does, given what the calls it makes do *)
(* (do).  The result holds the files, whether the call succeeds, and what   *)
(* was read.  A seek is to a position (SEEK_SET, or SEEK_CUR, which is the  *)
(* same by another name) or to the end.                                     *)
Call(op, s, i, whence, n) == [op |-> op, files |-> s, at |-> i, whence |-> whence, n |-> n]
Read(s, i, count) == Call("read", s, i, "", count)
Seek(s, i, whence, to) == Call("seek", s, i, whence, to)
Update(s, i, to) == Call("update", s, i, "", to)
Result(s, okay, data) == [files |-> s, ok |-> okay, data |-> data]

(* mxf_file_read. *)
DoRead(do, s, i, count) ==
  IF i = 1
  THEN LET r == InputRead(s[1], count) IN Result([s EXCEPT ![1] = r.file], TRUE, r.data)
  ELSE LET u == IF s[i].force THEN do[Update(s, i, s[i].position)] ELSE Result(s, TRUE, <<>>)
           r == do[Read(u.files, i - 1, count)]
       IN  IF ~u.ok THEN Result(u.files, FALSE, <<>>)
           ELSE [r EXCEPT !.files[i] = Passed(@, r.data)]

(* mxf_file_seek. *)
DoSeek(do, s, i, whence, to) ==
  IF i = 1
  THEN IF InputSeekFails(s[1], whence, to) THEN Result(s, FALSE, <<>>)
       ELSE Result([s EXCEPT ![1] = InputSought(@, to)], TRUE, <<>>)
  ELSE IF s[i].force /\ whence = "set" /\ to > checksum_position(s[i]) THEN do[Update(s, i, to)]
  ELSE LET below == do[Seek(s, i - 1, whence, to)]
           moved == [below.files EXCEPT ![i].position = to]
       IN  IF ~below.ok \/ ~s[i].force THEN [below EXCEPT !.files = IF below.ok THEN moved ELSE @]
           ELSE do[Update(moved, i, to)]

(* The loop of update_checksum_to_position: until it is there, or a read    *)
(* comes short.                                                             *)
DoLoop(do, s, i, to) ==
  LET count == Min({ChunkSize, to - checksum_position(s[i])})
      r == do[Read(s, i, count)]
  IN  IF checksum_position(s[i]) >= to THEN Result(s, TRUE, <<>>)
      ELSE IF Len(r.data) < count THEN Result(r.files, FALSE, <<>>)
      ELSE do[Call("loop", r.files, i, "", to)]

DoUpdate(do, s, i, to) ==
  LET unforced == WithForce(s, i, FALSE)
      sought == do[Seek(unforced, i, "set", checksum_position(s[i]))]
      done == IF sought.ok THEN do[Call("loop", sought.files, i, "", to)] ELSE sought
  IN  IF s[i].final \/ checksum_position(s[i]) >= to THEN Result(s, TRUE, <<>>)
      ELSE Result(WithForce(done.files, i, s[i].force), done.ok, <<>>)

(* update_checksum_to_nonseekable_end: until a read comes short.            *)
DoDrain(do, s, i) ==
  LET r == do[Read(s, i, ChunkSize)]
  IN  IF Len(r.data) < ChunkSize THEN Result(r.files, TRUE, <<>>)
      ELSE do[Call("drain", r.files, i, "", 0)]

FileState ==
  [seekable : BOOLEAN, size : Nat, position : Nat, head : Nat]
    \cup [position : Nat, summed : Seq(Nat), force : BOOLEAN, final : BOOLEAN]
FileCall ==
  [op : {"read", "seek", "update", "loop", "drain"}, files : Seq(FileState),
   at : Nat \ {0}, whence : {"", "set", "end"}, n : Nat]

Do[c \in FileCall] ==
  CASE c.op = "read" -> DoRead(Do, c.files, c.at, c.n)
    [] c.op = "seek" -> DoSeek(Do, c.files, c.at, c.whence, c.n)
    [] c.op = "update" -> DoUpdate(Do, c.files, c.at, c.n)
    [] c.op = "loop" -> DoLoop(Do, c.files, c.at, c.n)
    [] c.op = "drain" -> DoDrain(Do, c.files, c.at)

(* mxf_checksum_file_final: what is missing is read.                        *)
MadeFinal(s, i) ==
  LET position == Tell(s, i)
      updated == Do[Update(s, i, s[1].size)]
      back == Do[Seek(updated.files, i, "set", position)]
      seekable == IF ~updated.ok THEN updated
                  ELSE IF position < 0 THEN [updated EXCEPT !.ok = FALSE]
                  ELSE back
      drained == Do[Call("drain", WithForce(s, i, FALSE), i, "", 0)]
      done == IF s[1].seekable THEN seekable
              ELSE [drained EXCEPT !.files = WithForce(@, i, s[i].force)]
  IN  IF done.ok THEN [done EXCEPT !.files[i].final = TRUE] ELSE done

-----------------------------------------------------------------------------
Calls == ended = "no"

ChecksumRead ==
  /\ Calls
  /\ \E count \in ReadCounts :
       LET r == Do[Read(files, top, count)]
       IN  files' = r.files /\ ok' = r.ok
  /\ UNCHANGED <<seeks, ended>>

ChecksumSeek ==
  /\ Calls /\ seeks
  /\ \E whence \in {"set", "end"}, to \in 0 .. MaxSize :
       LET r == Do[Seek(files, top, whence, to)]
       IN  /\ whence = "end" => to = input.size
           /\ files' = r.files /\ ok' = r.ok
  /\ UNCHANGED <<seeks, ended>>

(* ForceInputChecksumUpdate.                                                *)
ForceUpdate ==
  /\ Calls /\ ~files[top].force
  /\ files' = WithForce(files, top, TRUE)
  /\ seeks' = TRUE /\ ok' = FALSE
  /\ UNCHANGED ended

(* FinalizeInputChecksum: from the bottom up.                               *)
Finalize ==
  /\ Calls
  /\ LET Next(r, i) == IF r.ok THEN MadeFinal(r.files, i) ELSE r
         done == FoldLeft(LAMBDA r, i : Next(r, i + 1), [files |-> files, ok |-> TRUE],
                          [i \in 1 .. top - 1 |-> i])
     IN  /\ files' = done.files
         /\ ended' = IF done.ok THEN "final" ELSE "failed"
  /\ ok' = FALSE /\ UNCHANGED seeks

(* The input file grows, or more of the stream is there.                    *)
InputGrows ==
  /\ Calls /\ input.size < MaxSize
  /\ files' = [files EXCEPT ![1].size = @ + 1]
  /\ UNCHANGED <<seeks, ok, ended>>

ChecksumDone == ~Calls /\ UNCHANGED checksumVars

ChecksumInit ==
  /\ \E seekable \in BOOLEAN, size \in 0 .. MaxSize, types \in 1 .. MaxTypes :
       /\ files = <<InputFile(seekable, size)>> \o [i \in 1 .. types |-> ChecksumFile]
       /\ seeks = seekable
  /\ ok = FALSE /\ ended = "no"

ChecksumNext ==
  ChecksumRead \/ ChecksumSeek \/ ForceUpdate \/ Finalize \/ InputGrows \/ ChecksumDone

ChecksumSpec == ChecksumInit /\ [][ChecksumNext]_checksumVars

-----------------------------------------------------------------------------
(* Properties.                                                              *)
Checksums == 2 .. top
Prefix(n) == [i \in 1 .. n |-> i - 1]

(* However the application reads and seeks, and whether it succeeds or the  *)
(* input ends early: every checksum is of a beginning of the file, the same *)
(* for all, and all files are at the same position.  After a successful     *)
(* call with the update forced nothing before that position is missing.     *)
(* A final checksum is of the whole file: of all types for a file that can  *)
(* seek.  For a stream only the first one reaches the end: it is made final *)
(* first, reads the rest of the stream below the others and leaves nothing  *)
(* for them.                                                                *)
ChecksumsFollow ==
  /\ \A i \in Checksums : files[i].summed = Prefix(checksum_position(files[i]))
  /\ Calls => \A i \in Checksums :
       /\ files[i].position = input.position
       /\ files[i].summed = files[top].summed
  /\ files[top].force /\ ok => input.position <= checksum_position(files[top])
  /\ ended = "final" => \A i \in Checksums :
       files[i].final /\ (input.seekable \/ i = 2 => files[i].summed = Prefix(input.size))
=============================================================================
