---------------------- MODULE MPEG2LGWriterHelper_proof ----------------------
(***************************************************************************)
(* Proof that the index entries of MPEG-2 long GOP frames are right, for   *)
(* streams of GOPs of any shapes, cut anywhere.  What the properties say   *)
(* of whole GOPs goes back to where each frame's GOP starts and ends, and  *)
(* a new frame changes that only for the GOP it is in (Grown).             *)
(***************************************************************************)
EXTENDS MPEG2LGWriterHelper, SequenceTheorems, FiniteSetTheorems, TLAPS

FrameType == {"I", "P", "B"}
StreamFrame == [type : FrameType, ref : Nat, header : BOOLEAN, closed : BOOLEAN]
Entry == [temporal : Int, key : Int]

-----------------------------------------------------------------------------
(* Where the GOP of a frame starts and ends, in any stream.                 *)
Places(st) == 0 .. (Len(st) - 1)
Start(st, c) == Max({s \in 0 .. c : st[s + 1].header})
End(st, c) == Min({s \in Places(st) : s > c /\ st[s + 1].header} \cup {Len(st)})
Shown(st, c) == Start(st, c) + st[c + 1].ref

IsStart(st, c, s) ==
  /\ s \in 0 .. c /\ st[s + 1].header
  /\ \A t \in 0 .. c : st[t + 1].header => t <= s
IsEnd(st, c, e) ==
  /\ e \in (c + 1) .. Len(st)
  /\ e < Len(st) => st[e + 1].header
  /\ \A t \in (c + 1) .. (Len(st) - 1) : st[t + 1].header => e <= t

(* Every frame has a GOP: the stream begins with a header.                  *)
Bounded(st) ==
  /\ st \in Seq(StreamFrame)
  /\ \A c \in Places(st) : IsStart(st, c, Start(st, c)) /\ IsEnd(st, c, End(st, c))

(* What a further frame f at the place p changes of a stream.               *)
Grown(st, f, p, t) ==
  /\ Bounded(t) /\ Len(t) = p + 1
  /\ \A c \in 0 .. (p - 1) :
       /\ t[c + 1] = st[c + 1] /\ Start(t, c) = Start(st, c)
       /\ End(t, c) = IF End(st, c) = p /\ ~f.header THEN p + 1 ELSE End(st, c)
  /\ t[p + 1] = f
  /\ Start(t, p) = IF f.header THEN p ELSE Start(st, p - 1)
  /\ End(t, p) = p + 1

LEMMA StartIs ==
  ASSUME NEW st, NEW c \in Nat, NEW s, IsStart(st, c, s)
  PROVE  Start(st, c) = s
<1> DEFINE S == {t \in 0 .. c : st[t + 1].header}
<1>1. s \in S /\ \A t \in S : s >= t
  BY DEF IsStart
<1>2. \A x \in S : (\A t \in S : x >= t) => x = s
  <2> SUFFICES ASSUME NEW x \in S, \A t \in S : x >= t PROVE x = s
    OBVIOUS
  <2>1. x >= s /\ s >= x /\ x \in Int /\ s \in Int
    BY <1>1
  <2> QED BY <2>1
<1> HIDE DEF S
<1>3. (CHOOSE x \in S : \A t \in S : x >= t) = s
  BY <1>1, <1>2
<1> QED BY <1>3 DEF Start, Max, S

LEMMA EndIs ==
  ASSUME NEW st, NEW c \in Nat, NEW e, Len(st) \in Nat, IsEnd(st, c, e)
  PROVE  End(st, c) = e
<1> DEFINE S == {t \in Places(st) : t > c /\ st[t + 1].header} \cup {Len(st)}
<1>1. e \in S /\ \A t \in S : e =< t
  BY DEF IsEnd, Places
<1>2. \A x \in S : (\A t \in S : x =< t) => x = e
  <2> SUFFICES ASSUME NEW x \in S, \A t \in S : x =< t PROVE x = e
    OBVIOUS
  <2>1. \A t \in S : t \in Int
    BY DEF Places
  <2>2. x \in Int /\ e \in Int
    BY <1>1, <2>1
  <2> HIDE DEF S
  <2>3. e =< x /\ x =< e
    BY <1>1
  <2> QED BY <2>2, <2>3
<1> HIDE DEF S
<1>3. (CHOOSE x \in S : \A t \in S : x =< t) = e
  BY <1>1, <1>2
<1> QED BY <1>3 DEF End, Min, S

(* A further frame that has a GOP.                                          *)
LEMMA StreamGrows ==
  ASSUME NEW st, Bounded(st), NEW f \in StreamFrame, NEW p \in Nat, p = Len(st),
         f.header \/ p > 0
  PROVE  Grown(st, f, p, Append(st, f))
<1> DEFINE t == Append(st, f)
<1>1. st \in Seq(StreamFrame)
  BY DEF Bounded
<1>2. /\ t \in Seq(StreamFrame) /\ Len(t) = p + 1 /\ t[p + 1] = f
      /\ \A c \in 0 .. (p - 1) : t[c + 1] = st[c + 1]
  <2> HIDE DEF StreamFrame
  <2>1. /\ t \in Seq(StreamFrame) /\ Len(t) = Len(st) + 1
        /\ \A i \in 1 .. Len(st) : t[i] = st[i]
        /\ t[Len(st) + 1] = f
    BY <1>1, AppendProperties
  <2> HIDE DEF t
  <2> QED BY <2>1
<1> HIDE DEF t
<1>3. ASSUME NEW c \in 0 .. (p - 1)
      PROVE  /\ c \in Nat /\ IsStart(st, c, Start(st, c)) /\ IsEnd(st, c, End(st, c))
             /\ IsStart(t, c, Start(st, c))
  <2>1. c \in Nat /\ IsStart(st, c, Start(st, c)) /\ IsEnd(st, c, End(st, c))
    BY DEF Bounded, Places
  <2>2. \A s \in 0 .. c : t[s + 1] = st[s + 1]
    BY <1>2
  <2>3. IsStart(t, c, Start(st, c))
    BY <2>1, <2>2 DEF IsStart
  <2> QED BY <2>1, <2>3
<1>4. ASSUME NEW c \in 0 .. (p - 1)
      PROVE  IsEnd(t, c, IF End(st, c) = p /\ ~f.header THEN p + 1 ELSE End(st, c))
  <2> DEFINE e == IF End(st, c) = p /\ ~f.header THEN p + 1 ELSE End(st, c)
  <2>1. /\ End(st, c) \in (c + 1) .. p
        /\ End(st, c) < p => st[End(st, c) + 1].header
        /\ \A s \in (c + 1) .. (p - 1) : st[s + 1].header => End(st, c) <= s
    BY <1>3 DEF IsEnd
  <2>2. e \in (c + 1) .. (p + 1)
    BY <2>1
  <2>3. e < p + 1 => t[e + 1].header
    <3>1. CASE End(st, c) = p /\ ~f.header
      BY <3>1
    <3>2. CASE End(st, c) = p /\ f.header
      BY <3>2, <1>2
    <3>3. CASE End(st, c) < p
      <4>1. e = End(st, c) /\ e \in 0 .. (p - 1)
        BY <2>1, <3>3
      <4>2. t[e + 1] = st[e + 1] /\ st[e + 1].header
        BY <1>2, <2>1, <3>3, <4>1
      <4> QED BY <4>2
    <3> QED BY <2>1, <3>1, <3>2, <3>3
  <2>4. \A s \in (c + 1) .. p : t[s + 1].header => e <= s
    <3> SUFFICES ASSUME NEW s \in (c + 1) .. p, t[s + 1].header PROVE e <= s
      OBVIOUS
    <3>1. CASE s = p
      BY <2>1, <3>1, <1>2
    <3>2. CASE s # p
      <4>1. s \in (c + 1) .. (p - 1) /\ s \in 0 .. (p - 1) /\ st[s + 1].header
        BY <3>2, <1>2
      <4> QED BY <4>1, <2>1
    <3> QED BY <3>1, <3>2
  <2> HIDE DEF e
  <2>5. IsEnd(t, c, e)
    BY <2>2, <2>3, <2>4, <1>2 DEF IsEnd
  <2> QED BY <2>5 DEF e
<1>5. IsStart(t, p, IF f.header THEN p ELSE Start(st, p - 1))
  <2>1. CASE f.header
    BY <2>1, <1>2 DEF IsStart
  <2>2. CASE ~f.header
    <3>1. p - 1 \in 0 .. (p - 1)
      BY <2>2
    <3>2. IsStart(t, p - 1, Start(st, p - 1))
      BY <3>1, <1>3
    <3>3. PICK s \in 0 .. (p - 1) : s = Start(st, p - 1)
      BY <3>2 DEF IsStart
    <3>4. t[s + 1].header /\ \A x \in 0 .. (p - 1) : t[x + 1].header => x <= s
      BY <3>2, <3>3 DEF IsStart
    <3>5. \A x \in 0 .. p : x \in 0 .. (p - 1) \/ x = p
      OBVIOUS
    <3>6. \A x \in 0 .. p : t[x + 1].header => x <= s
      BY <3>4, <3>5, <2>2, <1>2
    <3>7. IsStart(t, p, s)
      BY <3>4, <3>6 DEF IsStart
    <3> QED BY <3>3, <3>7, <2>2
  <2> QED BY <2>1, <2>2
<1>6. IsEnd(t, p, p + 1)
  BY <1>2 DEF IsEnd
<1>7. /\ Start(t, p) = IF f.header THEN p ELSE Start(st, p - 1)
      /\ End(t, p) = p + 1
  BY <1>2, <1>5, <1>6, StartIs, EndIs
<1>8. ASSUME NEW c \in 0 .. (p - 1)
      PROVE  /\ Start(t, c) = Start(st, c)
             /\ End(t, c) = IF End(st, c) = p /\ ~f.header THEN p + 1 ELSE End(st, c)
  <2>1. c \in Nat /\ Len(t) \in Nat
    BY <1>2
  <2> QED BY <2>1, <1>3, <1>4, StartIs, EndIs
<1>9. ASSUME NEW c \in Places(t)
      PROVE  IsStart(t, c, Start(t, c)) /\ IsEnd(t, c, End(t, c))
  <2>1. c = p \/ c \in 0 .. (p - 1)
    BY <1>2 DEF Places
  <2> QED BY <2>1, <1>3, <1>4, <1>5, <1>6, <1>7, <1>8
<1>10. Bounded(t)
  BY <1>2, <1>9 DEF Bounded
<1> QED BY <1>2, <1>7, <1>8, <1>10 DEF Grown, t

(* The frames of a GOP have the same start and end.                         *)
LEMMA SameGOP ==
  ASSUME NEW st, Bounded(st), NEW c \in Places(st), NEW b \in Start(st, c) .. (End(st, c) - 1)
  PROVE  /\ b \in Places(st) /\ Start(st, b) = Start(st, c) /\ End(st, b) = End(st, c)
<1> DEFINE s == Start(st, c)
           e == End(st, c)
<1>1. IsStart(st, c, s) /\ IsEnd(st, c, e) /\ c \in Nat /\ Len(st) \in Nat
  BY DEF Bounded, Places
<1> HIDE DEF s, e
<1>2. /\ s \in 0 .. c /\ st[s + 1].header
      /\ \A t \in 0 .. c : st[t + 1].header => t <= s
      /\ e \in (c + 1) .. Len(st)
      /\ e < Len(st) => st[e + 1].header
      /\ \A t \in (c + 1) .. (Len(st) - 1) : st[t + 1].header => e <= t
  BY <1>1 DEF IsStart, IsEnd
<1>3. b \in s .. (e - 1)
  BY DEF s, e
<1>4. b \in Nat /\ b \in Places(st)
  BY <1>1, <1>2, <1>3 DEF Places
<1>5. \A t \in 0 .. b : st[t + 1].header => t <= s
  <2> SUFFICES ASSUME NEW t \in 0 .. b, st[t + 1].header PROVE t <= s
    OBVIOUS
  <2>1. CASE t <= c
    BY <2>1, <1>2, <1>1
  <2>2. CASE t > c
    <3>1. t \in (c + 1) .. (Len(st) - 1)
      BY <2>2, <1>1, <1>2, <1>3
    <3> QED BY <3>1, <1>1, <1>2, <1>3
  <2> QED BY <2>1, <2>2, <1>1
<1>6. IsStart(st, b, s)
  BY <1>2, <1>3, <1>5, <1>1 DEF IsStart
<1>7. \A t \in (b + 1) .. (Len(st) - 1) : st[t + 1].header => e <= t
  <2> SUFFICES ASSUME NEW t \in (b + 1) .. (Len(st) - 1), st[t + 1].header PROVE e <= t
    OBVIOUS
  <2>1. CASE t <= c
    <3>1. t \in 0 .. c
      BY <2>1, <1>1, <1>4
    <3> QED BY <3>1, <1>1, <1>2, <1>3
  <2>2. CASE t > c
    <3>1. t \in (c + 1) .. (Len(st) - 1)
      BY <2>2, <1>1, <1>4
    <3> QED BY <3>1, <1>2
  <2> QED BY <2>1, <2>2, <1>1, <1>4
<1>8. IsEnd(st, b, e)
  BY <1>2, <1>3, <1>4, <1>7, <1>1 DEF IsEnd
<1>9. Start(st, b) = s /\ End(st, b) = e
  BY <1>1, <1>4, <1>6, <1>8, StartIs, EndIs
<1> QED BY <1>4, <1>9 DEF s, e

(* The frames from the last header on are those whose GOP has not ended.    *)
LEMMA LastGOP ==
  ASSUME NEW st, Bounded(st), NEW p \in Nat, p = Len(st), p > 0, NEW c \in 0 .. (p - 1)
  PROVE  LET last == Start(st, p - 1) IN
         /\ last \in 0 .. (p - 1) /\ Start(st, c) \in 0 .. c /\ End(st, c) \in (c + 1) .. p
         /\ IF c >= last THEN Start(st, c) = last /\ End(st, c) = p
            ELSE Start(st, c) < last /\ End(st, c) <= last
<1> DEFINE last == Start(st, p - 1)
<1>1. /\ IsStart(st, c, Start(st, c)) /\ IsEnd(st, c, End(st, c)) /\ p - 1 \in Places(st)
      /\ IsStart(st, p - 1, last) /\ IsEnd(st, p - 1, End(st, p - 1)) /\ c \in Places(st)
  BY DEF Bounded, Places
<1>2. End(st, p - 1) = p
  BY <1>1 DEF IsEnd
<1>3. /\ last \in 0 .. (p - 1) /\ st[last + 1].header
      /\ Start(st, c) \in 0 .. c /\ End(st, c) \in (c + 1) .. p
      /\ \A t \in (c + 1) .. (p - 1) : st[t + 1].header => End(st, c) <= t
  BY <1>1 DEF IsStart, IsEnd
<1>4. CASE c >= last
  <2>1. c \in last .. (End(st, p - 1) - 1)
    BY <1>2, <1>3, <1>4
  <2> QED BY <2>1, <1>1, <1>2, <1>3, <1>4, SameGOP
<1>5. CASE ~(c >= last)
  <2>1. last \in (c + 1) .. (p - 1)
    BY <1>3, <1>5
  <2> QED BY <2>1, <1>3, <1>5
<1> QED BY <1>4, <1>5
-----------------------------------------------------------------------------
(* The inductive invariant.                                                 *)
ShapeFrame == [type : FrameType, ref : Nat]

TypeInv ==
  /\ Bounded(stream) /\ Len(stream) <= MaxFrames
  /\ gop \in [frames : Seq(ShapeFrame), closed : BOOLEAN, done : Nat]
  /\ offsets \in [0 .. (MaxFrames - 1) -> Int]
  /\ entries \in Seq(Entry) /\ Len(entries) = Len(stream)
  /\ gopStart = IF Len(stream) = 0 THEN 0 ELSE Start(stream, Len(stream) - 1)
  /\ keyFrame \in Int /\ prevKeyFrame \in Int /\ keyFrameRef \in Nat /\ maxGOP \in Nat
  /\ structure \in Seq(FrameType)
  /\ firstGOP \in BOOLEAN /\ identicalGOP \in BOOLEAN /\ gopClosed \in BOOLEAN

(* The frames of the GOP that is being coded, in the order of its shape.    *)
Current == gopStart .. (Len(stream) - 1)
GOPInv ==
  IF Len(stream) = 0 THEN gop.frames = <<>>
  ELSE /\ \E s \in Shapes : gop.frames = s.frames
       /\ gop.done \in 1 .. Len(gop.frames) /\ Len(stream) - gopStart <= gop.done
       /\ \A c \in Current : \E i \in 1 .. gop.done :
            (i = 1 <=> c = gopStart) /\ gop.frames[i].ref = stream[c + 1].ref

(* What a stream of such GOPs is like.                                      *)
Leads(st, c) == st[c + 1].ref < st[Start(st, c) + 1].ref
StreamInv ==
  \A b, c \in Places(stream) :
    /\ stream[c + 1].type = "I" <=> c = Start(stream, c)
    /\ Start(stream, b) = Start(stream, c) /\ b # c => stream[b + 1].ref # stream[c + 1].ref
    /\ Start(stream, b) = Start(stream, c) /\ Start(stream, c) < b /\ b < c /\ Leads(stream, c)
         => Leads(stream, b)

(* The offsets are those of the frames of the current GOP.                  *)
OffsetsInv ==
  Len(stream) > 0 => \A r \in 0 .. (MaxFrames - 1) :
    \/ \E c \in Current : stream[c + 1].ref = r /\ offsets[r] = c - (gopStart + r)
    \/ offsets[r] = Unknown /\ \A c \in Current : stream[c + 1].ref # r

(* The entry at each place where a frame is displayed leads to the frame.   *)
LeadInv ==
  \A c \in Places(stream) :
    Shown(stream, c) < End(stream, c) =>
      entries[Shown(stream, c) + 1].temporal = c - Shown(stream, c)

(* The entries of the current GOP that wait are those without an offset;    *)
(* those given up are the ones of earlier GOPs that nothing is displayed at. *)
Vacant(st, q) == \A c \in Places(st) : Shown(st, c) # q \/ End(st, c) <= q
RequiredInv ==
  /\ required = {q \in Current : offsets[q - gopStart] = Unknown}
  /\ ignored = {q \in Places(stream) : Vacant(stream, q) /\ q < gopStart}

(* The key frames, and the entry that each frame's decoding starts from.    *)
StartBefore(st, s) == IF s = 0 THEN -1 ELSE Start(st, s - 1)
Early(st, c) == ~st[c + 1].closed /\ Start(st, c) + st[Start(st, c) + 1].ref >= c
KeyInv ==
  /\ IF Len(stream) = 0 THEN keyFrame = -1
     ELSE /\ keyFrame = gopStart /\ keyFrameRef = stream[gopStart + 1].ref
          /\ prevKeyFrame = StartBefore(stream, gopStart)
  /\ \A c \in Places(stream) : c # Start(stream, c) =>
       c + entries[c + 1].key = IF Early(stream, c) THEN StartBefore(stream, Start(stream, c))
                                ELSE Start(stream, c)

(* The first GOP is on record as long as the others are compared with it.   *)
StructureInv ==
  /\ Len(stream) = 0 => firstGOP /\ identicalGOP /\ structure = <<>>
  /\ Len(stream) > 0 /\ identicalGOP =>
       /\ firstGOP <=> End(stream, 0) = Len(stream)
       /\ Len(structure) = End(stream, 0)
       /\ \A c \in 0 .. (End(stream, 0) - 1) : structure[c + 1] = stream[c + 1].type
       /\ \A c \in Places(stream) :
            /\ c - Start(stream, c) < End(stream, 0)
            /\ stream[c + 1].type = stream[c - Start(stream, c) + 1].type

(* The longest GOP that is followed by another.                             *)
Lengths(st) == {0} \cup {End(st, c) - Start(st, c) : c \in {d \in Places(st) : End(st, d) < Len(st)}}
LongestInv == maxGOP \in Lengths(stream) /\ \A n \in Lengths(stream) : n <= maxGOP

MPEG2Inv ==
  /\ TypeInv /\ GOPInv /\ StreamInv /\ OffsetsInv /\ LeadInv
  /\ RequiredInv /\ KeyInv /\ StructureInv /\ LongestInv

-----------------------------------------------------------------------------
(* What a step does, with the frame f that is added at p, in the GOP that   *)
(* begins at start.                                                         *)
StreamStep(f, p, start) ==
  /\ p \in Nat /\ p = Len(stream) /\ p < MaxFrames /\ f \in StreamFrame /\ start \in 0 .. p
  /\ Grown(stream, f, p, stream')
  /\ gopStart' = start /\ Start(stream', p) = start
  /\ f.type = "I" <=> f.header
  /\ IF f.header THEN start = p
     ELSE p > 0 /\ start < p /\ start = gopStart /\ start = Start(stream, p - 1)

GOPStep(f) ==
  /\ gop' \in [frames : Seq(ShapeFrame), closed : BOOLEAN, done : Nat]
  /\ \E s \in Shapes : gop'.frames = s.frames
  /\ gop'.done \in 1 .. Len(gop'.frames) /\ gop'.frames[gop'.done].ref = f.ref
  /\ IF f.header THEN gop'.done = 1 ELSE gop'.frames = gop.frames /\ gop'.done > gop.done

OffsetsStep(f, p, start) ==
  /\ offsets' \in [0 .. (MaxFrames - 1) -> Int]
  /\ \A r \in 0 .. (MaxFrames - 1) :
       offsets'[r] = IF r = f.ref THEN (p - start) - r
                     ELSE IF f.header THEN Unknown ELSE offsets[r]

EntriesStep(f, p, start) ==
  /\ entries' \in Seq(Entry) /\ Len(entries') = p + 1
  /\ \A c \in 0 .. (p - 1) :
       /\ entries'[c + 1].key = entries[c + 1].key
       /\ entries'[c + 1].temporal =
            IF c = start + f.ref THEN p - c ELSE entries[c + 1].temporal
  /\ entries'[p + 1].temporal = offsets'[p - start]
  /\ ~f.header => entries'[p + 1].key =
       IF ~f.closed /\ keyFrame + keyFrameRef >= p THEN prevKeyFrame - p ELSE keyFrame - p

RequiredStep(f, p, start) ==
  /\ required' = (IF f.header THEN {} ELSE required \ {start + f.ref})
                   \cup (IF offsets'[p - start] = Unknown THEN {p} ELSE {})
  /\ ignored' = IF f.header THEN ignored \cup required ELSE ignored

KeyStep(f, p) ==
  IF f.header THEN prevKeyFrame' = keyFrame /\ keyFrame' = p /\ keyFrameRef' = f.ref
  ELSE UNCHANGED <<prevKeyFrame, keyFrame, keyFrameRef>>

StructureStep(f, p, start) ==
  LET first == firstGOP /\ ~(f.header /\ p > 0) IN
  /\ structure' \in Seq(FrameType) /\ firstGOP' \in BOOLEAN /\ identicalGOP' \in BOOLEAN
  /\ identicalGOP' =>
       /\ identicalGOP
       /\ firstGOP' <=> first
       /\ structure' = IF first THEN Append(structure, f.type) ELSE structure
       /\ ~first => p - start + 1 \in DOMAIN structure /\ structure[p - start + 1] = f.type
  /\ maxGOP' = IF f.header /\ p - gopStart > maxGOP THEN p - gopStart ELSE maxGOP

FrameStep(f, p, start) ==
  /\ StreamStep(f, p, start) /\ GOPStep(f) /\ OffsetsStep(f, p, start)
  /\ EntriesStep(f, p, start) /\ RequiredStep(f, p, start) /\ KeyStep(f, p)
  /\ StructureStep(f, p, start) /\ gopClosed' \in BOOLEAN

(* ProcessFrame at a place that has a GOP.                                  *)
LEMMA ProcessFrameSteps ==
  ASSUME MPEG2Inv, NEW frame \in StreamFrame, NEW header \in BOOLEAN, NEW closed \in BOOLEAN,
         frame.type = "I" <=> header, header \/ Len(stream) > 0, position < MaxFrames,
         NEW f, f = [frame EXCEPT !.header = header, !.closed = closed], GOPStep(f),
         ProcessFrame(frame, header, closed)
  PROVE  FrameStep(f, position, StartFrom(header))
<1> DEFINE p == position
           start == StartFrom(header)
<1>1. p \in Nat /\ p = Len(stream) /\ Bounded(stream)
  BY DEF position, MPEG2Inv, TypeInv, Bounded
<1>2. f \in StreamFrame /\ f.header = header /\ f.closed = closed /\ f.type = frame.type
        /\ f.ref = frame.ref /\ f.ref \in Nat
  BY DEF StreamFrame
<1>3. stream' = Append(stream, f) /\ gopStart' = start /\ gopClosed' = closed
  BY DEF ProcessFrame
<1>4. StreamStep(f, p, start)
  <2>1. Grown(stream, f, p, stream')
    BY <1>1, <1>2, <1>3, StreamGrows
  <2>2. CASE header
    <3>1. start = p
      BY <2>2 DEF StartFrom
    <3> HIDE DEF start, p
    <3>2. Start(stream', p) = start
      BY <2>1, <2>2, <3>1, <1>2 DEF Grown
    <3> QED BY <1>1, <1>2, <1>3, <2>1, <2>2, <3>1, <3>2 DEF StreamStep, position, p
  <2>3. CASE ~header
    <3>1. start = gopStart /\ p > 0
      BY <2>3, <1>1 DEF StartFrom
    <3>2. gopStart = Start(stream, p - 1)
      BY <1>1, <3>1 DEF MPEG2Inv, TypeInv
    <3>3. start \in 0 .. (p - 1)
      <4>1. p - 1 \in Places(stream)
        BY <1>1, <3>1 DEF Places
      <4>2. IsStart(stream, p - 1, Start(stream, p - 1))
        BY <4>1, <1>1 DEF Bounded
      <4> QED BY <4>2, <3>1, <3>2 DEF IsStart
    <3> HIDE DEF start, p
    <3>4. Start(stream', p) = start
      BY <2>1, <2>3, <3>1, <3>2, <1>2 DEF Grown
    <3> QED BY <1>1, <1>2, <1>3, <2>1, <2>3, <3>1, <3>2, <3>3, <3>4 DEF StreamStep, position, p
  <2> QED BY <2>2, <2>3
<1>5. start \in 0 .. p /\ p < MaxFrames /\ MaxFrames \in Nat /\ Unknown \in Nat
  BY <1>4, MPEG2Assumption DEF StreamStep
<1>6. OffsetsStep(f, p, start)
  <2> DEFINE old == OffsetsFrom(header)
  <2>1. old \in [0 .. (MaxFrames - 1) -> Int]
    BY <1>5 DEF OffsetsFrom, NoOffsets, MPEG2Inv, TypeInv
  <2>2. \A r \in 0 .. (MaxFrames - 1) : old[r] = IF header THEN Unknown ELSE offsets[r]
    BY DEF OffsetsFrom, NoOffsets
  <2>3. offsets' = [old EXCEPT ![f.ref] = (p - start) - f.ref]
    BY <1>2 DEF ProcessFrame, OffsetsWith
  <2> HIDE DEF old, start, p
  <2>4. PICK own \in Int : own = (p - start) - f.ref
    BY <1>1, <1>2, <1>5
  <2>5. /\ offsets' \in [0 .. (MaxFrames - 1) -> Int]
        /\ \A r \in 0 .. (MaxFrames - 1) : offsets'[r] = IF r = f.ref THEN own ELSE old[r]
    BY ONLY <2>1, <2>3, <2>4
  <2> QED BY <2>2, <2>4, <2>5, <1>2 DEF OffsetsStep
<1>7. PICK prev : /\ prev = IF frame.ref < p - start THEN offsets'[frame.ref] ELSE 0
                  /\ entries' = Append(UpdatedEntries(prev),
                       [temporal |-> offsets'[p - start],
                        key      |-> KeyFrameOffset(frame, closed)])
                  /\ required' = (IF GivesUp(header, prev) THEN {} ELSE StillRequired(prev))
                       \cup (IF offsets'[p - start] # Unknown THEN {} ELSE {p})
                  /\ ignored' = IF GivesUp(header, prev) THEN ignored \cup StillRequired(prev) ELSE ignored
  BY DEF ProcessFrame
<1>8. prev = IF f.ref < p - start THEN (p - start) - f.ref ELSE 0
  <2> HIDE DEF p, start
  <2>1. f.ref < p - start => f.ref \in 0 .. (MaxFrames - 1)
    BY <1>1, <1>2, <1>5
  <2> QED BY <1>2, <1>6, <1>7, <2>1 DEF OffsetsStep
<1>9. /\ prev \in Nat /\ prev <= p /\ (prev > 0 => p - prev = start + f.ref /\ start + f.ref < p)
      /\ (~(prev > 0) => start + f.ref >= p)
  BY <1>1, <1>2, <1>5, <1>8
<1>10. EntriesStep(f, p, start)
  <2> DEFINE old == UpdatedEntries(prev)
             last == [temporal |-> offsets'[p - start],
                      key      |-> KeyFrameOffset(frame, closed)]
  <2>1. entries \in Seq(Entry) /\ Len(entries) = p
    BY <1>1 DEF MPEG2Inv, TypeInv
  <2>2. /\ old \in Seq(Entry) /\ Len(old) = p
        /\ \A c \in 0 .. (p - 1) :
             /\ old[c + 1].key = entries[c + 1].key
             /\ old[c + 1].temporal = IF c = start + f.ref THEN p - c ELSE entries[c + 1].temporal
    <3>1. CASE prev > 0
      <4>1. PICK k \in 1 .. p : k = PrevPosition(prev) + 1 /\ k = start + f.ref + 1 /\ prev = p - (k - 1)
        BY <1>1, <1>2, <1>5, <1>9, <3>1 DEF PrevPosition
      <4>2. entries[k] \in Entry
        BY <2>1, <4>1
      <4> DEFINE new == [entries[k] EXCEPT !.temporal = prev]
      <4>3. new \in Entry /\ new.temporal = prev /\ new.key = entries[k].key
        <5>1. PICK e \in Entry : e = entries[k]
          BY <4>2
        <5>2. prev \in Int
          BY <1>9
        <5>3. [e EXCEPT !.temporal = prev] \in Entry
          BY ONLY <5>2, e \in Entry DEF Entry
        <5>4. [e EXCEPT !.temporal = prev].temporal = prev /\ [e EXCEPT !.temporal = prev].key = e.key
          BY ONLY <5>2, e \in Entry DEF Entry
        <5> QED BY <5>1, <5>3, <5>4
      <4>4. old = [entries EXCEPT ![k] = new]
        BY <4>1, <3>1 DEF UpdatedEntries
      <4> HIDE DEF old, p, start, Entry, new
      <4>5. /\ old \in Seq(Entry) /\ Len(old) = p
            /\ \A i \in 1 .. p : old[i] = IF i = k THEN new ELSE entries[i]
        BY ONLY <2>1, <4>1, <4>3, <4>4, ExceptSeq
      <4>6. ASSUME NEW c \in 0 .. (p - 1)
            PROVE  /\ old[c + 1].key = entries[c + 1].key
                   /\ old[c + 1].temporal = IF c = start + f.ref THEN p - c ELSE entries[c + 1].temporal
        <5>1. c + 1 \in 1 .. p /\ (c + 1 = k <=> c = start + f.ref) /\ prev = p - (k - 1)
          <6>1. PICK shown \in Nat : shown = start + f.ref
            BY <1>1, <1>2, <1>5
          <6>2. k = shown + 1 /\ c \in Int /\ k \in Int /\ p \in Nat /\ prev = p - (k - 1)
            BY <4>1, <6>1, <1>1
          <6> QED BY <6>1, <6>2
        <5>2. CASE c + 1 = k
          <6>1. old[c + 1] = new /\ c = start + f.ref /\ prev = p - c /\ k = c + 1
            BY <5>1, <5>2, <4>5, <1>1
          <6> QED BY <6>1, <4>3
        <5>3. CASE c + 1 # k
          BY <5>1, <5>3, <4>5
        <5> QED BY <5>2, <5>3
      <4> QED BY <4>5, <4>6
    <3>2. CASE ~(prev > 0)
      BY <2>1, <3>2, <1>1, <1>2, <1>5, <1>9 DEF UpdatedEntries
    <3> QED BY <3>1, <3>2
  <2>3. p - start \in 0 .. (MaxFrames - 1)
    BY <1>1, <1>5
  <2>4. /\ last \in Entry
        /\ last.temporal = offsets'[p - start]
        /\ ~f.header => last.key =
             IF ~f.closed /\ keyFrame + keyFrameRef >= p THEN prevKeyFrame - p ELSE keyFrame - p
    <3> HIDE DEF start
    <3>1. KeyFrameOffset(frame, closed) \in Int
      BY <1>1 DEF KeyFrameOffset, MPEG2Inv, TypeInv
    <3>2. offsets'[p - start] \in Int
      BY <1>6, <2>3 DEF OffsetsStep
    <3>3. ~f.header => KeyFrameOffset(frame, closed) =
             IF ~f.closed /\ keyFrame + keyFrameRef >= p THEN prevKeyFrame - p ELSE keyFrame - p
      BY <1>2 DEF KeyFrameOffset, NeedsPrevKeyFrame
    <3> QED BY <3>1, <3>2, <3>3 DEF Entry
  <2>5. entries' = Append(old, last)
    BY <1>7
  <2> HIDE DEF old, last, p, start, Entry
  <2>6. /\ entries' \in Seq(Entry) /\ Len(entries') = p + 1 /\ entries'[p + 1] = last
        /\ \A i \in 1 .. p : entries'[i] = old[i]
    BY <2>2, <2>4, <2>5, AppendProperties
  <2>7. \A c \in 0 .. (p - 1) : entries'[c + 1] = old[c + 1]
    BY <2>6, <1>1
  <2> QED BY <2>2, <2>4, <2>6, <2>7 DEF EntriesStep
<1>11. RequiredStep(f, p, start)
  <2>1. required \subseteq gopStart .. (p - 1)
    BY <1>1 DEF MPEG2Inv, RequiredInv, Current
  <2>2. StillRequired(prev) = required \ {start + f.ref}
    <3>1. CASE prev > 0
      BY <3>1, <1>9 DEF StillRequired, PrevPosition
    <3>2. CASE ~(prev > 0)
      <4>1. start + f.ref \notin required
        <5>1. PICK d : d = start + f.ref
          OBVIOUS
        <5>2. d \in Int /\ d >= p
          BY <1>1, <1>2, <1>5, <1>9, <3>2, <5>1
        <5>3. \A x \in required : x \in Int /\ x <= p - 1
          BY <2>1
        <5>4. d \notin required
          BY <1>1, <5>2, <5>3
        <5> QED BY <5>1, <5>4
      <4> QED BY <4>1, <3>2 DEF StillRequired
    <3> QED BY <3>1, <3>2
  <2>3. header => required \ {start + f.ref} = required
    <3> SUFFICES ASSUME header PROVE start + f.ref \notin required
      OBVIOUS
    <3>1. start = p
      BY DEF StartFrom
    <3> HIDE DEF start, p
    <3>2. start + f.ref >= p /\ start + f.ref \in Int
      BY <3>1, <1>1, <1>2
    <3> QED BY <2>1, <3>2, <1>1
  <2> HIDE DEF start, p
  <2>4. (IF GivesUp(header, prev) THEN {} ELSE StillRequired(prev))
          = IF f.header THEN {} ELSE required \ {start + f.ref}
    BY <1>2, <2>2 DEF GivesUp
  <2>5. (IF GivesUp(header, prev) THEN ignored \cup StillRequired(prev) ELSE ignored)
          = IF f.header THEN ignored \cup required ELSE ignored
    BY <1>2, <2>2, <2>3 DEF GivesUp
  <2> QED BY <1>7, <2>4, <2>5 DEF RequiredStep
<1>12. KeyStep(f, p)
  <2> HIDE DEF p
  <2>1. (frame.type = "I" <=> f.header) /\ frame.ref = f.ref
    BY <1>2
  <2> QED BY <2>1 DEF KeyStep, ProcessFrame, p
<1>13. StructureStep(f, p, start)
  <2> DEFINE first == firstGOP /\ ~(f.header /\ p > 0)
  <2>1. /\ structure \in Seq(FrameType) /\ firstGOP \in BOOLEAN /\ identicalGOP \in BOOLEAN
        /\ f.type \in FrameType
    BY <1>2 DEF MPEG2Inv, TypeInv, StreamFrame
  <2>2. maxGOP' = IF f.header /\ p - gopStart > maxGOP THEN p - gopStart ELSE maxGOP
    BY <1>2 DEF ProcessFrame
  <2>3. IF ~identicalGOP THEN UNCHANGED <<structure, firstGOP, identicalGOP>>
        ELSE /\ firstGOP' = first
             /\ structure' = IF first THEN Append(structure, f.type) ELSE structure
             /\ identicalGOP' = (first \/ MatchesFirst(p - start + 1, f.type))
    BY <1>2 DEF ProcessFrame, TracksIdentical
  <2> HIDE DEF first, p, start, FrameType
  <2>4. first \in BOOLEAN /\ MatchesFirst(p - start + 1, f.type) \in BOOLEAN
    BY DEF first, MatchesFirst
  <2>5. Append(structure, f.type) \in Seq(FrameType)
    BY <2>1, AppendProperties
  <2>6. structure' \in Seq(FrameType) /\ firstGOP' \in BOOLEAN /\ identicalGOP' \in BOOLEAN
    BY <2>1, <2>3, <2>4, <2>5
  <2>7. identicalGOP' =>
          /\ identicalGOP /\ (firstGOP' <=> first)
          /\ structure' = IF first THEN Append(structure, f.type) ELSE structure
          /\ ~first => p - start + 1 \in DOMAIN structure /\ structure[p - start + 1] = f.type
    BY <2>1, <2>3 DEF MatchesFirst
  <2> QED BY <2>2, <2>6, <2>7 DEF StructureStep, first
<1>14. gopClosed' \in BOOLEAN
  BY <1>3
<1> HIDE DEF p, start
<1>15. FrameStep(f, p, start)
  BY <1>4, <1>6, <1>10, <1>11, <1>12, <1>13, <1>14 DEF FrameStep
<1> QED BY <1>15 DEF p, start
-----------------------------------------------------------------------------
(* The stream after a step: the frames from start on are of one GOP with    *)
(* the new frame, and nothing has changed for those before.                 *)
Extended(f, p, start) ==
  /\ p \in Nat /\ Len(stream) = p /\ Len(stream') = p + 1 /\ start \in 0 .. p /\ p < MaxFrames
  /\ f \in StreamFrame /\ f.ref \in Nat
  /\ Places(stream) = 0 .. (p - 1) /\ Places(stream') = 0 .. p
  /\ \A c \in 0 .. (p - 1) :
       /\ stream'[c + 1] = stream[c + 1] /\ stream[c + 1] \in StreamFrame /\ stream[c + 1].ref \in Nat
       /\ Start(stream', c) = Start(stream, c) /\ Start(stream, c) \in 0 .. c
       /\ Shown(stream', c) = Shown(stream, c) /\ Shown(stream, c) = Start(stream, c) + stream[c + 1].ref
       /\ End(stream, c) \in (c + 1) .. p
       /\ IF c >= start
            THEN Start(stream, c) = start /\ End(stream, c) = p /\ End(stream', c) = p + 1
            ELSE Start(stream, c) < start /\ End(stream, c) <= start /\ End(stream', c) = End(stream, c)
  /\ stream'[p + 1] = f /\ Start(stream', p) = start /\ End(stream', p) = p + 1
  /\ Shown(stream', p) = start + f.ref
  /\ gopStart' = start /\ (~f.header => gopStart = start /\ p > 0 /\ start < p) /\ (f.header => start = p)
  /\ f.header <=> start = p

LEMMA StepExtends ==
  ASSUME MPEG2Inv, NEW f, NEW p, NEW start, FrameStep(f, p, start)
  PROVE  Extended(f, p, start)
<1>1. /\ p \in Nat /\ Len(stream) = p /\ start \in 0 .. p /\ p < MaxFrames /\ f \in StreamFrame
      /\ Grown(stream, f, p, stream') /\ gopStart' = start /\ Start(stream', p) = start
      /\ IF f.header THEN start = p
         ELSE p > 0 /\ start < p /\ start = gopStart /\ start = Start(stream, p - 1)
      /\ Bounded(stream)
  BY DEF FrameStep, StreamStep, MPEG2Inv, TypeInv
<1>2. f.ref \in Nat /\ f.header \in BOOLEAN
  BY <1>1 DEF StreamFrame
<1>3. /\ Len(stream') = p + 1 /\ stream'[p + 1] = f /\ End(stream', p) = p + 1
      /\ \A c \in 0 .. (p - 1) :
           /\ stream'[c + 1] = stream[c + 1] /\ Start(stream', c) = Start(stream, c)
           /\ End(stream', c) = IF End(stream, c) = p /\ ~f.header THEN p + 1 ELSE End(stream, c)
  BY <1>1 DEF Grown
<1>4. Places(stream) = 0 .. (p - 1) /\ Places(stream') = 0 .. p
  BY <1>1, <1>3 DEF Places
<1>5. Shown(stream', p) = start + f.ref
  BY <1>1, <1>3 DEF Shown
<1>6. ASSUME NEW c \in 0 .. (p - 1)
      PROVE  /\ stream'[c + 1] = stream[c + 1] /\ stream[c + 1] \in StreamFrame /\ stream[c + 1].ref \in Nat
             /\ Start(stream', c) = Start(stream, c) /\ Start(stream, c) \in 0 .. c
             /\ Shown(stream', c) = Shown(stream, c) /\ Shown(stream, c) = Start(stream, c) + stream[c + 1].ref
             /\ End(stream, c) \in (c + 1) .. p
             /\ IF c >= start
                  THEN Start(stream, c) = start /\ End(stream, c) = p /\ End(stream', c) = p + 1
                  ELSE Start(stream, c) < start /\ End(stream, c) <= start /\ End(stream', c) = End(stream, c)
  <2>1. stream'[c + 1] = stream[c + 1] /\ Start(stream', c) = Start(stream, c)
    BY <1>3
  <2>2. stream[c + 1] \in StreamFrame
    <3>1. stream \in Seq(StreamFrame) /\ c + 1 \in 1 .. Len(stream)
      BY <1>1 DEF Bounded
    <3> QED BY <3>1, ElementOfSeq
  <2>3. stream[c + 1].ref \in Nat
    BY <2>2 DEF StreamFrame
  <2>4. Shown(stream', c) = Shown(stream, c) /\ Shown(stream, c) = Start(stream, c) + stream[c + 1].ref
    BY <2>1 DEF Shown
  <2>5. PICK last \in 0 .. (p - 1) :
          /\ last = Start(stream, p - 1) /\ Start(stream, c) \in 0 .. c /\ End(stream, c) \in (c + 1) .. p
          /\ IF c >= last THEN Start(stream, c) = last /\ End(stream, c) = p
             ELSE Start(stream, c) < last /\ End(stream, c) <= last
    <3>1. p = Len(stream) /\ p > 0
      BY <1>1
    <3> QED BY <3>1, <1>1, LastGOP
  <2>6. CASE f.header
    <3>1. ~(c >= start) /\ Start(stream, c) < start /\ End(stream, c) <= start
      BY <1>1, <2>5, <2>6
    <3>2. End(stream', c) = End(stream, c)
      BY <1>3, <2>6
    <3> QED BY <2>1, <2>2, <2>3, <2>4, <2>5, <3>1, <3>2
  <2>7. CASE ~f.header
    <3>1. last = start
      BY <1>1, <2>5, <2>7
    <3>2. End(stream', c) = IF End(stream, c) = p THEN p + 1 ELSE End(stream, c)
      BY <1>3, <2>7
    <3>3. ~(c >= start) => End(stream, c) # p
      BY <1>1, <2>5, <2>7, <3>1
    <3> QED BY <2>1, <2>2, <2>3, <2>4, <2>5, <3>1, <3>2, <3>3
  <2> QED BY <2>6, <2>7
<1> QED BY <1>1, <1>2, <1>3, <1>4, <1>5, <1>6 DEF Extended

LEMMA TypeKept ==
  ASSUME MPEG2Inv, NEW f, NEW p, NEW start, FrameStep(f, p, start)
  PROVE  TypeInv'
<1>1. Extended(f, p, start)
  BY StepExtends
<1>2. Len(stream') = p + 1 /\ p \in Nat /\ p < MaxFrames /\ Bounded(stream') /\ MaxFrames \in Nat
  BY <1>1, MPEG2Assumption DEF Extended, FrameStep, StreamStep, Grown
<1>3. gopStart' = IF Len(stream') = 0 THEN 0 ELSE Start(stream', Len(stream') - 1)
  BY <1>1, <1>2 DEF Extended
<1>4. keyFrame' \in Int /\ prevKeyFrame' \in Int /\ keyFrameRef' \in Nat
  <2>1. KeyStep(f, p) /\ p \in Nat /\ f.ref \in Nat
    BY <1>1 DEF Extended, FrameStep
  <2>2. keyFrame \in Int /\ prevKeyFrame \in Int /\ keyFrameRef \in Nat
    BY DEF MPEG2Inv, TypeInv
  <2> QED BY ONLY <2>1, <2>2 DEF KeyStep
<1>5. maxGOP' \in Nat
  <2>1. gopStart \in Int /\ maxGOP \in Nat
    <3>1. CASE p = 0
      BY <3>1, <1>1 DEF Extended, MPEG2Inv, TypeInv
    <3>2. CASE p # 0
      <4>1. p - 1 \in 0 .. (p - 1) /\ gopStart = Start(stream, p - 1)
        BY <3>2, <1>1 DEF Extended, MPEG2Inv, TypeInv
      <4>2. Start(stream, p - 1) \in Int
        BY <4>1, <1>1 DEF Extended
      <4> QED BY <4>1, <4>2 DEF MPEG2Inv, TypeInv
    <3> QED BY <3>1, <3>2
  <2> QED BY <1>2, <2>1 DEF FrameStep, StructureStep
<1>6. /\ structure' \in Seq(FrameType) /\ firstGOP' \in BOOLEAN /\ identicalGOP' \in BOOLEAN
      /\ gopClosed' \in BOOLEAN
  BY DEF FrameStep, StructureStep
<1>7. /\ gop' \in [frames : Seq(ShapeFrame), closed : BOOLEAN, done : Nat]
      /\ offsets' \in [0 .. (MaxFrames - 1) -> Int]
      /\ entries' \in Seq(Entry) /\ Len(entries') = p + 1
  BY DEF FrameStep, GOPStep, OffsetsStep, EntriesStep
<1> QED BY <1>2, <1>3, <1>4, <1>5, <1>6, <1>7 DEF TypeInv

(* The frames of a GOP are of one shape, in order; so no two are displayed  *)
(* at the same place.                                                       *)
LEMMA GOPKept ==
  ASSUME MPEG2Inv, NEW f, NEW p, NEW start, FrameStep(f, p, start)
  PROVE  GOPInv'
<1>1. Extended(f, p, start)
  BY StepExtends
<1>2. GOPStep(f) /\ GOPInv
  BY DEF FrameStep, MPEG2Inv
<1>3. PICK i \in 1 .. Len(gop'.frames) : i = gop'.done
  BY <1>2 DEF GOPStep
<1>4. i \in Nat /\ Len(gop'.frames) \in Nat
  BY <1>2, <1>3 DEF GOPStep
<1>5. ASSUME f.header
      PROVE  /\ p + 1 - start <= i
             /\ \A c \in start .. p : \E j \in 1 .. i :
                  (j = 1 <=> c = start) /\ gop'.frames[j].ref = stream'[c + 1].ref
  <2>1. start = p /\ i = 1 /\ gop'.frames[i].ref = f.ref /\ stream'[p + 1] = f /\ p \in Nat
    BY <1>1, <1>2, <1>3, <1>5 DEF Extended, GOPStep
  <2> QED BY <2>1
<1>6. ASSUME ~f.header
      PROVE  /\ p + 1 - start <= i
             /\ \A c \in start .. p : \E j \in 1 .. i :
                  (j = 1 <=> c = start) /\ gop'.frames[j].ref = stream'[c + 1].ref
  <2>1. /\ p > 0 /\ start < p /\ gopStart = start /\ p \in Nat /\ stream'[p + 1] = f /\ Len(stream) = p
        /\ start \in 0 .. p
    BY <1>1, <1>6 DEF Extended
  <2>2. PICK n \in Nat : n = gop.done
    BY DEF MPEG2Inv, TypeInv
  <2>3. gop'.frames = gop.frames /\ i > n /\ gop'.frames[i].ref = f.ref
    BY <1>2, <1>3, <1>6, <2>2 DEF GOPStep
  <2>4. /\ n >= 1 /\ p - start <= n
        /\ \A c \in start .. (p - 1) : \E j \in 1 .. n :
             (j = 1 <=> c = start) /\ gop.frames[j].ref = stream[c + 1].ref
    BY <1>2, <2>1, <2>2 DEF GOPInv, Current
  <2>5. ASSUME NEW c \in start .. p
        PROVE  \E j \in 1 .. i : (j = 1 <=> c = start) /\ gop'.frames[j].ref = stream'[c + 1].ref
    <3>1. CASE c = p
      BY <3>1, <2>1, <2>3, <2>4, <1>4
    <3>2. CASE c # p
      <4>1. c \in start .. (p - 1) /\ c \in 0 .. (p - 1)
        BY <3>2, <2>1
      <4>2. PICK j \in 1 .. n : (j = 1 <=> c = start) /\ gop.frames[j].ref = stream[c + 1].ref
        BY <4>1, <2>4
      <4>3. j \in 1 .. i
        BY <4>2, <2>3, <1>4
      <4>4. stream'[c + 1] = stream[c + 1]
        BY <4>1, <1>1 DEF Extended
      <4> QED BY <4>2, <4>3, <4>4, <2>3
    <3> QED BY <3>1, <3>2
  <2>6. p + 1 - start <= i
    BY <2>1, <2>3, <2>4, <1>4
  <2> QED BY <2>5, <2>6
<1>7. /\ p + 1 - start <= i
      /\ \A c \in start .. p : \E j \in 1 .. i :
           (j = 1 <=> c = start) /\ gop'.frames[j].ref = stream'[c + 1].ref
  BY <1>5, <1>6
<1>8. /\ Len(stream') = p + 1 /\ p \in Nat /\ gopStart' = start /\ i = gop'.done
      /\ \E s \in Shapes : gop'.frames = s.frames
  BY <1>1, <1>2, <1>3 DEF Extended, GOPStep
<1>9. Current' = start .. p
  BY <1>8 DEF Current
<1>10. Len(stream') # 0 /\ Len(stream') - gopStart' <= gop'.done
  <2>1. p + 1 # 0
    BY <1>8
  <2>2. Len(stream') - gopStart' = p + 1 - start
    <3>1. start \in Int /\ Len(stream') = p + 1 /\ gopStart' = start /\ p \in Int
      BY <1>1, <1>8 DEF Extended
    <3> QED BY ONLY <3>1
  <2> QED BY <1>7, <1>8, <2>1, <2>2
<1>11. gop'.done \in 1 .. Len(gop'.frames)
  BY <1>3
<1>12. \A c \in Current' : \E j \in 1 .. gop'.done :
         (j = 1 <=> c = gopStart') /\ gop'.frames[j].ref = stream'[c + 1].ref
  BY <1>7, <1>8, <1>9
<1> QED BY <1>8, <1>10, <1>11, <1>12 DEF GOPInv
(* The new frame is not displayed where another frame of its GOP is, and    *)
(* comes before the GOP's I frame only if those between do.                 *)
LEMMA NewInGOP ==
  ASSUME MPEG2Inv, NEW f, NEW p, NEW start, FrameStep(f, p, start),
         NEW b \in start .. (p - 1)
  PROVE  /\ stream'[b + 1].ref # f.ref
         /\ start < b /\ f.ref < stream'[start + 1].ref
              => stream'[b + 1].ref < stream'[start + 1].ref
<1>1. Extended(f, p, start)
  BY StepExtends
<1>2. p \in Nat /\ start \in 0 .. p /\ b \in Int /\ start < p
  BY <1>1 DEF Extended
<1>3. GOPStep(f) /\ GOPInv
  BY DEF FrameStep, MPEG2Inv
<1>4. ~f.header
  BY <1>1, <1>2 DEF Extended
<1>5. PICK s \in Shapes : gop'.frames = s.frames
  BY <1>3 DEF GOPStep
<1>6. /\ s.frames \in Seq([type : {"I", "P", "B"}, ref : Nat]) /\ Len(s.frames) \in 1 .. Unknown
      /\ \A i, j \in DOMAIN s.frames :
           /\ i # j => s.frames[i].ref # s.frames[j].ref
           /\ 1 < i /\ i < j /\ s.frames[j].ref < s.frames[1].ref
                => s.frames[i].ref < s.frames[1].ref
  BY MPEG2Assumption
<1>7. DOMAIN s.frames = 1 .. Len(s.frames) /\ Len(s.frames) \in Nat
  BY <1>6
<1>8. PICK k \in 1 .. Len(s.frames) : k = gop'.done /\ s.frames[k].ref = f.ref
  BY <1>3, <1>5 DEF GOPStep
<1>9. PICK n \in Nat : n = gop.done /\ n < k /\ gop.frames = s.frames
  BY <1>3, <1>4, <1>5, <1>8 DEF GOPStep, MPEG2Inv, TypeInv
<1>10. \A c \in start .. (p - 1) : \E i \in 1 .. n :
         (i = 1 <=> c = start) /\ s.frames[i].ref = stream'[c + 1].ref
  <2>1. Len(stream) = p /\ gopStart = start /\ p > 0
    BY <1>1, <1>4 DEF Extended
  <2>2. Current = start .. (p - 1)
    BY <2>1 DEF Current
  <2>3. \A c \in start .. (p - 1) : \E i \in 1 .. n :
          (i = 1 <=> c = start) /\ s.frames[i].ref = stream[c + 1].ref
    BY <1>2, <1>3, <1>9, <2>1, <2>2 DEF GOPInv
  <2>4. \A c \in start .. (p - 1) : c \in 0 .. (p - 1)
    BY <1>2
  <2>5. \A c \in 0 .. (p - 1) : stream'[c + 1] = stream[c + 1]
    BY <1>1 DEF Extended
  <2> QED BY <2>3, <2>4, <2>5
<1>11. PICK i \in 1 .. n : (i = 1 <=> b = start) /\ s.frames[i].ref = stream'[b + 1].ref
  BY <1>10
<1>12. PICK h \in 1 .. n : h = 1 /\ s.frames[h].ref = stream'[start + 1].ref
  <2>1. start \in start .. (p - 1)
    BY <1>2
  <2> QED BY <1>10, <2>1
<1>13. i \in DOMAIN s.frames /\ k \in DOMAIN s.frames /\ i < k /\ i # k
  BY <1>7, <1>8, <1>9, <1>11
<1>14. stream'[b + 1].ref # f.ref
  BY <1>6, <1>8, <1>11, <1>13
<1>15. ASSUME start < b, f.ref < stream'[start + 1].ref
       PROVE  stream'[b + 1].ref < stream'[start + 1].ref
  <2>1. 1 < i
    BY <1>2, <1>11, <1>15
  <2> QED BY <1>6, <1>8, <1>11, <1>12, <1>13, <2>1, <1>15
<1> QED BY <1>14, <1>15

LEMMA StreamKept ==
  ASSUME MPEG2Inv, NEW f, NEW p, NEW start, FrameStep(f, p, start)
  PROVE  StreamInv'
<1>1. Extended(f, p, start)
  BY StepExtends
<1>2. /\ p \in Nat /\ start \in 0 .. p /\ Places(stream) = 0 .. (p - 1) /\ Places(stream') = 0 .. p
      /\ stream'[p + 1] = f /\ Start(stream', p) = start
      /\ \A c \in 0 .. (p - 1) :
           /\ stream'[c + 1] = stream[c + 1] /\ Start(stream', c) = Start(stream, c)
           /\ Start(stream, c) \in 0 .. c
           /\ Start(stream, c) = start <=> c >= start
  BY <1>1 DEF Extended
<1>3. \A c \in 0 .. (p - 1) : Leads(stream', c) = Leads(stream, c)
  <2> SUFFICES ASSUME NEW c \in 0 .. (p - 1) PROVE Leads(stream', c) = Leads(stream, c)
    OBVIOUS
  <2>1. PICK s \in 0 .. (p - 1) : s = Start(stream, c)
    BY <1>2
  <2> QED BY <1>2, <2>1 DEF Leads
<1>4. \A c \in 0 .. p : stream'[c + 1].type = "I" <=> c = Start(stream', c)
  <2>1. f.type = "I" <=> p = start
    BY <1>1 DEF FrameStep, StreamStep, Extended
  <2>2. \A c \in 0 .. (p - 1) : stream[c + 1].type = "I" <=> c = Start(stream, c)
    BY <1>2 DEF MPEG2Inv, StreamInv
  <2>3. \A c \in 0 .. p : c \in 0 .. (p - 1) \/ c = p
    BY <1>2
  <2> QED BY <1>2, <2>1, <2>2, <2>3
<1>5. ASSUME NEW b \in 0 .. p, NEW c \in 0 .. p, Start(stream', b) = Start(stream', c), b # c
      PROVE  /\ stream'[b + 1].ref # stream'[c + 1].ref
             /\ Start(stream', c) < b /\ b < c /\ Leads(stream', c) => Leads(stream', b)
  <2>1. CASE b \in 0 .. (p - 1) /\ c \in 0 .. (p - 1)
    <3>1. /\ Start(stream, b) = Start(stream, c) => stream[b + 1].ref # stream[c + 1].ref
          /\ Start(stream, b) = Start(stream, c) /\ Start(stream, c) < b /\ b < c /\ Leads(stream, c)
               => Leads(stream, b)
      BY <1>2, <1>5, <2>1 DEF MPEG2Inv, StreamInv
    <3> QED BY <1>2, <1>3, <1>5, <2>1, <3>1
  <2>2. CASE c = p /\ b \in 0 .. (p - 1)
    <3>1. b \in start .. (p - 1) /\ Start(stream', b) = start
      BY <1>2, <1>5, <2>2
    <3>2. /\ stream'[b + 1].ref # f.ref
          /\ start < b /\ f.ref < stream'[start + 1].ref
              => stream'[b + 1].ref < stream'[start + 1].ref
      BY <3>1, NewInGOP
    <3> QED BY <1>2, <2>2, <3>1, <3>2 DEF Leads
  <2>3. CASE b = p /\ c \in 0 .. (p - 1)
    <3>1. c \in start .. (p - 1)
      BY <1>2, <1>5, <2>3
    <3>2. stream'[c + 1].ref # f.ref
      BY <3>1, NewInGOP
    <3> QED BY <1>2, <2>3, <3>2
  <2> QED BY <1>2, <1>5, <2>1, <2>2, <2>3
<1> QED BY <1>2, <1>4, <1>5 DEF StreamInv

(* The offset at the place where a frame of the current GOP is displayed,   *)
(* and nowhere else, is the frame's own.                                    *)
LEMMA OffsetsKept ==
  ASSUME MPEG2Inv, NEW f, NEW p, NEW start, FrameStep(f, p, start)
  PROVE  OffsetsInv'
<1>1. Extended(f, p, start)
  BY StepExtends
<1>2. /\ p \in Nat /\ Len(stream) = p /\ Len(stream') = p + 1 /\ start \in 0 .. p /\ gopStart' = start
      /\ stream'[p + 1] = f /\ f.ref \in Nat
      /\ \A c \in 0 .. (p - 1) : stream'[c + 1] = stream[c + 1]
      /\ (f.header => start = p) /\ (~f.header => p > 0 /\ gopStart = start)
  BY <1>1 DEF Extended
<1>3. Current' = start .. p
  BY <1>2 DEF Current
<1>4. SUFFICES ASSUME NEW r \in 0 .. (MaxFrames - 1)
               PROVE  \/ \E c \in start .. p : stream'[c + 1].ref = r /\ offsets'[r] = c - (start + r)
                      \/ offsets'[r] = Unknown /\ \A c \in start .. p : stream'[c + 1].ref # r
  BY <1>2, <1>3 DEF OffsetsInv
<1>5. /\ offsets'[r] = IF r = f.ref THEN (p - start) - r ELSE IF f.header THEN Unknown ELSE offsets[r]
      /\ r \in Int
  BY MPEG2Assumption DEF FrameStep, OffsetsStep
<1>6. CASE r = f.ref
  <2>1. p \in start .. p /\ stream'[p + 1].ref = r /\ offsets'[r] = p - (start + r)
    BY <1>2, <1>5, <1>6
  <2> QED BY <2>1
<1>7. CASE r # f.ref /\ f.header
  <2>1. \A c \in start .. p : c = p
    BY <1>2, <1>7
  <2> QED BY <1>2, <1>5, <1>7, <2>1
<1>8. CASE r # f.ref /\ ~f.header
  <2>1. Current = start .. (p - 1)
    BY <1>2, <1>8 DEF Current
  <2>2. \/ \E c \in start .. (p - 1) : stream[c + 1].ref = r /\ offsets[r] = c - (start + r)
        \/ offsets[r] = Unknown /\ \A c \in start .. (p - 1) : stream[c + 1].ref # r
    BY <1>2, <1>8, <2>1 DEF MPEG2Inv, OffsetsInv
  <2>3. offsets'[r] = offsets[r] /\ \A c \in start .. (p - 1) : c \in 0 .. (p - 1) /\ c \in start .. p
    BY <1>2, <1>5, <1>8
  <2>4. \A c \in start .. p : c = p \/ c \in start .. (p - 1)
    BY <1>2
  <2> QED BY <1>2, <1>8, <2>2, <2>3, <2>4
<1> QED BY <1>6, <1>7, <1>8
LEMMA LeadKept ==
  ASSUME MPEG2Inv, NEW f, NEW p, NEW start, FrameStep(f, p, start)
  PROVE  LeadInv'
<1>1. Extended(f, p, start)
  BY StepExtends
<1>2. /\ p \in Nat /\ Len(stream) = p /\ Len(stream') = p + 1 /\ start \in 0 .. p /\ gopStart' = start
      /\ p < MaxFrames /\ MaxFrames \in Nat /\ Unknown \in Nat
      /\ stream'[p + 1] = f /\ f.ref \in Nat
      /\ Start(stream', p) = start /\ End(stream', p) = p + 1 /\ Shown(stream', p) = start + f.ref
      /\ Places(stream') = 0 .. p /\ Places(stream) = 0 .. (p - 1)
  BY <1>1, MPEG2Assumption DEF Extended
<1>3. /\ \A d \in 0 .. (p - 1) : entries'[d + 1].temporal =
            IF d = start + f.ref THEN p - d ELSE entries[d + 1].temporal
      /\ entries'[p + 1].temporal = offsets'[p - start]
  BY DEF FrameStep, EntriesStep
<1>4. ASSUME NEW c \in 0 .. (p - 1), Shown(stream', c) < End(stream', c)
      PROVE  entries'[Shown(stream', c) + 1].temporal = c - Shown(stream', c)
  <2>1. /\ stream'[c + 1] = stream[c + 1] /\ stream[c + 1].ref \in Nat
        /\ Start(stream', c) = Start(stream, c) /\ Start(stream, c) \in 0 .. c
        /\ Shown(stream', c) = Shown(stream, c) /\ Shown(stream, c) = Start(stream, c) + stream[c + 1].ref
        /\ End(stream, c) \in (c + 1) .. p
        /\ IF c >= start
             THEN Start(stream, c) = start /\ End(stream, c) = p /\ End(stream', c) = p + 1
             ELSE Start(stream, c) < start /\ End(stream, c) <= start /\ End(stream', c) = End(stream, c)
    BY <1>1 DEF Extended
  <2>2. PICK d \in Nat : d = Shown(stream', c)
    BY <2>1
  <2>3. c >= start => d = start + stream'[c + 1].ref /\ stream'[c + 1].ref # f.ref
    <3> SUFFICES ASSUME c >= start PROVE d = start + stream'[c + 1].ref /\ stream'[c + 1].ref # f.ref
      OBVIOUS
    <3>1. c \in start .. (p - 1)
      BY <1>2
    <3>2. stream'[c + 1].ref # f.ref
      BY <3>1, NewInGOP
    <3> QED BY <2>1, <2>2, <3>2
  <2>4. CASE d < End(stream, c)
    <3>1. d \in 0 .. (p - 1)
      BY <1>2, <2>1, <2>4
    <3>2. d # start + f.ref
      <4>1. CASE c >= start
        <5>1. PICK n \in Nat : n = stream'[c + 1].ref
          BY <2>1
        <5>2. PICK m \in Nat : m = f.ref
          BY <1>2
        <5>3. d = start + n /\ n # m /\ start \in Int
          BY <1>2, <2>3, <4>1, <5>1, <5>2
        <5>4. d # start + m
          BY ONLY <5>3, n \in Nat, m \in Nat
        <5> QED BY <5>2, <5>4
      <4>2. CASE ~(c >= start)
        BY <1>2, <2>1, <2>4, <4>2
      <4> QED BY <4>1, <4>2
    <3>3. entries[d + 1].temporal = c - d
      BY <1>2, <2>1, <2>2, <2>4 DEF MPEG2Inv, LeadInv
    <3> QED BY <1>3, <2>2, <3>1, <3>2, <3>3
  <2>5. CASE ~(d < End(stream, c))
    <3>1. c >= start /\ d = p /\ d = start + stream'[c + 1].ref
      BY <1>2, <1>4, <2>1, <2>2, <2>3, <2>5
    <3>2. PICK r \in 0 .. (MaxFrames - 1) : r = p - start /\ stream'[c + 1].ref = r
      <4>1. PICK n \in Nat : n = stream'[c + 1].ref
        BY <2>1
      <4>2. /\ p = start + n /\ p \in Nat /\ start \in Nat /\ p < MaxFrames /\ MaxFrames \in Nat
            /\ n \in Nat
        BY <1>2, <3>1, <4>1
      <4>3. n \in 0 .. (MaxFrames - 1) /\ n = p - start
        BY ONLY <4>2
      <4> QED BY <4>1, <4>3
    <3>3. Current' = start .. p /\ c \in start .. p
      BY <1>2, <3>1 DEF Current
    <3>4. \/ \E b \in start .. p : stream'[b + 1].ref = r /\ offsets'[r] = b - (start + r)
          \/ offsets'[r] = Unknown /\ \A b \in start .. p : stream'[b + 1].ref # r
      <4>1. OffsetsInv'
        BY OffsetsKept
      <4>2. Len(stream') > 0
        BY <1>2
      <4>3. \A n \in 0 .. (MaxFrames - 1) :
              \/ \E b \in Current' : stream'[b + 1].ref = n /\ offsets'[n] = b - (gopStart' + n)
              \/ offsets'[n] = Unknown /\ \A b \in Current' : stream'[b + 1].ref # n
        BY ONLY <4>1, <4>2 DEF OffsetsInv
      <4> QED BY <1>2, <3>3, <4>3
    <3>5. PICK b \in start .. p : stream'[b + 1].ref = r /\ offsets'[r] = b - (start + r)
      BY <3>2, <3>3, <3>4
    <3>6. b = c
      <4>1. Start(stream', b) = start /\ Start(stream', c) = start
        <5>1. b = p \/ (b \in 0 .. (p - 1) /\ b >= start)
          BY <1>2
        <5> QED BY <1>1, <1>2, <2>1, <3>1, <5>1 DEF Extended
      <4>2. b \in Places(stream') /\ c \in Places(stream')
        BY <1>2
      <4>3. b # c => stream'[b + 1].ref # stream'[c + 1].ref
        BY <4>1, <4>2, StreamKept DEF StreamInv
      <4> QED BY <4>3, <3>2, <3>5
    <3>7. offsets'[p - start] = c - p
      BY <1>2, <3>2, <3>5, <3>6
    <3>8. entries'[p + 1].temporal = c - p
      BY <1>3, <3>7
    <3> QED BY <2>2, <3>1, <3>8
  <2> QED BY <2>4, <2>5
<1>5. ASSUME Shown(stream', p) < End(stream', p)
      PROVE  entries'[Shown(stream', p) + 1].temporal = p - Shown(stream', p)
  <2>1. PICK d \in Nat : d = Shown(stream', p) /\ d = start + f.ref /\ d <= p
    BY <1>2, <1>5
  <2>2. CASE d < p
    <3>1. d \in 0 .. (p - 1)
      BY <2>1, <2>2, <1>2
    <3> QED BY <1>3, <2>1, <3>1
  <2>3. CASE d = p
    <3>1. p - start = f.ref /\ p - start \in 0 .. (MaxFrames - 1)
      BY <1>2, <2>1, <2>3
    <3>2. offsets'[p - start] = (p - start) - (p - start)
      BY <3>1 DEF FrameStep, OffsetsStep
    <3>3. offsets'[p - start] = 0
      BY <1>2, <3>2
    <3> QED BY <1>2, <1>3, <2>1, <2>3, <3>3
  <2> QED BY <1>2, <2>1, <2>2, <2>3
<1>6. \A c \in 0 .. p : c = p \/ c \in 0 .. (p - 1)
  BY <1>2
<1> QED BY <1>2, <1>4, <1>5, <1>6 DEF LeadInv

(* No offset within the GOP being coded is mistaken for an unknown one.     *)
LEMMA CurrentShort ==
  ASSUME GOPInv, Len(stream) \in Nat, Len(stream) > 0, gopStart \in Nat
  PROVE  Len(stream) - gopStart <= Unknown
<1>1. PICK s \in Shapes : gop.frames = s.frames
  BY DEF GOPInv
<1>2. Len(s.frames) \in 1 .. Unknown /\ Unknown \in Nat
  BY MPEG2Assumption
<1>3. gop.done \in 1 .. Len(gop.frames) /\ Len(stream) - gopStart <= gop.done
  BY DEF GOPInv
<1> QED BY <1>1, <1>2, <1>3

LEMMA CurrentShortNext ==
  ASSUME MPEG2Inv, NEW f, NEW p, NEW start, FrameStep(f, p, start)
  PROVE  p - start < Unknown
<1>1. p \in Nat /\ start \in Int /\ Len(stream') = p + 1 /\ gopStart' = start
  BY StepExtends DEF Extended
<1>2. GOPInv'
  BY GOPKept
<1>3. PICK s \in Shapes : gop'.frames = s.frames
  BY <1>1, <1>2 DEF GOPInv
<1>4. Len(s.frames) \in 1 .. Unknown /\ Unknown \in Nat
  BY MPEG2Assumption
<1>5. gop'.done \in 1 .. Len(gop'.frames) /\ Len(stream') - gopStart' <= gop'.done
  <2>1. Len(stream') # 0
    BY <1>1
  <2> QED BY <1>2, <2>1 DEF GOPInv
<1>6. PICK n \in 1 .. Len(s.frames) : p + 1 - start <= n
  BY <1>1, <1>3, <1>5
<1> QED BY <1>1, <1>4, <1>6

(* A place of the current GOP has no offset exactly if it has no frame.     *)
LEMMA VacantIs ==
  ASSUME TypeInv, GOPInv, OffsetsInv, Len(stream) > 0, NEW q \in Current
  PROVE  Vacant(stream, q) <=> offsets[q - gopStart] = Unknown
<1> DEFINE p == Len(stream)
           start == gopStart
<1>1. /\ Bounded(stream) /\ stream \in Seq(StreamFrame) /\ p \in Nat /\ p > 0 /\ p <= MaxFrames
      /\ start = Start(stream, p - 1) /\ MaxFrames \in Nat /\ Unknown \in Nat
  BY MPEG2Assumption DEF TypeInv, Bounded
<1>2. \A c \in 0 .. (p - 1) :
        /\ start \in 0 .. (p - 1) /\ Start(stream, c) \in 0 .. c /\ End(stream, c) \in (c + 1) .. p
        /\ IF c >= start THEN Start(stream, c) = start /\ End(stream, c) = p
           ELSE Start(stream, c) < start /\ End(stream, c) <= start
  BY <1>1, LastGOP
<1>3. start \in 0 .. (p - 1)
  <2>1. p - 1 \in 0 .. (p - 1)
    BY <1>1
  <2> QED BY <1>2, <2>1
<1>4. p - start <= Unknown
  BY <1>1, <1>3, CurrentShort
<1>5. q \in start .. (p - 1) /\ Places(stream) = 0 .. (p - 1)
  BY DEF Current, Places
<1>6. \A c \in 0 .. (p - 1) :
        Shown(stream, c) = Start(stream, c) + stream[c + 1].ref /\ stream[c + 1].ref \in Nat
  <2> SUFFICES ASSUME NEW c \in 0 .. (p - 1)
               PROVE Shown(stream, c) = Start(stream, c) + stream[c + 1].ref /\ stream[c + 1].ref \in Nat
    OBVIOUS
  <2>1. stream[c + 1] \in StreamFrame
    <3>1. c + 1 \in 1 .. Len(stream)
      BY <1>1
    <3> QED BY <1>1, <3>1, ElementOfSeq
  <2> QED BY <2>1 DEF Shown, StreamFrame
<1>7. PICK r \in 0 .. (MaxFrames - 1) : r = q - start
  BY <1>1, <1>3, <1>5
<1>8. \/ \E c \in start .. (p - 1) : stream[c + 1].ref = r /\ offsets[r] = c - (start + r)
      \/ offsets[r] = Unknown /\ \A c \in start .. (p - 1) : stream[c + 1].ref # r
  BY <1>1, <1>7 DEF OffsetsInv, Current
<1>9. \A c \in 0 .. (p - 1) :
        (Shown(stream, c) = q /\ q < End(stream, c)) <=> (c >= start /\ stream[c + 1].ref = r)
  <2> SUFFICES ASSUME NEW c \in 0 .. (p - 1)
               PROVE (Shown(stream, c) = q /\ q < End(stream, c)) <=> (c >= start /\ stream[c + 1].ref = r)
    OBVIOUS
  <2>1. PICK n \in Nat : n = stream[c + 1].ref
    BY <1>6
  <2>2. PICK s \in 0 .. c : s = Start(stream, c)
    BY <1>2
  <2>3. PICK e \in (c + 1) .. p : e = End(stream, c)
    BY <1>2
  <2>4. Shown(stream, c) = s + n
    BY <1>6, <2>1, <2>2
  <2>5. IF c >= start THEN s = start /\ e = p ELSE s < start /\ e <= start
    BY <1>2, <2>2, <2>3
  <2> HIDE DEF p, start
  <2>6. (s + n = q /\ q < e) <=> (c >= start /\ n = r)
    BY <1>1, <1>3, <1>5, <1>7, <2>5
  <2> QED BY <2>1, <2>3, <2>4, <2>6
<1>10. Vacant(stream, q) <=> \A c \in 0 .. (p - 1) : ~(Shown(stream, c) = q /\ q < End(stream, c))
  <2>1. \A c \in 0 .. (p - 1) : End(stream, c) \in Int /\ (End(stream, c) <= q <=> ~(q < End(stream, c)))
    BY <1>2, <1>3, <1>5
  <2> QED BY <1>5, <2>1 DEF Vacant
<1> HIDE DEF p, start
<1>11. \A c \in start .. (p - 1) : c \in 0 .. (p - 1) /\ c >= start /\ c - (start + r) # Unknown
  <2> SUFFICES ASSUME NEW c \in start .. (p - 1)
               PROVE c \in 0 .. (p - 1) /\ c >= start /\ c - (start + r) # Unknown
    OBVIOUS
  <2>1. /\ start \in Nat /\ p \in Nat /\ Unknown \in Nat /\ p - start <= Unknown /\ r \in Nat
        /\ c \in start .. (p - 1)
    BY <1>1, <1>3, <1>4, <1>7
  <2> QED BY ONLY <2>1
<1>12. \A c \in 0 .. (p - 1) : c >= start => c \in start .. (p - 1)
  BY <1>1, <1>3
<1>13. offsets[r] = Unknown <=> \A c \in start .. (p - 1) : stream[c + 1].ref # r
  BY <1>8, <1>11
<1> QED BY <1>7, <1>9, <1>10, <1>11, <1>12, <1>13 DEF start
LEMMA RequiredKept ==
  ASSUME MPEG2Inv, NEW f, NEW p, NEW start, FrameStep(f, p, start)
  PROVE  RequiredInv'
<1>1. Extended(f, p, start)
  BY StepExtends
<1>2. /\ p \in Nat /\ Len(stream) = p /\ Len(stream') = p + 1 /\ start \in 0 .. p /\ gopStart' = start
      /\ p < MaxFrames /\ MaxFrames \in Nat /\ Unknown \in Nat /\ f.ref \in Nat
      /\ Shown(stream', p) = start + f.ref
      /\ Places(stream') = 0 .. p /\ Places(stream) = 0 .. (p - 1)
      /\ (f.header => start = p) /\ (~f.header => p > 0 /\ gopStart = start)
  BY <1>1, MPEG2Assumption DEF Extended
<1>3. Current' = start .. p /\ Current = gopStart .. (p - 1)
  BY <1>2 DEF Current
<1>4. \A r \in 0 .. (MaxFrames - 1) :
        offsets'[r] = IF r = f.ref THEN (p - start) - r ELSE IF f.header THEN Unknown ELSE offsets[r]
  BY DEF FrameStep, OffsetsStep
<1>5. required' = {q \in start .. p : offsets'[q - start] = Unknown}
  <2>1. /\ required' = (IF f.header THEN {} ELSE required \ {start + f.ref})
                         \cup (IF offsets'[p - start] = Unknown THEN {p} ELSE {})
        /\ required = {q \in gopStart .. (p - 1) : offsets[q - gopStart] = Unknown}
    BY <1>3 DEF FrameStep, RequiredStep, MPEG2Inv, RequiredInv
  <2>2. CASE f.header
    <3>1. start .. p = {p}
      BY <1>2, <2>2
    <3> QED BY <2>1, <2>2, <3>1
  <2>3. CASE ~f.header
    <3>1. ASSUME NEW q \in start .. (p - 1)
          PROVE  offsets'[q - start] = Unknown <=> (q # start + f.ref /\ offsets[q - start] = Unknown)
      <4>1. PICK r \in 0 .. (MaxFrames - 1) : r = q - start
        BY <1>2
      <4>2. PICK m \in Nat : m = f.ref
        BY <1>2
      <4>3. p - start < Unknown
        BY CurrentShortNext
      <4>4. (q = start + m <=> r = m) /\ (p - start) - r # Unknown
        <5>1. /\ q \in Int /\ start \in Nat /\ p \in Nat /\ r \in Nat /\ Unknown \in Nat
              /\ r = q - start /\ p - start < Unknown
          BY <1>2, <4>1, <4>3
        <5> QED BY ONLY <5>1, m \in Nat
      <4> QED BY <1>4, <2>3, <4>1, <4>2, <4>4
    <3>2. required = {q \in start .. (p - 1) : offsets[q - start] = Unknown}
      BY <1>2, <2>1, <2>3
    <3>3. required \ {start + f.ref} = {q \in start .. (p - 1) : offsets'[q - start] = Unknown}
      BY <3>1, <3>2
    <3>4. start .. p = (start .. (p - 1)) \cup {p} /\ p \notin start .. (p - 1)
      BY <1>2
    <3> QED BY <2>1, <2>3, <3>3, <3>4
  <2> QED BY <2>2, <2>3
<1>6. ASSUME NEW q \in 0 .. (p - 1), q < start
      PROVE  Vacant(stream', q) <=> Vacant(stream, q)
  <2>1. ASSUME NEW c \in 0 .. (p - 1)
        PROVE  (Shown(stream', c) # q \/ End(stream', c) <= q) <=> (Shown(stream, c) # q \/ End(stream, c) <= q)
    <3>1. CASE c >= start
      <4>1. PICK n \in Nat : n = stream[c + 1].ref
        BY <1>1 DEF Extended
      <4>2. Shown(stream', c) = start + n /\ Shown(stream, c) = start + n
        BY <1>1, <3>1, <4>1 DEF Extended
      <4>3. start + n # q
        BY <1>2, <1>6
      <4> QED BY <4>2, <4>3
    <3>2. CASE ~(c >= start)
      BY <1>1, <3>2 DEF Extended
    <3> QED BY <3>1, <3>2
  <2>2. Shown(stream', p) # q
    BY <1>2, <1>6
  <2>3. \A c \in 0 .. p : c = p \/ c \in 0 .. (p - 1)
    BY <1>2
  <2>4. \A c \in 0 .. (p - 1) : c \in 0 .. p
    BY <1>2
  <2> QED BY <1>2, <2>1, <2>2, <2>3, <2>4 DEF Vacant
<1>7. ignored' = {q \in 0 .. p : Vacant(stream', q) /\ q < start}
  <2>1. {q \in 0 .. p : Vacant(stream', q) /\ q < start} = {q \in 0 .. (p - 1) : Vacant(stream, q) /\ q < start}
    <3>1. \A q \in 0 .. p : q < start => q \in 0 .. (p - 1)
      BY <1>2
    <3>2. \A q \in 0 .. (p - 1) : q \in 0 .. p
      BY <1>2
    <3> QED BY <1>6, <3>1, <3>2
  <2>2. /\ ignored' = IF f.header THEN ignored \cup required ELSE ignored
        /\ ignored = {q \in 0 .. (p - 1) : Vacant(stream, q) /\ q < gopStart}
        /\ required = {q \in gopStart .. (p - 1) : offsets[q - gopStart] = Unknown}
    BY <1>2, <1>3 DEF FrameStep, RequiredStep, MPEG2Inv, RequiredInv
  <2>3. CASE ~f.header
    BY <1>2, <2>1, <2>2, <2>3
  <2>4. CASE f.header
    <3>1. CASE p = 0
      <4>1. gopStart = 0 /\ start = 0
        BY <1>2, <3>1 DEF MPEG2Inv, TypeInv
      <4> QED BY <1>2, <2>1, <2>2, <2>4, <3>1, <4>1
    <3>2. CASE p # 0
      <4>1. \A q \in gopStart .. (p - 1) : Vacant(stream, q) <=> offsets[q - gopStart] = Unknown
        BY <1>2, <1>3, <3>2, VacantIs DEF MPEG2Inv
      <4>2. gopStart \in 0 .. (p - 1)
        <5>1. p - 1 \in 0 .. (p - 1) /\ gopStart = Start(stream, p - 1)
          BY <1>2, <3>2 DEF MPEG2Inv, TypeInv
        <5>2. Start(stream, p - 1) \in 0 .. (p - 1)
          BY <5>1, <1>1 DEF Extended
        <5> QED BY <5>1, <5>2
      <4>3. required = {q \in gopStart .. (p - 1) : Vacant(stream, q)}
        BY <2>2, <4>1
      <4>4. \A q : q \in 0 .. (p - 1) <=> (q \in 0 .. (p - 1) /\ q < gopStart) \/ q \in gopStart .. (p - 1)
        BY <1>2, <4>2
      <4>5. ignored \cup required = {q \in 0 .. (p - 1) : Vacant(stream, q)}
        BY <2>2, <4>3, <4>4
      <4>6. \A q \in 0 .. (p - 1) : q < start
        BY <1>2, <2>4
      <4> QED BY <2>1, <2>2, <2>4, <4>5, <4>6
    <3> QED BY <3>1, <3>2
  <2> QED BY <2>3, <2>4
<1> QED BY <1>2, <1>3, <1>5, <1>7 DEF RequiredInv

LEMMA KeyKept ==
  ASSUME MPEG2Inv, NEW f, NEW p, NEW start, FrameStep(f, p, start)
  PROVE  KeyInv'
<1>1. Extended(f, p, start)
  BY StepExtends
<1>2. /\ p \in Nat /\ Len(stream) = p /\ Len(stream') = p + 1 /\ start \in 0 .. p /\ gopStart' = start
      /\ f \in StreamFrame /\ f.ref \in Nat /\ stream'[p + 1] = f /\ Start(stream', p) = start
      /\ Places(stream') = 0 .. p /\ Places(stream) = 0 .. (p - 1)
      /\ (f.header => start = p) /\ (~f.header => p > 0 /\ gopStart = start /\ start < p)
      /\ \A c \in 0 .. (p - 1) :
           /\ stream'[c + 1] = stream[c + 1] /\ Start(stream', c) = Start(stream, c)
           /\ Start(stream, c) \in 0 .. c
  BY <1>1 DEF Extended
<1>3. KeyStep(f, p) /\ f.header \in BOOLEAN /\ KeyInv
  BY <1>2 DEF FrameStep, MPEG2Inv, StreamFrame
<1>4. \A s \in 0 .. p : StartBefore(stream', s) = StartBefore(stream, s)
  <2> SUFFICES ASSUME NEW s \in 0 .. p, s # 0 PROVE Start(stream', s - 1) = Start(stream, s - 1)
    BY DEF StartBefore
  <2>1. s - 1 \in 0 .. (p - 1)
    BY <1>2
  <2> QED BY <1>2, <2>1
<1>5. keyFrame' = start /\ keyFrameRef' = stream'[start + 1].ref /\ prevKeyFrame' = StartBefore(stream', start)
  <2>1. CASE f.header
    <3>1. keyFrame = StartBefore(stream, start)
      <4>1. CASE p = 0
        BY <1>2, <1>3, <2>1, <4>1 DEF KeyInv, StartBefore
      <4>2. CASE p # 0
        <5>1. keyFrame = gopStart /\ gopStart = Start(stream, p - 1)
          BY <1>2, <1>3, <4>2 DEF KeyInv, MPEG2Inv, TypeInv
        <5> QED BY <1>2, <2>1, <4>2, <5>1 DEF StartBefore
      <4> QED BY <4>1, <4>2
    <3>2. start \in 0 .. p /\ start = p
      BY <1>2, <2>1
    <3> QED BY <1>2, <1>3, <1>4, <2>1, <3>1, <3>2 DEF KeyStep
  <2>2. CASE ~f.header
    <3>1. keyFrame = start /\ keyFrameRef = stream[start + 1].ref /\ prevKeyFrame = StartBefore(stream, start)
      <4>1. Len(stream) # 0 /\ gopStart = start
        BY <1>2, <2>2
      <4>2. KeyInv
        BY <1>3
      <4> QED BY ONLY <4>1, <4>2 DEF KeyInv
    <3>2. start \in 0 .. (p - 1)
      BY <1>2, <2>2
    <3> QED BY <1>2, <1>3, <1>4, <2>2, <3>1, <3>2 DEF KeyStep
  <2> QED BY <2>1, <2>2
<1>6. ASSUME NEW c \in 0 .. (p - 1), c # Start(stream', c)
      PROVE  c + entries'[c + 1].key =
               IF Early(stream', c) THEN StartBefore(stream', Start(stream', c)) ELSE Start(stream', c)
  <2>1. PICK s \in 0 .. (p - 1) : s = Start(stream, c) /\ s \in 0 .. p
    BY <1>2
  <2>2. Early(stream', c) <=> Early(stream, c)
    BY <1>2, <2>1 DEF Early
  <2>3. c + entries[c + 1].key = IF Early(stream, c) THEN StartBefore(stream, s) ELSE s
    BY <1>2, <1>3, <1>6, <2>1 DEF KeyInv
  <2>4. entries'[c + 1].key = entries[c + 1].key
    BY DEF FrameStep, EntriesStep
  <2> QED BY <1>2, <1>4, <2>1, <2>2, <2>3, <2>4
<1>7. ASSUME p # Start(stream', p)
      PROVE  p + entries'[p + 1].key =
               IF Early(stream', p) THEN StartBefore(stream', Start(stream', p)) ELSE Start(stream', p)
  <2>1. ~f.header
    BY <1>2, <1>7
  <2>2. entries'[p + 1].key =
          IF ~f.closed /\ keyFrame + keyFrameRef >= p THEN prevKeyFrame - p ELSE keyFrame - p
    BY <2>1 DEF FrameStep, EntriesStep
  <2>3. keyFrame = start /\ keyFrameRef = stream'[start + 1].ref /\ prevKeyFrame = StartBefore(stream', start)
    BY <1>3, <1>5, <2>1 DEF KeyStep
  <2>4. Early(stream', p) <=> (~f.closed /\ keyFrame + keyFrameRef >= p)
    BY <1>2, <2>3 DEF Early
  <2>5. keyFrame \in Int /\ prevKeyFrame \in Int
    BY DEF MPEG2Inv, TypeInv
  <2>6. p + (prevKeyFrame - p) = prevKeyFrame /\ p + (keyFrame - p) = keyFrame
    BY <1>2, <2>5
  <2> QED BY <1>2, <2>2, <2>3, <2>4, <2>6
<1>8. \A c \in 0 .. p : c = p \/ c \in 0 .. (p - 1)
  BY <1>2
<1>9. Len(stream') # 0
  BY <1>2
<1>10. \A c \in Places(stream') : c # Start(stream', c) =>
         c + entries'[c + 1].key = IF Early(stream', c) THEN StartBefore(stream', Start(stream', c))
                                   ELSE Start(stream', c)
  BY <1>2, <1>6, <1>7, <1>8
<1>11. /\ keyFrame' = gopStart' /\ keyFrameRef' = stream'[gopStart' + 1].ref
       /\ prevKeyFrame' = StartBefore(stream', gopStart')
  BY <1>2, <1>5
<1> QED BY <1>9, <1>10, <1>11 DEF KeyInv

LEMMA StructureKept ==
  ASSUME MPEG2Inv, NEW f, NEW p, NEW start, FrameStep(f, p, start)
  PROVE  StructureInv'
<1>1. Extended(f, p, start)
  BY StepExtends
<1>2. /\ p \in Nat /\ Len(stream) = p /\ Len(stream') = p + 1 /\ start \in 0 .. p
      /\ f \in StreamFrame /\ stream'[p + 1] = f
      /\ Start(stream', p) = start /\ End(stream', p) = p + 1
      /\ Places(stream') = 0 .. p /\ Places(stream) = 0 .. (p - 1)
      /\ (f.header <=> start = p)
      /\ \A c \in 0 .. (p - 1) :
           /\ stream'[c + 1] = stream[c + 1] /\ Start(stream', c) = Start(stream, c)
           /\ Start(stream, c) \in 0 .. c /\ End(stream, c) \in (c + 1) .. p
           /\ IF c >= start THEN Start(stream, c) = start /\ End(stream, c) = p /\ End(stream', c) = p + 1
              ELSE End(stream, c) <= start /\ End(stream', c) = End(stream, c)
  BY <1>1 DEF Extended
<1>3. SUFFICES ASSUME identicalGOP'
               PROVE  /\ firstGOP' <=> End(stream', 0) = Len(stream')
                      /\ Len(structure') = End(stream', 0)
                      /\ \A c \in 0 .. (End(stream', 0) - 1) : structure'[c + 1] = stream'[c + 1].type
                      /\ \A c \in Places(stream') :
                           /\ c - Start(stream', c) < End(stream', 0)
                           /\ stream'[c + 1].type = stream'[c - Start(stream', c) + 1].type
  <2>1. Len(stream') # 0
    BY <1>2
  <2> QED BY <2>1 DEF StructureInv
<1> DEFINE first == firstGOP /\ ~(f.header /\ p > 0)
<1>4. /\ identicalGOP /\ (firstGOP' <=> first)
      /\ structure' = IF first THEN Append(structure, f.type) ELSE structure
      /\ ~first => p - start + 1 \in DOMAIN structure /\ structure[p - start + 1] = f.type
  BY <1>3 DEF FrameStep, StructureStep
<1>5. structure \in Seq(FrameType) /\ f.type \in FrameType
  BY <1>2 DEF MPEG2Inv, TypeInv, StreamFrame
<1>6. CASE p = 0
  <2>1. first /\ structure = <<>> /\ start = 0
    BY <1>2, <1>6 DEF MPEG2Inv, StructureInv
  <2>2. Len(structure') = 1 /\ structure'[1] = f.type
    BY <1>4, <1>5, <2>1, AppendProperties, EmptySeq
  <2> QED BY <1>2, <1>4, <1>6, <2>1, <2>2
<1>7. CASE p > 0
  <2>1. PICK e \in 1 .. p : e = End(stream, 0)
    BY <1>2, <1>7
  <2>2. /\ firstGOP <=> e = p
        /\ Len(structure) = e
        /\ \A c \in 0 .. (e - 1) : structure[c + 1] = stream[c + 1].type
        /\ \A c \in 0 .. (p - 1) :
             /\ c - Start(stream, c) < e
             /\ stream[c + 1].type = stream[c - Start(stream, c) + 1].type
    BY <1>2, <1>4, <1>7, <2>1 DEF MPEG2Inv, StructureInv
  <2>3. first <=> (e = p /\ start < p)
    BY <1>2, <1>7, <2>2
  <2>4. End(stream', 0) = IF first THEN p + 1 ELSE e
    <3>1. 0 \in 0 .. (p - 1)
      BY <1>2, <1>7
    <3>2. CASE start = 0
      BY <1>2, <1>7, <2>1, <2>3, <3>1, <3>2
    <3>3. CASE start > 0
      BY <1>2, <1>7, <2>1, <2>3, <3>1, <3>3
    <3> QED BY <1>2, <3>2, <3>3
  <2>5. first => start = 0
    <3> SUFFICES ASSUME first PROVE start = 0
      OBVIOUS
    <3>1. 0 \in 0 .. (p - 1) /\ e = p /\ start < p
      BY <1>2, <1>7, <2>3
    <3> QED BY <1>2, <2>1, <3>1
  <2>6. ASSUME NEW c \in 0 .. (p - 1)
        PROVE  /\ c - Start(stream', c) < End(stream', 0)
               /\ stream'[c + 1].type = stream'[c - Start(stream', c) + 1].type
    <3>1. PICK s \in 0 .. c : s = Start(stream, c) /\ s = Start(stream', c)
      BY <1>2
    <3>2. c - s \in 0 .. (p - 1) /\ c - s < e /\ stream[c + 1].type = stream[c - s + 1].type
      <4>1. c - s \in 0 .. (p - 1)
        BY <1>2
      <4>2. c - Start(stream, c) < e /\ stream[c + 1].type = stream[c - Start(stream, c) + 1].type
        BY <2>2
      <4> QED BY <3>1, <4>1, <4>2
    <3>3. stream'[c - s + 1] = stream[c - s + 1] /\ stream'[c + 1] = stream[c + 1]
      BY <1>2, <3>2
    <3>4. End(stream', 0) >= e
      BY <1>2, <2>1, <2>4
    <3>5. c - s < End(stream', 0)
      BY <1>2, <2>1, <2>4, <3>2
    <3> QED BY <3>1, <3>2, <3>3, <3>5
  <2>7. CASE first
    <3>1. End(stream', 0) = p + 1 /\ start = 0 /\ e = p
      BY <2>3, <2>4, <2>5, <2>7
    <3> HIDE DEF first
    <3>2. /\ Len(structure') = p + 1 /\ structure'[p + 1] = f.type
          /\ \A i \in 1 .. p : structure'[i] = structure[i]
      <4>1. structure' = Append(structure, f.type) /\ Len(structure) = p
        BY <1>4, <2>2, <2>7, <3>1
      <4> HIDE DEF FrameType
      <4> QED BY <4>1, <1>5, AppendProperties
    <3>3. \A c \in 0 .. p : structure'[c + 1] = stream'[c + 1].type
      <4> SUFFICES ASSUME NEW c \in 0 .. p PROVE structure'[c + 1] = stream'[c + 1].type
        OBVIOUS
      <4>1. CASE c = p
        BY <4>1, <3>2, <1>2
      <4>2. CASE c # p
        <5>1. c \in 0 .. (p - 1) /\ c + 1 \in 1 .. p
          BY <1>2, <4>2
        <5> QED BY <5>1, <3>1, <3>2, <2>2, <1>2
      <4> QED BY <4>1, <4>2
    <3>4. \A c \in 0 .. p : c = p \/ c \in 0 .. (p - 1)
      BY <1>2
    <3>5. p - Start(stream', p) < End(stream', 0) /\ p - Start(stream', p) = p
      BY <1>2, <3>1
    <3>6. firstGOP' /\ End(stream', 0) - 1 = p
      BY <1>2, <1>4, <2>7, <3>1
    <3> QED BY <1>2, <2>6, <3>1, <3>2, <3>3, <3>4, <3>5, <3>6
  <2>8. CASE ~first
    <3>1. End(stream', 0) = e /\ e # p + 1 /\ structure' = structure /\ ~firstGOP'
      BY <1>2, <1>4, <2>1, <2>4, <2>8
    <3> HIDE DEF first
    <3>2. PICK i \in 1 .. e : i = p - start + 1 /\ structure[i] = f.type
      <4>1. DOMAIN structure = 1 .. e
        BY <1>5, <2>2
      <4> QED BY <1>4, <2>8, <4>1
    <3>3. i - 1 \in 0 .. (e - 1) /\ i - 1 \in 0 .. (p - 1) /\ p - start = i - 1 /\ (i - 1) + 1 = i
      BY <1>2, <2>1, <3>2
    <3>4. stream[i].type = f.type /\ stream'[i] = stream[i]
      <4>1. structure[(i - 1) + 1] = stream[(i - 1) + 1].type
        BY <2>2, <3>3
      <4>2. stream'[(i - 1) + 1] = stream[(i - 1) + 1]
        BY <1>2, <3>3
      <4> QED BY <3>2, <3>3, <4>1, <4>2
    <3>5. p - Start(stream', p) < e /\ stream'[p + 1].type = stream'[p - Start(stream', p) + 1].type
      <4>1. p - Start(stream', p) = i - 1
        BY <1>2, <3>3
      <4>2. p - Start(stream', p) + 1 = i
        BY <3>3, <4>1
      <4>3. i - 1 < e /\ stream'[p + 1].type = stream'[i].type
        BY <1>2, <3>3, <3>4
      <4> QED BY <4>1, <4>2, <4>3
    <3>6. \A c \in 0 .. (e - 1) : structure'[c + 1] = stream'[c + 1].type
      <4> SUFFICES ASSUME NEW c \in 0 .. (e - 1) PROVE structure'[c + 1] = stream'[c + 1].type
        OBVIOUS
      <4>1. c \in 0 .. (p - 1)
        BY <2>1, <1>2
      <4> QED BY <4>1, <3>1, <2>2, <1>2
    <3>7. \A c \in 0 .. p : c = p \/ c \in 0 .. (p - 1)
      BY <1>2
    <3> QED BY <1>2, <2>2, <2>6, <3>1, <3>5, <3>6, <3>7
  <2> QED BY <2>7, <2>8
<1> QED BY <1>2, <1>6, <1>7
LEMMA LongestKept ==
  ASSUME MPEG2Inv, NEW f, NEW p, NEW start, FrameStep(f, p, start)
  PROVE  LongestInv'
<1>1. Extended(f, p, start)
  BY StepExtends
<1>2. /\ p \in Nat /\ Len(stream) = p /\ Len(stream') = p + 1 /\ start \in 0 .. p
      /\ Start(stream', p) = start /\ End(stream', p) = p + 1
      /\ Places(stream') = 0 .. p /\ Places(stream) = 0 .. (p - 1)
      /\ f.header \in BOOLEAN /\ (f.header => start = p) /\ (~f.header => start < p)
      /\ \A c \in 0 .. (p - 1) :
           /\ Start(stream', c) = Start(stream, c)
           /\ Start(stream, c) \in 0 .. c /\ End(stream, c) \in (c + 1) .. p
           /\ IF c >= start THEN End(stream, c) = p /\ End(stream', c) = p + 1
              ELSE End(stream, c) <= start /\ End(stream', c) = End(stream, c)
  BY <1>1 DEF Extended, StreamFrame
<1>3. maxGOP \in Nat /\ maxGOP \in Lengths(stream) /\ \A n \in Lengths(stream) : n <= maxGOP
  BY DEF MPEG2Inv, TypeInv, LongestInv
<1>4. \A n : n \in Lengths(stream) <=>
        n = 0 \/ \E c \in 0 .. (p - 1) : End(stream, c) < p /\ n = End(stream, c) - Start(stream, c)
  BY <1>2 DEF Lengths
<1>5. \A n : n \in Lengths(stream') <=>
        n = 0 \/ \E c \in 0 .. p : End(stream', c) < p + 1 /\ n = End(stream', c) - Start(stream', c)
  BY <1>2 DEF Lengths
<1>6. \A c \in 0 .. p : End(stream', c) < p + 1 => c \in 0 .. (p - 1) /\ ~(c >= start)
  <2> SUFFICES ASSUME NEW c \in 0 .. p, End(stream', c) < p + 1 PROVE c \in 0 .. (p - 1) /\ ~(c >= start)
    OBVIOUS
  <2>1. c # p
    BY <1>2
  <2>2. c \in 0 .. (p - 1)
    BY <1>2, <2>1
  <2> QED BY <1>2, <2>2
<1>7. \A c \in 0 .. (p - 1) : c \in 0 .. p
  BY <1>2
<1>8. CASE ~f.header
  <2>1. \A c \in 0 .. (p - 1) : End(stream, c) < p => ~(c >= start)
    BY <1>2
  <2>2. \A c \in 0 .. (p - 1) : ~(c >= start) =>
          End(stream', c) = End(stream, c) /\ End(stream, c) < p /\ End(stream, c) < p + 1
    <3> SUFFICES ASSUME NEW c \in 0 .. (p - 1), ~(c >= start)
                 PROVE End(stream', c) = End(stream, c) /\ End(stream, c) < p /\ End(stream, c) < p + 1
      OBVIOUS
    <3>1. PICK e \in (c + 1) .. p : e = End(stream, c) /\ e <= start /\ End(stream', c) = e
      BY <1>2
    <3>2. start < p /\ start \in Int /\ p \in Int /\ e \in Int
      BY <1>2, <1>8
    <3>3. e < p /\ e < p + 1
      BY ONLY <3>1, <3>2
    <3> QED BY <3>1, <3>3
  <2>3. \A n : n \in Lengths(stream') <=> n \in Lengths(stream)
    BY <1>2, <1>4, <1>5, <1>6, <1>7, <2>1, <2>2
  <2>4. maxGOP' = maxGOP
    BY <1>8 DEF FrameStep, StructureStep
  <2> QED BY <1>3, <2>3, <2>4 DEF LongestInv
<1>9. CASE f.header /\ p = 0
  <2>1. gopStart = 0
    BY <1>2, <1>9 DEF MPEG2Inv, TypeInv
  <2>2. maxGOP' = maxGOP
    BY <1>3, <1>9, <2>1 DEF FrameStep, StructureStep
  <2>3. \A n : n \in Lengths(stream') <=> n = 0
    BY <1>2, <1>5, <1>6, <1>9
  <2>4. maxGOP = 0
    BY <1>2, <1>3, <1>4, <1>9
  <2> QED BY <2>2, <2>3, <2>4 DEF LongestInv
<1>10. CASE f.header /\ p > 0
  <2>1. PICK g \in 0 .. (p - 1) : g = gopStart /\ g = Start(stream, p - 1)
    <3>1. p - 1 \in 0 .. (p - 1) /\ gopStart = Start(stream, p - 1)
      BY <1>2, <1>10 DEF MPEG2Inv, TypeInv
    <3> QED BY <1>2, <3>1
  <2>2. \A c \in 0 .. (p - 1) : End(stream', c) = End(stream, c) /\ End(stream, c) < p + 1
    BY <1>2, <1>10
  <2>3. \A c \in 0 .. (p - 1) : End(stream, c) = p => Start(stream, c) = g
    <3> SUFFICES ASSUME NEW c \in 0 .. (p - 1), End(stream, c) = p PROVE Start(stream, c) = g
      OBVIOUS
    <3>1. Bounded(stream)
      BY DEF MPEG2Inv, TypeInv
    <3>2. IF c >= g THEN Start(stream, c) = g ELSE End(stream, c) <= g
      BY <1>2, <1>10, <2>1, <3>1, LastGOP
    <3> QED BY <1>2, <2>1, <3>2
  <2>4. End(stream, p - 1) = p /\ p - 1 \in 0 .. (p - 1)
    <3>1. p - 1 \in 0 .. (p - 1)
      BY <1>2, <1>10
    <3>2. End(stream, p - 1) \in (p - 1 + 1) .. p
      BY <1>2, <3>1
    <3> QED BY <1>2, <3>1, <3>2
  <2>5. \A n : n \in Lengths(stream') <=> n \in Lengths(stream) \/ n = p - g
    <3>1. \A c \in 0 .. (p - 1) : End(stream, c) < p \/ End(stream, c) = p
      BY <1>2
    <3>2. ASSUME NEW n, n \in Lengths(stream') PROVE n \in Lengths(stream) \/ n = p - g
      <4>1. CASE n = 0
        BY <1>4, <4>1
      <4>2. CASE n # 0
        <5>1. PICK c \in 0 .. (p - 1) : n = End(stream, c) - Start(stream, c)
          BY <1>2, <1>5, <1>6, <2>2, <3>2, <4>2
        <5>2. End(stream, c) = p => n = p - g
          BY <2>3, <5>1
        <5>3. End(stream, c) < p => n \in Lengths(stream)
          BY <1>4, <5>1
        <5> QED BY <3>1, <5>2, <5>3
      <4> QED BY <4>1, <4>2
    <3>3. ASSUME NEW n, n \in Lengths(stream) PROVE n \in Lengths(stream')
      <4>1. CASE n = 0
        BY <1>5, <4>1
      <4>2. CASE n # 0
        <5>1. PICK c \in 0 .. (p - 1) : n = End(stream, c) - Start(stream, c)
          BY <1>4, <3>3, <4>2
        <5>2. c \in 0 .. p /\ End(stream', c) < p + 1 /\ n = End(stream', c) - Start(stream', c)
          BY <1>2, <1>7, <2>2, <5>1
        <5> QED BY <1>5, <5>2
      <4> QED BY <4>1, <4>2
    <3>4. p - g \in Lengths(stream')
      <4>1. /\ p - 1 \in 0 .. p /\ End(stream', p - 1) < p + 1
            /\ p - g = End(stream', p - 1) - Start(stream', p - 1)
        BY <1>2, <1>7, <2>1, <2>2, <2>4
      <4> QED BY <1>5, <4>1
    <3> QED BY <3>2, <3>3, <3>4
  <2>6. maxGOP' = IF p - g > maxGOP THEN p - g ELSE maxGOP
    BY <1>10, <2>1 DEF FrameStep, StructureStep
  <2>7. \A n \in Lengths(stream) : n \in Int
    <3> SUFFICES ASSUME NEW n \in Lengths(stream), n # 0 PROVE n \in Int
      OBVIOUS
    <3>1. PICK c \in 0 .. (p - 1) : n = End(stream, c) - Start(stream, c)
      BY <1>4
    <3> QED BY <1>2, <3>1
  <2>8. PICK m \in Int : m = p - g
    BY <1>2
  <2>9. maxGOP' \in Lengths(stream')
    BY <1>3, <2>5, <2>6
  <2>10. \A n \in Lengths(stream') : n <= maxGOP'
    <3> SUFFICES ASSUME NEW n \in Lengths(stream') PROVE n <= maxGOP'
      OBVIOUS
    <3>1. (n <= maxGOP /\ n \in Int) \/ n = m
      BY <1>3, <2>5, <2>7, <2>8
    <3>2. maxGOP' = IF m > maxGOP THEN m ELSE maxGOP
      BY <2>6, <2>8
    <3>3. maxGOP \in Int
      BY <1>3
    <3> QED BY ONLY <3>1, <3>2, <3>3, m \in Int
  <2> QED BY <2>9, <2>10 DEF LongestInv
<1> QED BY <1>2, <1>8, <1>9, <1>10

-----------------------------------------------------------------------------
LEMMA InitInv == Init => MPEG2Inv
<1> SUFFICES ASSUME Init PROVE MPEG2Inv
  OBVIOUS
<1>1. /\ stream = <<>> /\ Len(stream) = 0 /\ Places(stream) = {} /\ MaxFrames \in Nat /\ Unknown \in Nat
      /\ gopStart = 0 /\ Current = {}
  BY MPEG2Assumption DEF Init, Places, Current
<1>2. TypeInv
  <2>1. Bounded(stream)
    BY <1>1 DEF Bounded
  <2>2. gop \in [frames : Seq(ShapeFrame), closed : BOOLEAN, done : Nat]
    BY DEF Init
  <2>3. entries \in Seq(Entry) /\ Len(entries) = Len(stream) /\ structure \in Seq(FrameType)
    BY <1>1 DEF Init
  <2>4. offsets \in [0 .. (MaxFrames - 1) -> Int]
    BY <1>1 DEF Init, NoOffsets
  <2>5. /\ keyFrame \in Int /\ prevKeyFrame \in Int /\ keyFrameRef \in Nat /\ maxGOP \in Nat
    BY DEF Init
  <2>7. firstGOP \in BOOLEAN /\ identicalGOP \in BOOLEAN /\ gopClosed \in BOOLEAN
    BY Zenon DEF Init
  <2>6. Len(stream) <= MaxFrames
    BY <1>1
  <2> QED BY <1>1, <2>1, <2>2, <2>3, <2>4, <2>5, <2>6, <2>7 DEF TypeInv
<1>3. GOPInv /\ StreamInv /\ OffsetsInv /\ LeadInv /\ KeyInv /\ StructureInv
  BY <1>1 DEF Init, GOPInv, StreamInv, OffsetsInv, LeadInv, KeyInv, StructureInv
<1>4. RequiredInv
  BY <1>1 DEF Init, RequiredInv
<1>5. LongestInv
  BY <1>1 DEF Init, LongestInv, Lengths
<1> QED BY <1>2, <1>3, <1>4, <1>5 DEF MPEG2Inv

LEMMA FrameStepKeepsInv ==
  ASSUME MPEG2Inv, NEW f, NEW p, NEW start, FrameStep(f, p, start)
  PROVE  MPEG2Inv'
<1>1. TypeInv' /\ GOPInv' /\ StreamInv' /\ OffsetsInv' /\ LeadInv'
  BY TypeKept, GOPKept, StreamKept, OffsetsKept, LeadKept
<1>2. RequiredInv' /\ KeyInv' /\ StructureInv' /\ LongestInv'
  BY RequiredKept, KeyKept, StructureKept, LongestKept
<1> QED BY <1>1, <1>2 DEF MPEG2Inv

LEMMA StartGOPKeepsInv ==
  ASSUME MPEG2Inv, NEW shape \in Shapes, StartGOP(shape)
  PROVE  MPEG2Inv'
<1> DEFINE frame == Parsed(shape.frames[1])
           f == [frame EXCEPT !.header = TRUE, !.closed = shape.closed]
<1>1. /\ shape.closed \in BOOLEAN /\ shape.frames \in Seq(ShapeFrame) /\ Len(shape.frames) \in 1 .. Unknown
      /\ \A i \in DOMAIN shape.frames : shape.frames[i].type = "I" <=> i = 1
  BY MPEG2Assumption DEF ShapeFrame, FrameType
<1>2. 1 \in DOMAIN shape.frames /\ 1 \in 1 .. Len(shape.frames)
  BY <1>1
<1>3. PICK first \in ShapeFrame : first = shape.frames[1]
  BY <1>1, <1>2
<1>4. frame \in StreamFrame /\ frame.type = "I" /\ frame.ref = shape.frames[1].ref
  BY <1>1, <1>2, <1>3 DEF Parsed, ShapeFrame, StreamFrame
<1>5. f.ref = shape.frames[1].ref /\ f.header = TRUE
  BY <1>3 DEF Parsed
<1>6. GOPStep(f)
  <2>1. /\ gop' \in [frames : Seq(ShapeFrame), closed : BOOLEAN, done : Nat]
        /\ gop'.frames = shape.frames /\ gop'.done = 1
    BY <1>1 DEF StartGOP
  <2> HIDE DEF f
  <2> QED BY <1>2, <1>5, <2>1 DEF GOPStep
<1>7. ProcessFrame(frame, TRUE, shape.closed) /\ position < MaxFrames
  BY DEF StartGOP
<1> HIDE DEF frame, f
<1>8. PICK g : g = f /\ g = [frame EXCEPT !.header = TRUE, !.closed = shape.closed]
  BY DEF f
<1>9. FrameStep(g, position, StartFrom(TRUE))
  BY <1>1, <1>4, <1>6, <1>7, <1>8, ProcessFrameSteps
<1> QED BY <1>9, FrameStepKeepsInv

LEMMA NextFrameKeepsInv ==
  ASSUME MPEG2Inv, NextFrame
  PROVE  MPEG2Inv'
<1>1. PICK i \in (gop.done + 1) .. Len(gop.frames) :
        /\ gop' = [gop EXCEPT !.done = i]
        /\ ProcessFrame(Parsed(gop.frames[i]), FALSE, gopClosed)
  BY DEF NextFrame
<1> DEFINE frame == Parsed(gop.frames[i])
           f == [frame EXCEPT !.header = FALSE, !.closed = gopClosed]
<1>2. /\ gop \in [frames : Seq(ShapeFrame), closed : BOOLEAN, done : Nat] /\ gopClosed \in BOOLEAN
      /\ Len(stream) \in Nat
  BY DEF MPEG2Inv, TypeInv, Bounded
<1>3. i \in Nat /\ i > gop.done /\ i \in 1 .. Len(gop.frames)
  BY <1>2
<1>4. Len(stream) > 0
  <2> SUFFICES ASSUME Len(stream) = 0 PROVE FALSE
    BY <1>2
  <2>1. gop.frames = <<>>
    BY DEF MPEG2Inv, GOPInv
  <2> QED BY <1>3, <2>1
<1>5. PICK s \in Shapes : gop.frames = s.frames
  BY <1>4 DEF MPEG2Inv, GOPInv
<1>6. \A j \in DOMAIN s.frames : s.frames[j].type = "I" <=> j = 1
  BY MPEG2Assumption
<1>7. gop.done >= 1 /\ i # 1 /\ i \in DOMAIN s.frames
  <2>1. gop.done >= 1
    BY <1>2, <1>4 DEF MPEG2Inv, GOPInv
  <2> QED BY <1>2, <1>3, <1>5, <2>1
<1>8. PICK next \in ShapeFrame : next = gop.frames[i] /\ next.type # "I"
  BY <1>2, <1>3, <1>5, <1>6, <1>7
<1>9. frame \in StreamFrame /\ frame.type # "I"
  BY <1>8 DEF Parsed, ShapeFrame, StreamFrame
<1>10. f.ref = gop.frames[i].ref /\ f.header = FALSE
  BY <1>8 DEF Parsed
<1>11. GOPStep(f)
  <2>1. /\ gop' \in [frames : Seq(ShapeFrame), closed : BOOLEAN, done : Nat]
        /\ gop'.frames = gop.frames /\ gop'.done = i
    BY <1>1, <1>2, <1>3
  <2> HIDE DEF f
  <2> QED BY <1>3, <1>5, <1>10, <2>1 DEF GOPStep
<1>12. ProcessFrame(frame, FALSE, gopClosed) /\ position < MaxFrames
  BY <1>1 DEF NextFrame
<1> HIDE DEF frame, f
<1>13. PICK g : g = f /\ g = [frame EXCEPT !.header = FALSE, !.closed = gopClosed]
  BY DEF f
<1>14. FrameStep(g, position, StartFrom(FALSE))
  BY <1>2, <1>4, <1>9, <1>11, <1>12, <1>13, ProcessFrameSteps
<1> QED BY <1>14, FrameStepKeepsInv

LEMMA StutterKeepsInv == MPEG2Inv /\ UNCHANGED vars => MPEG2Inv'
<1> SUFFICES ASSUME MPEG2Inv, UNCHANGED vars PROVE MPEG2Inv'
  OBVIOUS
<1>1. /\ UNCHANGED <<stream, gop, keyFrame, prevKeyFrame, keyFrameRef, offsets, gopStart>>
      /\ UNCHANGED <<gopClosed, structure, firstGOP, identicalGOP, maxGOP, entries, required, ignored>>
  BY DEF vars
<1>2. Current' = Current
  BY <1>1 DEF Current
<1>3. TypeInv' /\ GOPInv' /\ StreamInv'
  BY <1>1, <1>2 DEF MPEG2Inv, TypeInv, GOPInv, StreamInv
<1>4. OffsetsInv' /\ LeadInv' /\ RequiredInv'
  BY <1>1, <1>2 DEF MPEG2Inv, OffsetsInv, LeadInv, RequiredInv
<1>5. KeyInv' /\ StructureInv' /\ LongestInv'
  BY <1>1, <1>2 DEF MPEG2Inv, KeyInv, StructureInv, LongestInv
<1> QED BY <1>3, <1>4, <1>5 DEF MPEG2Inv

(* Everything the properties need holds whatever GOPs come and wherever     *)
(* they are cut.                                                            *)
THEOREM MPEG2Invariant == Spec => []MPEG2Inv
<1>1. Init => MPEG2Inv
  BY InitInv
<1>2. MPEG2Inv /\ [Next]_vars => MPEG2Inv'
  <2> SUFFICES ASSUME MPEG2Inv, [Next]_vars PROVE MPEG2Inv'
    OBVIOUS
  <2>1. CASE \E shape \in Shapes : StartGOP(shape)
    BY <2>1, StartGOPKeepsInv
  <2>2. CASE NextFrame
    BY <2>2, NextFrameKeepsInv
  <2>3. CASE Done
    BY <2>3, StutterKeepsInv DEF Done
  <2>4. CASE UNCHANGED vars
    BY <2>4, StutterKeepsInv
  <2> QED BY <2>1, <2>2, <2>3, <2>4 DEF Next
<1> QED BY <1>1, <1>2, PTL DEF Spec

-----------------------------------------------------------------------------
(* Every frame's place of display: the index entry there leads to the       *)
(* frame, however the GOPs are cut (TemporalOffsetsLead).                   *)
THEOREM OffsetsLeadToTheFrame == Spec => []TemporalOffsetsLead
<1>1. MPEG2Inv => TemporalOffsetsLead
  BY DEF MPEG2Inv, LeadInv, TemporalOffsetsLead, DisplayedAt, Shown,
         Positions, position, Places, StartOf, Start, GOPEnd, End, Coded
<1> QED BY <1>1, MPEG2Invariant, PTL

(* The entries that are waited for or were given up are those at which no   *)
(* frame is displayed, and the check at the end of the file agrees with     *)
(* what the index table waits for (RequiredUntilDisplayed).                 *)
THEOREM WaitsForWhatIsMissing == Spec => []RequiredUntilDisplayed
<1>1. MPEG2Inv => RequiredUntilDisplayed
  <2> SUFFICES ASSUME MPEG2Inv PROVE RequiredUntilDisplayed
    OBVIOUS
  <2> DEFINE p == Len(stream)
  <2>1. /\ p \in Nat /\ position = p /\ Current = gopStart .. (p - 1) /\ Places(stream) = 0 .. (p - 1)
        /\ required = {q \in Current : offsets[q - gopStart] = Unknown}
        /\ ignored = {q \in Places(stream) : Vacant(stream, q) /\ q < gopStart}
    BY DEF MPEG2Inv, TypeInv, Bounded, position, Current, Places, RequiredInv
  <2>2. IF p = 0 THEN gopStart = 0 ELSE gopStart \in 0 .. (p - 1)
    <3>1. CASE p = 0
      BY <3>1 DEF MPEG2Inv, TypeInv
    <3>2. CASE p # 0
      <4>1. gopStart = Start(stream, p - 1) /\ Bounded(stream)
        BY <3>2 DEF MPEG2Inv, TypeInv
      <4>2. p - 1 \in Places(stream)
        BY <2>1, <3>2
      <4>3. IsStart(stream, p - 1, Start(stream, p - 1))
        BY <4>1, <4>2 DEF Bounded
      <4> QED BY <3>2, <4>1, <4>3 DEF IsStart
    <3> QED BY <3>1, <3>2
  <2>3. NotDisplayed = {q \in Places(stream) : Vacant(stream, q)}
    BY DEF NotDisplayed, Vacant, DisplayedAt, Shown, Positions, position, Places, StartOf, Start, GOPEnd, End, Coded
  <2>4. required = {q \in Current : Vacant(stream, q)}
    <3>1. ASSUME NEW q \in Current PROVE Vacant(stream, q) <=> offsets[q - gopStart] = Unknown
      <4>1. Len(stream) > 0
        BY <2>1, <2>2
      <4> QED BY <4>1, VacantIs DEF MPEG2Inv
    <3> QED BY <2>1, <3>1
  <2>5. \A q : q \in 0 .. (p - 1) <=> (q \in 0 .. (p - 1) /\ q < gopStart) \/ q \in gopStart .. (p - 1)
    BY <2>1, <2>2
  <2>6. required \cup ignored = NotDisplayed
    BY <2>1, <2>3, <2>4, <2>5
  <2>7. OffsetsComplete(0) <=> required = {}
    <3>1. PICK g \in Nat : g = gopStart /\ g <= p
      BY <2>1, <2>2
    <3>2. required = {q \in g .. (p - 1) : offsets[q - g] = Unknown}
      BY <2>1, <3>1
    <3>3. OffsetsComplete(0) <=> \A i \in 0 .. (p - g - 1) : offsets[i] # Unknown
      <4>1. p - g + 0 - 1 = p - g - 1
        BY <2>1, <3>1
      <4> QED BY <2>1, <3>1, <4>1 DEF OffsetsComplete
    <3>4. ASSUME \A i \in 0 .. (p - g - 1) : offsets[i] # Unknown, NEW q \in g .. (p - 1)
          PROVE  offsets[q - g] # Unknown
      <4>1. q - g \in 0 .. (p - g - 1)
        BY <2>1, <3>1
      <4> QED BY <3>4, <4>1
    <3>5. ASSUME \A q \in g .. (p - 1) : offsets[q - g] # Unknown, NEW i \in 0 .. (p - g - 1)
          PROVE  offsets[i] # Unknown
      <4>1. g + i \in g .. (p - 1) /\ (g + i) - g = i
        BY <2>1, <3>1
      <4> QED BY <3>5, <4>1
    <3> QED BY <3>2, <3>3, <3>4, <3>5
  <2>8. OffsetsComplete(0) \in BOOLEAN
    BY DEF OffsetsComplete
  <2> QED BY <2>6, <2>7, <2>8 DEF RequiredUntilDisplayed
<1> QED BY <1>1, MPEG2Invariant, PTL

(* The GOPs the descriptor calls identical are, and the longest GOP is the  *)
(* longest that is followed by another (GOPsDescribed).                     *)
THEOREM DescribesItsGOPs == Spec => []GOPsDescribed
<1>1. MPEG2Inv => GOPsDescribed
  <2> SUFFICES ASSUME MPEG2Inv PROVE GOPsDescribed
    OBVIOUS
  <2>1. identicalGOP => \A c \in Positions :
          LET first == c - StartOf(c) IN
          first < GOPEnd(0) /\ Coded(c).type = Coded(first).type
    <3> SUFFICES ASSUME identicalGOP, NEW c \in Places(stream)
                 PROVE  /\ c - Start(stream, c) < End(stream, 0)
                        /\ stream[c + 1].type = stream[c - Start(stream, c) + 1].type
      BY DEF Positions, position, Places, StartOf, Start, GOPEnd, End, Coded
    <3>1. Len(stream) > 0
      BY DEF Places, MPEG2Inv, TypeInv, Bounded
    <3> QED BY <3>1 DEF MPEG2Inv, StructureInv
  <2>2. {0} \cup {GOPEnd(c) - StartOf(c) : c \in {d \in Positions : GOPEnd(d) < position}} = Lengths(stream)
    BY DEF Lengths, Positions, position, Places, StartOf, Start, GOPEnd, End, Coded
  <2>3. maxGOP \in Lengths(stream) /\ \A n \in Lengths(stream) : n <= maxGOP
    BY DEF MPEG2Inv, LongestInv
  <2>4. \A n \in Lengths(stream) : n \in Int
    <3>1. /\ stream \in Seq(StreamFrame) /\ \A c \in Places(stream) :
               IsStart(stream, c, Start(stream, c)) /\ IsEnd(stream, c, End(stream, c))
      BY DEF MPEG2Inv, TypeInv, Bounded
    <3>2. \A c \in Places(stream) : Start(stream, c) \in Int /\ End(stream, c) \in Int
      BY <3>1 DEF IsStart, IsEnd, Places
    <3> QED BY <3>2 DEF Lengths
  <2>5. Max(Lengths(stream)) = maxGOP
    <3> DEFINE S == Lengths(stream)
    <3>1. maxGOP \in S /\ maxGOP \in Int /\ \A y \in S : maxGOP >= y
      BY <2>3, <2>4
    <3>2. \A x \in S : (\A y \in S : x >= y) => x = maxGOP
      <4> SUFFICES ASSUME NEW x \in S, \A y \in S : x >= y PROVE x = maxGOP
        OBVIOUS
      <4>1. x \in Int /\ x >= maxGOP /\ maxGOP >= x
        BY <2>4, <3>1
      <4> QED BY <3>1, <4>1
    <3> HIDE DEF S
    <3>3. (CHOOSE x \in S : \A y \in S : x >= y) = maxGOP
      BY <3>1, <3>2
    <3> QED BY <3>3 DEF Max, S
  <2> QED BY <2>1, <2>2, <2>5 DEF GOPsDescribed
<1> QED BY <1>1, MPEG2Invariant, PTL

(* The frames displayed before the I frame of their GOP are displayed at    *)
(* different places, so there are at most as many as places before it.      *)
LEMMA LeadersBounded ==
  ASSUME MPEG2Inv, NEW c \in Places(stream), Leads(stream, c)
  PROVE  c - Start(stream, c) <= stream[Start(stream, c) + 1].ref
<1>1. PICK s \in 0 .. c : s = Start(stream, c)
  BY DEF MPEG2Inv, TypeInv, Bounded, IsStart
<1>2. stream \in Seq(StreamFrame) /\ Bounded(stream) /\ Places(stream) = 0 .. (Len(stream) - 1) /\ Len(stream) \in Nat
  BY DEF MPEG2Inv, TypeInv, Bounded, Places
<1>3. PICK e \in (c + 1) .. Len(stream) : e = End(stream, c)
  BY <1>2 DEF Bounded, IsEnd
<1>4. \A b \in s .. c : b \in Places(stream) /\ Start(stream, b) = s
  <2>1. \A b \in s .. c : b \in s .. (e - 1)
    BY <1>1, <1>2, <1>3
  <2> QED BY <1>1, <1>2, <1>3, <2>1, SameGOP
<1>5. \A b \in s .. c : stream[b + 1].ref \in Nat
  <2> SUFFICES ASSUME NEW b \in s .. c PROVE stream[b + 1].ref \in Nat
    OBVIOUS
  <2>1. stream[b + 1] \in StreamFrame
    <3>1. b + 1 \in 1 .. Len(stream)
      BY <1>2, <1>4
    <3> QED BY <1>2, <3>1, ElementOfSeq
  <2> QED BY <2>1 DEF StreamFrame
<1>6. PICK k \in Nat : k = stream[s + 1].ref
  <2>1. s \in s .. c
    BY <1>1, <1>2
  <2> QED BY <1>5, <2>1
<1> DEFINE B == (s + 1) .. c
           R == 0 .. (k - 1)
           place == [b \in B |-> stream[b + 1].ref]
<1>7. \A b \in B : stream[b + 1].ref \in R
  <2> SUFFICES ASSUME NEW b \in B PROVE stream[b + 1].ref \in R
    OBVIOUS
  <2>1. b \in s .. c /\ c \in s .. c /\ s < b
    BY <1>1, <1>2
  <2>2. Leads(stream, b)
    <3>1. b = c => Leads(stream, b)
      OBVIOUS
    <3>2. b # c => b < c
      BY <1>2, <2>1
    <3> QED BY <1>1, <1>4, <2>1, <3>1, <3>2 DEF MPEG2Inv, StreamInv
  <2>3. stream[b + 1].ref < k /\ stream[b + 1].ref \in Nat
    BY <1>4, <1>5, <1>6, <2>1, <2>2 DEF Leads
  <2> QED BY <2>3
<1>8. \A a, b \in B : a # b => stream[a + 1].ref # stream[b + 1].ref
  <2>1. \A b \in B : b \in s .. c
    BY <1>1
  <2> QED BY <1>4, <2>1 DEF MPEG2Inv, StreamInv
<1>9. IsFiniteSet(R) /\ Cardinality(R) = k
  <2>1. PICK m \in Int : m = k - 1
    BY <1>6
  <2>2. IsFiniteSet(0 .. m) /\ Cardinality(0 .. m) = IF 0 > m THEN 0 ELSE m - 0 + 1
    BY FS_Interval
  <2>3. (IF 0 > m THEN 0 ELSE m - 0 + 1) = k
    BY <1>6, <2>1
  <2> QED BY <2>1, <2>2, <2>3
<1>10. IsFiniteSet(B) /\ Cardinality(B) = c - s
  <2>1. s + 1 \in Int /\ c \in Int
    BY <1>1, <1>2
  <2>2. IsFiniteSet(B) /\ Cardinality(B) = IF s + 1 > c THEN 0 ELSE c - (s + 1) + 1
    BY <2>1, FS_Interval
  <2> QED BY <1>1, <1>2, <2>2
<1>11. place \in Injection(B, R)
  BY <1>7, <1>8 DEF Injection, IsInjective
<1> HIDE DEF B, R, place
<1>12. Cardinality(B) <= Cardinality(R)
  BY <1>9, <1>11, FS_Injection
<1> QED BY <1>1, <1>6, <1>9, <1>10, <1>12

(* Decoding a frame starts at the I frame that its entry leads to, for      *)
(* every frame that follows it in the GOP's display order, or leads it with *)
(* the leading frames before it uncut (KeyFramesDecodable).                 *)
THEOREM KeyFramesLead == Spec => []KeyFramesDecodable
<1>1. MPEG2Inv => KeyFramesDecodable
  <2> SUFFICES ASSUME MPEG2Inv, NEW c \in Places(stream), stream[c + 1].type # "I",
                      \/ Leads(stream, c)
                      \/ Cardinality({b \in Start(stream, c) .. c : Leads(stream, b)})
                           = stream[Start(stream, c) + 1].ref
               PROVE  c + entries[c + 1].key =
                        IF stream[c + 1].closed \/ ~Leads(stream, c) THEN Start(stream, c)
                        ELSE StartBefore(stream, Start(stream, c))
    BY DEF KeyFramesDecodable, Leading, LeadingUncut, Leads, StartBefore, Positions, position, Places, StartOf, Start, GOPEnd, End, Coded
  <2>1. /\ Places(stream) = 0 .. (Len(stream) - 1) /\ Len(stream) \in Nat /\ Bounded(stream)
        /\ stream \in Seq(StreamFrame)
    BY DEF MPEG2Inv, TypeInv, Bounded, Places
  <2>2. PICK s \in 0 .. c : s = Start(stream, c)
    BY <2>1 DEF Bounded, IsStart
  <2>3. c # s
    BY <2>2 DEF MPEG2Inv, StreamInv
  <2>4. c + entries[c + 1].key = IF Early(stream, c) THEN StartBefore(stream, s) ELSE s
    BY <2>2, <2>3 DEF MPEG2Inv, KeyInv
  <2>5. PICK k \in Nat : k = stream[s + 1].ref
    <3>1. s + 1 \in 1 .. Len(stream)
      BY <2>1
    <3>2. stream[s + 1] \in StreamFrame
      BY <2>1, <3>1, ElementOfSeq
    <3> QED BY <3>2 DEF StreamFrame
  <2>6. stream[c + 1].closed \in BOOLEAN
    <3>1. c + 1 \in 1 .. Len(stream)
      BY <2>1
    <3>2. stream[c + 1] \in StreamFrame
      BY <2>1, <3>1, ElementOfSeq
    <3> QED BY <3>2 DEF StreamFrame
  <2>7. Early(stream, c) <=> ~stream[c + 1].closed /\ s + k >= c
    BY <2>2, <2>5 DEF Early
  <2>8. CASE Leads(stream, c)
    <3>1. c - s <= k
      BY <2>2, <2>5, <2>8, LeadersBounded
    <3>2. s + k >= c
      BY <2>1, <3>1
    <3> QED BY <2>2, <2>4, <2>6, <2>7, <2>8, <3>2
  <2>9. CASE ~Leads(stream, c)
    <3> DEFINE L == {b \in s .. c : Leads(stream, b)}
               B == (s + 1) .. (c - 1)
    <3>1. Cardinality(L) = k
      BY <2>2, <2>5, <2>9
    <3>2. ~Leads(stream, s)
      <4>1. Start(stream, s) = s
        <5>1. End(stream, c) \in (c + 1) .. Len(stream)
          BY <2>1 DEF Bounded, IsEnd
        <5>2. s \in Start(stream, c) .. (End(stream, c) - 1)
          BY <2>1, <2>2, <5>1
        <5> QED BY <2>1, <2>2, <5>2, SameGOP
      <4> QED BY <2>5, <4>1 DEF Leads
    <3>3. L \in SUBSET B
      <4> SUFFICES ASSUME NEW b \in L PROVE b \in B
        OBVIOUS
      <4>1. b \in s .. c /\ b # s /\ b # c
        BY <2>9, <3>2
      <4> QED BY <2>1, <4>1
    <3>4. IsFiniteSet(B) /\ Cardinality(B) = (c - 1) - s
      <4>1. PICK lo \in Int, hi \in Int : lo = s + 1 /\ hi = c - 1
        BY <2>1
      <4>2. IsFiniteSet(lo .. hi) /\ Cardinality(lo .. hi) = IF lo > hi THEN 0 ELSE hi - lo + 1
        BY FS_Interval
      <4>3. (IF lo > hi THEN 0 ELSE hi - lo + 1) = (c - 1) - s
        BY <2>1, <2>3, <4>1
      <4> QED BY <4>1, <4>2, <4>3
    <3> HIDE DEF L, B
    <3>5. Cardinality(L) <= Cardinality(B)
      BY <3>3, <3>4, FS_Subset
    <3>6. ~(s + k >= c)
      BY <2>1, <3>1, <3>4, <3>5
    <3> QED BY <2>2, <2>4, <2>7, <2>9, <3>6
  <2> QED BY <2>8, <2>9
<1> QED BY <1>1, MPEG2Invariant, PTL
=============================================================================
