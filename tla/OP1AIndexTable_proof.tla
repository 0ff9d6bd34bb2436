------------------------ MODULE OP1AIndexTable_proof ------------------------
(***************************************************************************)
(* Lemmas about lists of index table segments: their types, what follows   *)
(* from a list being consecutive when it is extended, joined to another or *)
(* written, and how the operators of OP1AIndexTable change a segment; and  *)
(* lemmas about the sums that sizes and offsets are.                       *)
(***************************************************************************)
EXTENDS OP1AIndexTable, SequenceTheorems, FiniteSetTheorems, WellFoundedInduction, TLAPS

-----------------------------------------------------------------------------
(* Lists of segments. *)

IsSegment(s) ==
  s \in [start : Nat, duration : Nat, byteCount : {s.byteCount}, deltas : {s.deltas},
         entries : Seq(Range(s.entries))]
IsTable(list) ==
  /\ list \in Seq(Range(list))
  /\ \A i \in 1 .. Len(list) : IsSegment(list[i])

(* The entries of a list are right but at the positions in open.           *)
Right(list, open) ==
  \A i \in 1 .. Len(list) : \A k \in 1 .. Len(list[i].entries) :
    LET p == list[i].start + k - 1 IN
    p \notin open => Shown(list[i].entries[k]) = Final[p]

(* No entries at all, as in a constant table.                              *)
NoEntries(list) == \A i \in 1 .. Len(list) : list[i].entries = <<>>

-----------------------------------------------------------------------------
(* Lemmas about lists of segments. *)

LEMMA TableLen ==
  ASSUME NEW list, IsTable(list)
  PROVE  /\ Len(list) \in Nat /\ DOMAIN list = 1 .. Len(list)
         /\ list = <<>> <=> Len(list) = 0
<1>1. list \in Seq(Range(list))
  BY DEF IsTable
<1> QED BY <1>1, LenProperties, EmptySeq

LEMMA EmptyTable == IsTable(<<>>) /\ NoEntries(<<>>) /\ \A open : Right(<<>>, open)
  BY EmptySeq DEF IsTable, NoEntries, Right

LEMMA TableOf ==
  ASSUME NEW list, NEW S, list \in Seq(S), \A i \in 1 .. Len(list) : IsSegment(list[i])
  PROVE  IsTable(list)
  BY SeqOfRange DEF IsTable

LEMMA OneSegment ==
  ASSUME NEW s, IsSegment(s)
  PROVE  IsTable(<<s>>) /\ Len(<<s>>) = 1 /\ <<s>>[1] = s
<1>1. <<s>> \in Seq({s}) /\ Len(<<s>>) = 1 /\ <<s>>[1] = s
  OBVIOUS
<1>2. \A i \in 1 .. 1 : i = 1
  OBVIOUS
<1> QED BY <1>1, <1>2, TableOf

LEMMA TableAppend ==
  ASSUME NEW list, IsTable(list), NEW s, IsSegment(s)
  PROVE  /\ IsTable(Append(list, s)) /\ Len(Append(list, s)) = Len(list) + 1
         /\ \A i \in 1 .. Len(list) : Append(list, s)[i] = list[i]
         /\ Append(list, s)[Len(list) + 1] = s
<1> DEFINE S == Range(list) \cup {s}
           t == Append(list, s)
<1>1. list \in Seq(S) /\ s \in S /\ Len(list) \in Nat
  <2>1. list \in Seq(Range(list)) /\ Range(list) \subseteq S
    BY DEF IsTable
  <2> HIDE DEF S
  <2> QED BY <2>1, SeqMonotonic, LenProperties DEF S
<1> HIDE DEF S
<1>2. /\ t \in Seq(S) /\ Len(t) = Len(list) + 1
      /\ \A i \in 1 .. Len(list) : t[i] = list[i]
      /\ t[Len(list) + 1] = s
  BY <1>1, AppendProperties
<1> HIDE DEF t
<1>3. \A i \in 1 .. Len(t) : i \in 1 .. Len(list) \/ i = Len(list) + 1
  BY <1>1, <1>2
<1>4. \A i \in 1 .. Len(t) : IsSegment(t[i])
  BY <1>2, <1>3 DEF IsTable
<1>5. IsTable(t)
  BY <1>2, <1>4, TableOf
<1> QED BY <1>2, <1>5 DEF t

LEMMA TableExcept ==
  ASSUME NEW list, IsTable(list), NEW n \in 1 .. Len(list), NEW s, IsSegment(s)
  PROVE  /\ IsTable([list EXCEPT ![n] = s]) /\ Len([list EXCEPT ![n] = s]) = Len(list)
         /\ \A i \in 1 .. Len(list) : [list EXCEPT ![n] = s][i] = IF i = n THEN s ELSE list[i]
<1> DEFINE S == Range(list) \cup {s}
           t == [list EXCEPT ![n] = s]
<1>1. list \in Seq(S) /\ s \in S /\ Len(list) \in Nat
  <2>1. list \in Seq(Range(list)) /\ Range(list) \subseteq S
    BY DEF IsTable
  <2> HIDE DEF S
  <2> QED BY <2>1, SeqMonotonic, LenProperties DEF S
<1> HIDE DEF S
<1>2. /\ t \in Seq(S) /\ Len(t) = Len(list)
      /\ \A i \in 1 .. Len(list) : t[i] = IF i = n THEN s ELSE list[i]
  BY <1>1, ExceptSeq
<1> HIDE DEF t
<1>4. \A i \in 1 .. Len(t) : IsSegment(t[i])
  BY <1>2 DEF IsTable
<1>5. IsTable(t)
  BY <1>2, <1>4, TableOf
<1> QED BY <1>2, <1>5 DEF t

LEMMA TableConcat ==
  ASSUME NEW a, IsTable(a), NEW b, IsTable(b)
  PROVE  /\ IsTable(a \o b) /\ Len(a \o b) = Len(a) + Len(b)
         /\ \A i \in 1 .. Len(a) : (a \o b)[i] = a[i]
         /\ \A i \in 1 .. Len(b) : (a \o b)[Len(a) + i] = b[i]
<1> DEFINE S == Range(a) \cup Range(b)
           t == a \o b
<1>1. a \in Seq(S) /\ b \in Seq(S) /\ Len(a) \in Nat /\ Len(b) \in Nat
  <2>1. /\ a \in Seq(Range(a)) /\ Range(a) \subseteq S
        /\ b \in Seq(Range(b)) /\ Range(b) \subseteq S
    BY DEF IsTable
  <2> HIDE DEF S
  <2> QED BY <2>1, SeqMonotonic, LenProperties
<1> HIDE DEF S
<1>2. /\ t \in Seq(S) /\ Len(t) = Len(a) + Len(b)
      /\ \A i \in 1 .. Len(a) + Len(b) : t[i] = IF i <= Len(a) THEN a[i] ELSE b[i - Len(a)]
  BY <1>1, ConcatProperties
<1> HIDE DEF t
<1>3. \A i \in 1 .. Len(a) : t[i] = a[i]
  BY <1>1, <1>2
<1>4. \A i \in 1 .. Len(b) : t[Len(a) + i] = b[i]
  BY <1>1, <1>2
<1>5. ASSUME NEW i \in 1 .. Len(t) PROVE IsSegment(t[i])
  <2>1. CASE i <= Len(a)
    BY <2>1, <1>1, <1>3 DEF IsTable
  <2>2. CASE i > Len(a)
    <3>1. i - Len(a) \in 1 .. Len(b) /\ t[i] = b[i - Len(a)]
      BY <2>2, <1>1, <1>2
    <3> QED BY <3>1 DEF IsTable
  <2> QED BY <2>1, <2>2, <1>1
<1>6. IsTable(t)
  BY <1>2, <1>5, TableOf
<1> QED BY <1>2, <1>3, <1>4, <1>6 DEF t

(* The entries of two lists, one after the other.                           *)
LEMMA ConcatRight ==
  ASSUME NEW a, IsTable(a), NEW b, IsTable(b), NEW open, Right(a, open), Right(b, open)
  PROVE  Right(a \o b, open)
<1> DEFINE t == a \o b
<1>1. /\ Len(t) = Len(a) + Len(b) /\ Len(a) \in Nat /\ Len(b) \in Nat
      /\ \A i \in 1 .. Len(a) : t[i] = a[i]
      /\ \A i \in 1 .. Len(b) : t[Len(a) + i] = b[i]
  BY TableConcat, TableLen
<1> HIDE DEF t
<1>2. SUFFICES ASSUME NEW i \in 1 .. Len(t)
               PROVE  \/ \E j \in 1 .. Len(a) : t[i] = a[j]
                      \/ \E j \in 1 .. Len(b) : t[i] = b[j]
  BY DEF Right, t
<1>3. CASE i <= Len(a)
  BY <1>1, <1>3
<1>4. CASE i > Len(a)
  <2>1. i - Len(a) \in 1 .. Len(b) /\ i = Len(a) + (i - Len(a))
    BY <1>1, <1>4
  <2> QED BY <1>1, <2>1
<1> QED BY <1>1, <1>3, <1>4

LEMMA MoreOpen ==
  ASSUME NEW list, NEW open, NEW more, Right(list, open), open \subseteq more
  PROVE  Right(list, more)
  BY DEF Right

LEMMA NoEntriesRight ==
  ASSUME NEW list, NoEntries(list), NEW open
  PROVE  Right(list, open)
<1>1. \A k \in 1 .. Len(<<>>) : FALSE
  OBVIOUS
<1> QED BY <1>1 DEF NoEntries, Right

(* A change of what the entries of a list do not depend on.                 *)
SameEntries(a, b) ==
  /\ Len(b) = Len(a)
  /\ \A i \in 1 .. Len(a) : b[i].start = a[i].start /\ b[i].entries = a[i].entries

LEMMA SameEntriesRight ==
  ASSUME NEW a, NEW b, SameEntries(a, b), NEW open, Right(a, open)
  PROVE  Right(b, open)
<1> SUFFICES ASSUME NEW i \in 1 .. Len(a), NEW k \in 1 .. Len(a[i].entries),
                    a[i].start + k - 1 \notin open
             PROVE  Shown(b[i].entries[k]) = Final[a[i].start + k - 1]
  BY DEF SameEntries, Right
<1>1. Shown(a[i].entries[k]) = Final[a[i].start + k - 1]
  BY DEF Right
<1> QED BY <1>1 DEF SameEntries

-----------------------------------------------------------------------------
(* Lists of segments that are consecutive. *)

LEMMA SpansNone ==
  ASSUME NEW first, NEW end
  PROVE  Spans(<<>>, first, end) <=> first = end
<1>1. \A i \in DOMAIN <<>> : FALSE
  OBVIOUS
<1> QED BY <1>1, Zenon DEF Spans

LEMMA SpansOne ==
  ASSUME NEW s, NEW first, NEW end
  PROVE  Spans(<<s>>, first, end) <=> s.start = first /\ s.start + s.duration = end
<1>1. DOMAIN <<s>> = {1} /\ Len(<<s>>) = 1 /\ <<s>>[1] = s /\ <<s>> # <<>>
  OBVIOUS
<1> QED BY <1>1 DEF Spans

(* Spans, of a list that is not empty.                                      *)
LEMMA SpansSome ==
  ASSUME NEW list, IsTable(list), list # <<>>, NEW first, NEW end
  PROVE  Spans(list, first, end) <=>
           /\ list[1].start = first
           /\ \A i \in 2 .. Len(list) :
                list[i].start = list[i - 1].start + list[i - 1].duration
           /\ list[Len(list)].start + list[Len(list)].duration = end
<1>1. DOMAIN list = 1 .. Len(list) /\ Len(list) \in Nat \ {0}
  BY TableLen
<1>2. \A i \in DOMAIN list : i = 1 \/ (i # 1 /\ i \in 2 .. Len(list))
  BY <1>1
<1>3. 1 \in DOMAIN list /\ \A i \in 2 .. Len(list) : i \in DOMAIN list /\ i # 1
  BY <1>1
<1>4. (IF list = <<>> THEN first ELSE list[Len(list)].start + list[Len(list)].duration)
        = list[Len(list)].start + list[Len(list)].duration
  OBVIOUS
<1> QED BY <1>2, <1>3, <1>4, Zenon DEF Spans

LEMMA SpansType ==
  ASSUME NEW list, IsTable(list), NEW first \in Nat, NEW end, Spans(list, first, end)
  PROVE  end \in Nat
<1>1. CASE list = <<>>
  BY <1>1, SpansNone
<1>2. CASE list # <<>>
  <2>1. Len(list) \in 1 .. Len(list)
    BY <1>2, TableLen
  <2>2. IsSegment(list[Len(list)])
    BY <2>1 DEF IsTable
  <2>3. list[Len(list)].start \in Nat /\ list[Len(list)].duration \in Nat
    BY <2>2 DEF IsSegment
  <2>4. end = list[Len(list)].start + list[Len(list)].duration
    BY <1>2, SpansSome
  <2> QED BY <2>3, <2>4
<1> QED BY <1>1, <1>2

LEMMA SpansAppend ==
  ASSUME NEW list, IsTable(list), NEW first, NEW end, Spans(list, first, end),
         NEW s, IsSegment(s), s.start = end
  PROVE  Spans(Append(list, s), first, end + s.duration)
<1> DEFINE t == Append(list, s)
<1>1. /\ IsTable(t) /\ Len(t) = Len(list) + 1 /\ Len(list) \in Nat
      /\ \A i \in 1 .. Len(list) : t[i] = list[i]
      /\ t[Len(list) + 1] = s
  BY TableAppend, TableLen
<1> HIDE DEF t
<1>2. t # <<>>
  BY <1>1, TableLen
<1>3. CASE list = <<>>
  <2>1. Len(t) = 1 /\ t[1] = s /\ first = end
    BY <1>1, <1>3, SpansNone, TableLen
  <2>2. \A i \in 2 .. Len(t) : FALSE
    BY <2>1
  <2> QED BY <1>1, <1>2, <2>1, <2>2, SpansSome DEF t
<1>4. CASE list # <<>>
  <2>1. /\ list[1].start = first
        /\ \A i \in 2 .. Len(list) :
             list[i].start = list[i - 1].start + list[i - 1].duration
        /\ list[Len(list)].start + list[Len(list)].duration = end
    BY <1>4, SpansSome
  <2>2. Len(list) >= 1
    BY <1>1, <1>4, TableLen
  <2>3. t[1] = list[1]
    BY <1>1, <2>2
  <2>4. ASSUME NEW i \in 2 .. Len(t) PROVE t[i].start = t[i - 1].start + t[i - 1].duration
    <3>1. i - 1 \in 1 .. Len(list)
      BY <1>1
    <3>2. CASE i = Len(list) + 1
      <4>1. t[i] = s /\ t[i - 1] = list[Len(list)]
        BY <1>1, <2>2, <3>2
      <4> QED BY <2>1, <4>1
    <3>3. CASE i # Len(list) + 1
      <4>1. i \in 2 .. Len(list) /\ i \in 1 .. Len(list)
        BY <1>1, <3>3
      <4>2. t[i] = list[i] /\ t[i - 1] = list[i - 1]
        BY <1>1, <3>1, <4>1
      <4> QED BY <2>1, <4>1, <4>2
    <3> QED BY <3>2, <3>3
  <2>5. t[Len(t)] = s
    BY <1>1
  <2> QED BY <1>1, <1>2, <2>1, <2>3, <2>4, <2>5, SpansSome DEF t
<1> QED BY <1>3, <1>4

(* Lists whose segments have the same places.                               *)
SamePlaces(a, b) ==
  /\ Len(b) = Len(a)
  /\ \A i \in 1 .. Len(a) : b[i].start = a[i].start /\ b[i].duration = a[i].duration

LEMMA SamePlacesSpans ==
  ASSUME NEW a, IsTable(a), NEW b, IsTable(b), SamePlaces(a, b), NEW first, NEW end,
         Spans(a, first, end)
  PROVE  Spans(b, first, end)
<1>1. CASE a = <<>>
  <2>1. b = <<>>
    BY <1>1, TableLen DEF SamePlaces
  <2> QED BY <1>1, <2>1
<1>2. CASE a # <<>>
  <2>1. /\ b # <<>> /\ Len(b) = Len(a) /\ Len(a) \in Nat \ {0}
    BY <1>2, TableLen DEF SamePlaces
  <2>2. /\ 1 \in 1 .. Len(a) /\ Len(a) \in 1 .. Len(a)
        /\ \A i \in 2 .. Len(a) : i \in 1 .. Len(a) /\ i - 1 \in 1 .. Len(a)
    BY <2>1
  <2>3. \A i \in 1 .. Len(a) : b[i].start = a[i].start /\ b[i].duration = a[i].duration
    BY DEF SamePlaces
  <2>4. /\ a[1].start = first
        /\ \A i \in 2 .. Len(a) : a[i].start = a[i - 1].start + a[i - 1].duration
        /\ a[Len(a)].start + a[Len(a)].duration = end
    BY <1>2, SpansSome
  <2>5. /\ b[1].start = first
        /\ \A i \in 2 .. Len(b) : b[i].start = b[i - 1].start + b[i - 1].duration
        /\ b[Len(b)].start + b[Len(b)].duration = end
    BY <2>1, <2>2, <2>3, <2>4
  <2> QED BY <2>1, <2>5, SpansSome
<1> QED BY <1>1, <1>2

LEMMA SpansGrow ==
  ASSUME NEW list, IsTable(list), list # <<>>, NEW first, NEW end, Spans(list, first, end),
         NEW s, IsSegment(s), s.start = list[Len(list)].start,
         s.duration = list[Len(list)].duration + 1
  PROVE  Spans([list EXCEPT ![Len(list)] = s], first, end + 1)
<1> DEFINE t == [list EXCEPT ![Len(list)] = s]
<1>0. Len(list) \in 1 .. Len(list) /\ Len(list) \in Nat \ {0}
  BY TableLen
<1>1. /\ IsTable(t) /\ Len(t) = Len(list)
      /\ \A i \in 1 .. Len(list) : t[i] = IF i = Len(list) THEN s ELSE list[i]
  BY <1>0, TableExcept
<1> HIDE DEF t
<1>2. t # <<>>
  BY <1>0, <1>1, TableLen
<1>3. /\ list[1].start = first
      /\ \A i \in 2 .. Len(list) : list[i].start = list[i - 1].start + list[i - 1].duration
      /\ list[Len(list)].start + list[Len(list)].duration = end
  BY SpansSome
<1>4. \A i \in 1 .. Len(list) : t[i].start = list[i].start
  BY <1>1
<1>5. ASSUME NEW i \in 2 .. Len(t) PROVE t[i].start = t[i - 1].start + t[i - 1].duration
  <2>1. i \in 2 .. Len(list) /\ i \in 1 .. Len(list) /\ i - 1 \in 1 .. Len(list) /\ i - 1 # Len(list)
    BY <1>0, <1>1
  <2>2. t[i].start = list[i].start /\ t[i - 1] = list[i - 1]
    BY <1>1, <1>4, <2>1
  <2> QED BY <1>3, <2>1, <2>2
<1>6. t[Len(t)].start + t[Len(t)].duration = end + 1
  <2>1. t[Len(t)] = s
    BY <1>0, <1>1
  <2>2. IsSegment(list[Len(list)])
    BY <1>0 DEF IsTable
  <2>3. PICK x, y : x = list[Len(list)].start /\ y = list[Len(list)].duration
    OBVIOUS
  <2>4. x \in Nat /\ y \in Nat
    BY <2>2, <2>3 DEF IsSegment
  <2>5. s.start = x /\ s.duration = y + 1 /\ x + y = end
    BY <1>3, <2>3
  <2> QED BY <2>1, <2>4, <2>5
<1>7. t[1].start = first
  BY <1>0, <1>3, <1>4
<1> QED BY <1>1, <1>2, <1>5, <1>6, <1>7, SpansSome DEF t

LEMMA SpansConcat ==
  ASSUME NEW a, IsTable(a), NEW b, IsTable(b), NEW first, NEW middle, NEW end,
         Spans(a, first, middle), Spans(b, middle, end)
  PROVE  Spans(a \o b, first, end)
<1> DEFINE t == a \o b
<1>1. /\ IsTable(t) /\ Len(t) = Len(a) + Len(b) /\ Len(a) \in Nat /\ Len(b) \in Nat
      /\ \A i \in 1 .. Len(a) : t[i] = a[i]
      /\ \A i \in 1 .. Len(b) : t[Len(a) + i] = b[i]
  BY TableConcat, TableLen
<1>2. CASE a = <<>>
  <2>1. t = b /\ first = middle
    BY <1>2, ConcatEmptySeq, SpansNone DEF IsTable
  <2> QED BY <2>1
<1>3. CASE b = <<>>
  <2>1. t = a /\ middle = end
    BY <1>3, ConcatEmptySeq, SpansNone DEF IsTable
  <2> QED BY <2>1
<1> HIDE DEF t
<1>4. CASE a # <<>> /\ b # <<>>
  <2>1. Len(a) >= 1 /\ Len(b) >= 1 /\ t # <<>>
    BY <1>1, <1>4, TableLen
  <2>2. /\ a[1].start = first
        /\ \A i \in 2 .. Len(a) : a[i].start = a[i - 1].start + a[i - 1].duration
        /\ a[Len(a)].start + a[Len(a)].duration = middle
    BY <1>4, SpansSome
  <2>3. /\ b[1].start = middle
        /\ \A i \in 2 .. Len(b) : b[i].start = b[i - 1].start + b[i - 1].duration
        /\ b[Len(b)].start + b[Len(b)].duration = end
    BY <1>4, SpansSome
  <2>4. t[1] = a[1] /\ t[Len(t)] = b[Len(b)]
    BY <1>1, <2>1
  <2>5. ASSUME NEW i \in 2 .. Len(t) PROVE t[i].start = t[i - 1].start + t[i - 1].duration
    <3>1. CASE i <= Len(a)
      <4>1. i \in 2 .. Len(a) /\ i \in 1 .. Len(a) /\ i - 1 \in 1 .. Len(a)
        BY <1>1, <3>1
      <4>2. t[i] = a[i] /\ t[i - 1] = a[i - 1]
        BY <1>1, <4>1
      <4> QED BY <2>2, <4>1, <4>2
    <3>2. CASE i = Len(a) + 1
      <4>1. t[i] = b[1] /\ t[i - 1] = a[Len(a)]
        BY <1>1, <2>1, <3>2
      <4> QED BY <2>2, <2>3, <4>1
    <3>3. CASE i > Len(a) + 1
      <4>1. PICK j \in 2 .. Len(b) : i = Len(a) + j
        <5>1. i - Len(a) \in 2 .. Len(b) /\ i = Len(a) + (i - Len(a))
          BY <1>1, <3>3
        <5> QED BY <5>1
      <4>2. j \in 1 .. Len(b) /\ j - 1 \in 1 .. Len(b) /\ i - 1 = Len(a) + (j - 1)
        BY <1>1, <4>1
      <4>3. t[i] = b[j] /\ t[i - 1] = b[j - 1]
        BY <1>1, <4>1, <4>2
      <4> QED BY <2>3, <4>1, <4>3
    <3> QED BY <1>1, <3>1, <3>2, <3>3
  <2> QED BY <1>1, <2>1, <2>2, <2>3, <2>4, <2>5, SpansSome DEF t
<1> QED BY <1>2, <1>3, <1>4


-----------------------------------------------------------------------------
(* Segments. *)

LEMMA SegmentConstants == MaxSegmentEntries \in Nat \ {0} /\ GOPSizeGuess \in 0 .. (MaxSegmentEntries - 1)
  BY IndexTableAssumption

LEMMA NewSegmentIs ==
  ASSUME NEW n \in Nat
  PROVE  /\ IsSegment(NewSegment(n)) /\ NewSegment(n).start = n
         /\ NewSegment(n).duration = 0 /\ NewSegment(n).entries = <<>>
<1>1. <<>> \in Seq(Range(<<>>))
  BY EmptySeq
<1> QED BY <1>1 DEF NewSegment, IsSegment

CompletedList(list, i, k, x) == [list EXCEPT ![i].entries[k] = x]

LEMMA SegmentCompleted ==
  ASSUME NEW list, IsTable(list), NEW i \in 1 .. Len(list), NEW k \in 1 .. Len(list[i].entries),
         NEW x, NEW new, new = CompletedList(list, i, k, x)
  PROVE  /\ IsTable(new) /\ SamePlaces(list, new)
         /\ \A j \in 1 .. Len(list) : Len(new[j].entries) = Len(list[j].entries)
         /\ \A j \in 1 .. Len(list) : \A n \in 1 .. Len(list[j].entries) :
              new[j].entries[n] = IF j = i /\ n = k THEN x ELSE list[j].entries[n]
<1> DEFINE s == list[i]
           es == [s.entries EXCEPT ![k] = x]
           t == [s EXCEPT !.entries = es]
<1>1. IsSegment(s)
  BY DEF IsTable
<1>2. s.entries \in Seq(Range(s.entries)) /\ Len(s.entries) \in Nat
  <2>1. s.entries \in Seq(Range(s.entries))
    BY <1>1 DEF IsSegment
  <2> QED BY <2>1, LenProperties
<1>3. /\ es \in Seq(Range(es)) /\ Len(es) = Len(s.entries)
      /\ \A n \in 1 .. Len(s.entries) : es[n] = IF n = k THEN x ELSE s.entries[n]
  <2> DEFINE S == Range(s.entries) \cup {x}
  <2>1. s.entries \in Seq(S) /\ x \in S
    <3>1. Range(s.entries) \subseteq S
      OBVIOUS
    <3> HIDE DEF S
    <3> QED BY <1>2, <3>1, SeqMonotonic DEF S
  <2> HIDE DEF S, s
  <2>2. /\ es \in Seq(S) /\ Len(es) = Len(s.entries)
        /\ \A n \in 1 .. Len(s.entries) : es[n] = IF n = k THEN x ELSE s.entries[n]
    BY <2>1, ExceptSeq DEF s
  <2> HIDE DEF es
  <2> QED BY <2>2, SeqOfRange
<1>4. new = [list EXCEPT ![i] = t]
  BY DEF CompletedList
<1> HIDE DEF es
<1>5. IsSegment(t) /\ t.start = s.start /\ t.duration = s.duration /\ t.entries = es
  BY <1>1, <1>3 DEF IsSegment
<1> HIDE DEF t
<1>6. /\ IsTable(new) /\ Len(new) = Len(list)
      /\ \A j \in 1 .. Len(list) : new[j] = IF j = i THEN t ELSE list[j]
  <2>1. /\ IsTable([list EXCEPT ![i] = t]) /\ Len([list EXCEPT ![i] = t]) = Len(list)
        /\ \A j \in 1 .. Len(list) : [list EXCEPT ![i] = t][j] = IF j = i THEN t ELSE list[j]
    BY ONLY IsTable(list), i \in 1 .. Len(list), <1>5, TableExcept
  <2> QED BY ONLY <2>1, <1>4
<1>7. SamePlaces(list, new)
  BY <1>5, <1>6 DEF SamePlaces
<1> QED BY <1>3, <1>5, <1>6, <1>7

(* The key of every entry of a list is known, whether or not it is known    *)
(* what is shown there.                                                     *)
KeysKnown(list) ==
  \A i \in 1 .. Len(list) : \A k \in 1 .. Len(list[i].entries) :
    list[i].entries[k].key = Final[list[i].start + k - 1].key

(* An entry whose key is known is completed by its temporal offset.         *)
LEMMA OffsetCompletes ==
  ASSUME NEW e, NEW p, NEW t, NEW final, final = [temporal |-> t, key |-> final.key],
         p >= duration => cache[e][p].key = final.key,
         ~(p >= duration) =>
           /\ \E i \in DOMAIN segments : HoldsPosition(i, p)
           /\ \A i \in DOMAIN segments : HoldsPosition(i, p) =>
                segments[i].entries[p - segments[i].start + 1].key = final.key,
         UpdateTemporalOffset(e, p, t)
  PROVE  UpdateIndexEntry(e, p, final)
<1>1. CASE p >= duration
  <2>1. UpdateIndexEntry(e, p, [temporal |-> t, key |-> cache[e][p].key])
    BY <1>1, Zenon DEF UpdateTemporalOffset
  <2> QED BY <1>1, <2>1
<1>2. CASE ~(p >= duration)
  <2> DEFINE i == CHOOSE i \in DOMAIN segments : HoldsPosition(i, p)
             key == segments[i].entries[p - segments[i].start + 1].key
  <2>1. i \in DOMAIN segments /\ HoldsPosition(i, p)
    BY <1>2
  <2>2. key = final.key
    BY <1>2, <2>1
  <2>3. UpdateIndexEntry(e, p, [temporal |-> t, key |-> key])
    BY <1>2, Zenon DEF UpdateTemporalOffset
  <2> QED BY <2>2, <2>3
<1> QED BY <1>1, <1>2

LEMMA KnownKey ==
  ASSUME IsTable(segments), KeysKnown(segments),
         \A i \in 1 .. Len(segments) : Len(segments[i].entries) = segments[i].duration,
         NEW p \in Nat, NEW i \in DOMAIN segments, HoldsPosition(i, p)
  PROVE  segments[i].entries[p - segments[i].start + 1].key = Final[p].key
<1>1. i \in 1 .. Len(segments)
  BY TableLen
<1>2. PICK a \in Nat, d \in Nat : a = segments[i].start /\ d = segments[i].duration
  BY <1>1 DEF IsTable, IsSegment
<1>3. PICK k \in 1 .. d : k = p - a + 1
  <2>1. p - a + 1 \in 1 .. d
    BY <1>2 DEF HoldsPosition
  <2> QED BY <2>1
<1>4. segments[i].entries[k].key = Final[a + k - 1].key
  BY <1>1, <1>2, <1>3 DEF KeysKnown
<1>5. a + k - 1 = p
  BY <1>3
<1> QED BY <1>2, <1>3, <1>4, <1>5

LEMMA AddedSegment ==
  ASSUME NEW s, IsSegment(s), NEW sizes, NEW t, t = AddToSegment(s, sizes)
  PROVE  /\ IsSegment(t) /\ t.start = s.start /\ t.duration = s.duration + 1
         /\ Len(t.entries) = Len(s.entries) + 1
         /\ \A k \in 1 .. Len(s.entries) : t.entries[k] = s.entries[k]
         /\ t.entries[Len(s.entries) + 1] =
              SegmentEntry(EntryForUnit, streamOffset, SliceStarts(sizes))
<1>1. PICK x : x = SegmentEntry(EntryForUnit, streamOffset, SliceStarts(sizes))
  OBVIOUS
<1> DEFINE es == Append(s.entries, x)
           S == Range(s.entries) \cup {x}
<1>2. s.entries \in Seq(S) /\ x \in S
  <2>1. s.entries \in Seq(Range(s.entries)) /\ Range(s.entries) \subseteq S
    BY DEF IsSegment
  <2> HIDE DEF S
  <2> QED BY <2>1, SeqMonotonic DEF S
<1> HIDE DEF S
<1>3. /\ es \in Seq(S) /\ Len(es) = Len(s.entries) + 1
      /\ \A k \in 1 .. Len(s.entries) : es[k] = s.entries[k]
      /\ es[Len(s.entries) + 1] = x
  BY <1>2, AppendProperties
<1>4. t = [s EXCEPT !.duration = @ + 1, !.entries = es]
  BY <1>1 DEF AddToSegment
<1> HIDE DEF es
<1>5. es \in Seq(Range(es))
  BY <1>3, SeqOfRange
<1>6. PICK d \in Nat : d = s.duration + 1
  <2>1. s.duration \in Nat
    BY DEF IsSegment
  <2> QED BY <2>1
<1>7. t = [start |-> s.start, duration |-> d, byteCount |-> s.byteCount,
           deltas |-> s.deltas, entries |-> es]
  BY <1>4, <1>6 DEF IsSegment
<1>8. s.start \in Nat
  BY DEF IsSegment
<1>9. /\ IsSegment(t) /\ t.start = s.start /\ t.duration = s.duration + 1 /\ t.entries = es
  BY <1>5, <1>6, <1>7, <1>8 DEF IsSegment
<1> QED BY <1>1, <1>3, <1>9


LEMMA VariableWritten ==
  ASSUME NEW list, IsTable(list), NEW new, new = VBESegments(list)
  PROVE  IsTable(new) /\ SamePlaces(list, new) /\ SameEntries(list, new)
<1>1. Len(list) \in Nat /\ DOMAIN list = 1 .. Len(list)
  BY TableLen
<1>2. DOMAIN new = 1 .. Len(list)
      /\ \A i \in 1 .. Len(list) : new[i] = [list[i] EXCEPT !.deltas = deltas]
  BY <1>1 DEF VBESegments
<1>3. new \in Seq(Range(new)) /\ Len(new) = Len(list)
  <2>1. new \in [1 .. Len(list) -> Range(new)]
    BY <1>1, <1>2 DEF VBESegments, Range
  <2> QED BY <1>1, <2>1
<1>4. ASSUME NEW i \in 1 .. Len(list)
      PROVE  /\ IsSegment(new[i]) /\ new[i].start = list[i].start
             /\ new[i].duration = list[i].duration /\ new[i].entries = list[i].entries
  <2>1. PICK s, t : s = list[i] /\ t = new[i]
    OBVIOUS
  <2>2. IsSegment(s) /\ t = [s EXCEPT !.deltas = deltas]
    BY <1>2, <2>1 DEF IsTable
  <2>3. t = [start |-> s.start, duration |-> s.duration, byteCount |-> s.byteCount,
             deltas |-> deltas, entries |-> s.entries]
    BY <2>2 DEF IsSegment
  <2>4. s.start \in Nat /\ s.duration \in Nat /\ s.entries \in Seq(Range(s.entries))
    BY <2>2 DEF IsSegment
  <2> QED BY <2>1, <2>3, <2>4 DEF IsSegment
<1> QED BY <1>3, <1>4 DEF IsTable, SamePlaces, SameEntries

-----------------------------------------------------------------------------
(* A constant table. *)

(* A constant table: the first edit unit may be in a segment of its own.   *)
FirstUnits == IF duration = 0 THEN 0 ELSE 1
ConstantInv ==
  /\ NoEntries(segments) /\ NoEntries(firstSegment)
  /\ Len(segments) = 1
  /\ firstSegment = <<>> => segments[1].start = 0 /\ segments[1].duration = duration
  /\ firstSegment # <<>> =>
       /\ Len(firstSegment) = 1 /\ config.avci
       /\ firstSegment[1].start = 0 /\ firstSegment[1].duration = FirstUnits
       /\ segments[1].start = FirstUnits /\ segments[1].duration = duration - FirstUnits

ConstantTable ==
  duration \in Nat /\ IsTable(segments) /\ IsTable(firstSegment) /\ ConstantInv

LEMMA ExtendedSegment ==
  ASSUME NEW s, IsSegment(s), NEW size, NEW n \in Nat, NEW t, t = Extend(s, size, n)
  PROVE  IsSegment(t) /\ t.start = s.start /\ t.duration = s.duration + n /\ t.entries = s.entries
<1>0. PICK es : es = s.entries
  OBVIOUS
<1>1. PICK start \in Nat, d \in Nat : start = s.start /\ d = s.duration
  BY DEF IsSegment
<1>2. PICK e \in Nat : e = d + n
  OBVIOUS
<1>3. t = [start |-> start, duration |-> e, byteCount |-> size, deltas |-> s.deltas,
           entries |-> es]
  BY <1>0, <1>1, <1>2 DEF Extend, IsSegment
<1>4. es \in Seq(Range(es))
  BY <1>0 DEF IsSegment
<1> QED BY <1>0, <1>1, <1>2, <1>3, <1>4 DEF IsSegment

LEMMA SegmentWithDeltas ==
  ASSUME NEW s, IsSegment(s), NEW sizes, NEW t, t = WithDeltas(s, sizes)
  PROVE  IsSegment(t) /\ t.start = s.start /\ t.duration = s.duration /\ t.entries = s.entries
<1>1. PICK ds : t = [s EXCEPT !.deltas = ds]
  <2>1. s = [s EXCEPT !.deltas = s.deltas]
    BY DEF IsSegment
  <2> QED BY <2>1 DEF WithDeltas
<1>2. t = [start |-> s.start, duration |-> s.duration, byteCount |-> s.byteCount,
           deltas |-> ds, entries |-> s.entries]
  BY <1>1 DEF IsSegment
<1>3. s.start \in Nat /\ s.duration \in Nat /\ s.entries \in Seq(Range(s.entries))
  BY DEF IsSegment
<1> QED BY <1>2, <1>3 DEF IsSegment

LEMMA MovedSegment ==
  ASSUME NEW s, IsSegment(s), NEW start \in Nat, NEW t, t = [s EXCEPT !.start = start]
  PROVE  IsSegment(t) /\ t.start = start /\ t.duration = s.duration /\ t.entries = s.entries
<1>1. t = [start |-> start, duration |-> s.duration, byteCount |-> s.byteCount,
           deltas |-> s.deltas, entries |-> s.entries]
  BY DEF IsSegment
<1>2. s.entries \in Seq(Range(s.entries)) /\ s.duration \in Nat
  BY DEF IsSegment
<1> QED BY <1>1, <1>2 DEF IsSegment

LEMMA OneWithoutEntries ==
  ASSUME NEW s, IsSegment(s), s.entries = <<>>
  PROVE  IsTable(<<s>>) /\ NoEntries(<<s>>) /\ Len(<<s>>) = 1 /\ <<s>>[1] = s /\ <<s>> # <<>>
<1>1. IsTable(<<s>>) /\ Len(<<s>>) = 1 /\ <<s>>[1] = s
  BY OneSegment
<1>2. \A i \in 1 .. Len(<<s>>) : <<s>>[i] = s
  BY <1>1
<1>3. <<s>> # <<>>
  BY <1>1
<1> QED BY <1>1, <1>2, <1>3 DEF NoEntries

LEMMA ConstantFacts ==
  ASSUME ConstantTable
  PROVE  /\ duration \in Nat /\ IsTable(segments) /\ IsTable(firstSegment) /\ ConstantInv
         /\ IsSegment(segments[1]) /\ segments[1].entries = <<>>
         /\ firstSegment # <<>> => /\ IsSegment(firstSegment[1])
                                   /\ firstSegment[1].entries = <<>>
<1>1. duration \in Nat /\ IsTable(segments) /\ IsTable(firstSegment) /\ ConstantInv
  BY DEF ConstantTable
<1>2. Len(segments) = 1 /\ (firstSegment # <<>> => Len(firstSegment) = 1) /\ 1 \in 1 .. 1
  BY <1>1 DEF ConstantInv
<1> QED BY <1>1, <1>2 DEF IsTable, ConstantInv, NoEntries

(* The segment of the first edit unit, or the one of the others.            *)
LEMMA ConstantUnit ==
  ASSUME ConstantTable, NEW sizes, UpdateCBEIndex(sizes), duration' = duration + 1,
         config' = config
  PROVE  ConstantTable'
<1>1. /\ duration \in Nat /\ ConstantInv /\ IsSegment(segments[1])
      /\ IsTable(firstSegment) /\ segments[1].entries = <<>>
      /\ firstSegment # <<>> => IsSegment(firstSegment[1]) /\ firstSegment[1].entries = <<>>
  BY ConstantFacts
<1>0. SUFFICES IsTable(segments') /\ IsTable(firstSegment') /\ ConstantInv'
  BY <1>1 DEF ConstantTable
<1>2. /\ firstSegment = <<>> => segments[1].start = 0 /\ segments[1].duration = duration
      /\ firstSegment # <<>> =>
           /\ Len(firstSegment) = 1 /\ config.avci
           /\ firstSegment[1].start = 0 /\ firstSegment[1].duration = FirstUnits
           /\ segments[1].start = FirstUnits /\ segments[1].duration = duration - FirstUnits
      /\ NoEntries(firstSegment)
  BY <1>1 DEF ConstantInv
<1>3. PICK size : size = ContentPackageSize(sizes)
  OBVIOUS
<1>4. CASE duration = 0 /\ firstSegment # <<>>
  <2>1. PICK f, s : /\ f = Extend(WithDeltas(firstSegment[1], sizes), size, 1)
                    /\ s = [segments[1] EXCEPT !.start = 1]
    OBVIOUS
  <2>2. firstSegment' = <<f>> /\ segments' = <<s>>
    BY <1>3, <1>4, <2>1 DEF UpdateCBEIndex
  <2>3. IsSegment(f) /\ f.start = 0 /\ f.duration = 0 + 1 /\ f.entries = <<>>
    <3>1. firstSegment[1].duration = 0 /\ firstSegment[1].start = 0
      BY <1>2, <1>4 DEF FirstUnits
    <3>2. PICK x : x = firstSegment[1] /\ IsSegment(x) /\ x.entries = <<>>
      BY <1>1, <1>4
    <3>3. PICK y : y = WithDeltas(x, sizes) /\ f = Extend(y, size, 1)
      BY <2>1, <3>2
    <3>5. IsSegment(y) /\ y.start = x.start /\ y.duration = x.duration /\ y.entries = x.entries
      BY <3>2, <3>3, SegmentWithDeltas
    <3>4. IsSegment(f) /\ f.start = x.start /\ f.duration = x.duration + 1 /\ f.entries = x.entries
      BY <3>3, <3>5, ExtendedSegment
    <3> QED BY <3>1, <3>2, <3>4
  <2>4. IsSegment(s) /\ s.start = 1 /\ s.duration = 0 /\ s.entries = <<>>
    <3>1. segments[1].duration = 0 - 0
      BY <1>2, <1>4 DEF FirstUnits
    <3>2. PICK x : x = segments[1]
      OBVIOUS
    <3>3. IsSegment(x) /\ s = [x EXCEPT !.start = 1]
      BY <1>1, <2>1, <3>2
    <3>4. IsSegment(s) /\ s.start = 1 /\ s.duration = x.duration /\ s.entries = x.entries
      BY <3>3, MovedSegment
    <3> QED BY <1>1, <3>1, <3>2, <3>4
  <2>5. /\ IsTable(<<f>>) /\ NoEntries(<<f>>) /\ Len(<<f>>) = 1 /\ <<f>>[1] = f /\ <<f>> # <<>>
        /\ IsTable(<<s>>) /\ NoEntries(<<s>>) /\ Len(<<s>>) = 1 /\ <<s>>[1] = s
    BY <2>3, <2>4, OneWithoutEntries
  <2>6. duration' = 1 /\ FirstUnits' = 1
    BY <1>4 DEF FirstUnits
  <2>7. config'.avci
    BY <1>2, <1>4
  <2> QED BY <2>2, <2>3, <2>4, <2>5, <2>6, <2>7 DEF ConstantInv
<1>5. CASE ~(duration = 0 /\ firstSegment # <<>>)
  <2>1. PICK k \in {1, 2}, start \in Nat :
          /\ k = MergedUnits(sizes)
          /\ start = IF DropsFirst(sizes) THEN 0 ELSE segments[1].start
    BY <1>1 DEF MergedUnits, IsSegment
  <2>2. PICK r, s : /\ r = Extend(WithDeltas(segments[1], sizes), size, k)
                    /\ s = [r EXCEPT !.start = start]
    OBVIOUS
  <2>3. segments' = <<s>>
    <3>1. segments' = <<[Extend(WithDeltas(segments[1], sizes), size, MergedUnits(sizes))
                           EXCEPT !.start = IF DropsFirst(sizes) THEN 0 ELSE @]>>
      BY <1>3, <1>5, Zenon DEF UpdateCBEIndex
    <3>2. segments' = <<[r EXCEPT !.start = IF DropsFirst(sizes) THEN 0 ELSE r.start]>>
      BY <2>1, <2>2, <3>1
    <3>3. r.start = segments[1].start
      BY <2>2, <1>1 DEF Extend, WithDeltas, IsSegment
    <3> QED BY ONLY <2>1, <2>2, <3>2, <3>3
  <2>4. firstSegment' = IF DropsFirst(sizes) THEN <<>> ELSE firstSegment
    BY <1>5, Zenon DEF UpdateCBEIndex
  <2>5. IsSegment(s) /\ s.start = start /\ s.duration = segments[1].duration + k
        /\ s.entries = <<>>
    <3>1. PICK x : x = segments[1]
      OBVIOUS
    <3>2. PICK y : y = WithDeltas(x, sizes) /\ r = Extend(y, size, k)
      BY <2>2, <3>1
    <3>5. IsSegment(y) /\ y.start = x.start /\ y.duration = x.duration /\ y.entries = x.entries
      BY <1>1, <3>1, <3>2, SegmentWithDeltas
    <3>3. IsSegment(r) /\ r.duration = x.duration + k /\ r.entries = x.entries
      BY <3>2, <3>5, ExtendedSegment
    <3>4. IsSegment(s) /\ s.start = start /\ s.duration = r.duration /\ s.entries = r.entries
      BY <2>2, <3>3, MovedSegment
    <3> QED BY <1>1, <3>1, <3>3, <3>4
  <2>6. IsTable(<<s>>) /\ NoEntries(<<s>>) /\ Len(<<s>>) = 1 /\ <<s>>[1] = s
    BY <2>5, OneWithoutEntries
  <2>7. FirstUnits' = 1 /\ (firstSegment # <<>> => FirstUnits = 1)
    BY <1>1, <1>5 DEF FirstUnits
  <2>8. CASE DropsFirst(sizes)
    <3>1. /\ duration = 1 /\ firstSegment # <<>> /\ firstSegment' = <<>> /\ start = 0 /\ k = 2
      BY <2>1, <2>4, <2>8 DEF DropsFirst, MergedUnits
    <3>2. segments[1].duration = 0 /\ duration' = 2
      BY <1>2, <2>7, <3>1
    <3> QED BY <2>3, <2>5, <2>6, <3>1, <3>2, EmptyTable DEF ConstantInv
  <2>9. CASE ~DropsFirst(sizes)
    <3>1. /\ firstSegment' = firstSegment /\ start = segments[1].start /\ k = 1
      BY <2>1, <2>4, <2>9 DEF MergedUnits
    <3>2. CASE firstSegment = <<>>
      BY <1>1, <1>2, <2>3, <2>5, <2>6, <3>1, <3>2 DEF ConstantInv
    <3>3. CASE firstSegment # <<>>
      <4>1. s.start = 1 /\ s.duration = duration' - 1
        BY <1>1, <1>2, <2>5, <2>7, <3>1, <3>3
      <4> QED BY <1>1, <1>2, <2>3, <2>6, <2>7, <3>1, <3>3, <4>1 DEF ConstantInv
    <3> QED BY <3>2, <3>3
  <2> QED BY <2>8, <2>9
<1> QED BY <1>4, <1>5

(* A constant table is written as far as its duration is known.             *)
LEMMA ConstantFlush ==
  ASSUME ConstantTable, IsCBE, InputDuration \in Nat \cup {NoDuration}, NEW isFooter, NEW final,
         WriteSegments(isFooter, final), ~IndexFails
  PROVE  /\ duration > 0 /\ haveWritten' = TRUE
         /\ UNCHANGED <<config, cache, requireUpdates, lastAdded, firstSegment, segments, flushed,
                        duration, indexStatus>>
         /\ IsTable(output') /\ NoEntries(output') /\ output' # <<>>
         /\ firstSegment # <<>> /\ duration = 1 => Spans(output', 0, 1)
         /\ InputDuration # NoDuration /\ (firstSegment # <<>> => duration > 1) =>
              Spans(output', 0, InputDuration)
         /\ InputDuration \in {duration, NoDuration} /\ final => Spans(output', 0, duration)
<1>1. /\ duration # 0 /\ ~DurationFails /\ haveWritten' = TRUE /\ output' = CBESegments(final)
      /\ UNCHANGED <<config, cache, requireUpdates, lastAdded, firstSegment, segments, flushed,
                     duration, indexStatus>>
  BY DEF WriteSegments
<1>2. /\ duration \in Nat /\ IsTable(segments) /\ IsTable(firstSegment)
      /\ IsSegment(segments[1]) /\ segments[1].entries = <<>>
      /\ firstSegment # <<>> => IsSegment(firstSegment[1]) /\ firstSegment[1].entries = <<>>
      /\ ConstantInv
  BY ConstantFacts
<1>3. duration > 0 /\ FirstUnits = 1
  BY <1>1, <1>2 DEF FirstUnits
<1>4. /\ firstSegment = <<>> => segments[1].start = 0 /\ segments[1].duration = duration
      /\ firstSegment # <<>> =>
           /\ Len(firstSegment) = 1 /\ firstSegment[1].start = 0 /\ firstSegment[1].duration = 1
           /\ segments[1].start = 1 /\ segments[1].duration = duration - 1
  BY <1>2, <1>3 DEF ConstantInv
<1>5. InputDuration \in Nat \cup {NoDuration}
  OBVIOUS
<1>6. InputDuration # NoDuration /\ WritesMainSegment => InputDuration \in Nat /\ InputDuration >= duration
  BY <1>1, <1>2, <1>5 DEF DurationFails
<1> DEFINE main == [segments[1] EXCEPT !.duration = WrittenDuration(final)]
<1>7. output' = firstSegment \o (IF WritesMainSegment THEN <<main>> ELSE <<>>)
  BY <1>1 DEF CBESegments
<1>8. ASSUME WritesMainSegment
      PROVE  /\ IsSegment(main) /\ main.start = segments[1].start
             /\ main.duration = WrittenDuration(final) /\ main.entries = <<>>
  <2>1. WrittenDuration(final) \in Nat
    <3>1. CASE InputDuration # NoDuration
      <4>1. WrittenDuration(final) = InputDuration - Len(firstSegment)
        BY <3>1 DEF WrittenDuration
      <4>2. Len(firstSegment) \in {0, 1} /\ Len(firstSegment) <= InputDuration
        <5>1. CASE firstSegment = <<>>
          BY <1>2, <1>6, <1>8, <3>1, <5>1, TableLen
        <5>2. CASE firstSegment # <<>>
          <6>1. InputDuration \in Nat /\ InputDuration >= duration /\ duration \in Nat
            BY <1>2, <1>6, <1>8, <3>1
          <6>2. duration > 0 /\ Len(firstSegment) = 1
            BY <1>3, <1>4, <5>2
          <6> QED BY ONLY <6>1, <6>2
        <5> QED BY <5>1, <5>2
      <4> QED BY <1>6, <1>8, <3>1, <4>1, <4>2
    <3>2. CASE InputDuration = NoDuration
      BY <1>2, <3>2 DEF WrittenDuration, IsSegment
    <3> QED BY <3>1, <3>2
  <2>6. PICK d \in Nat : d = WrittenDuration(final)
    BY <2>1
  <2>2. PICK s : s = segments[1] /\ d = WrittenDuration(final)
    BY <2>6
  <2>3. main = [s EXCEPT !.duration = d]
    BY <2>2
  <2>4. main = [start |-> s.start, duration |-> d, byteCount |-> s.byteCount,
                deltas |-> s.deltas, entries |-> s.entries]
    BY <1>2, <2>2, <2>3 DEF IsSegment
  <2>5. s.start \in Nat /\ s.entries \in Seq(Range(s.entries)) /\ s.entries = <<>>
    BY <1>2, <2>2 DEF IsSegment
  <2> HIDE DEF main
  <2> QED BY <2>2, <2>4, <2>5 DEF IsSegment
<1>9. InputDuration \in {duration, NoDuration} /\ final => WrittenDuration(final) = segments[1].duration
  <2>1. CASE InputDuration = NoDuration
    BY <2>1 DEF WrittenDuration
  <2>2. CASE InputDuration = duration /\ InputDuration # NoDuration
    <3>1. WrittenDuration(final) = duration - Len(firstSegment)
      BY <2>2 DEF WrittenDuration
    <3>2. CASE firstSegment = <<>>
      BY <1>2, <1>4, <3>1, <3>2, TableLen
    <3>3. CASE firstSegment # <<>>
      BY <1>2, <1>4, <3>1, <3>3
    <3> QED BY <3>2, <3>3
  <2> QED BY <2>1, <2>2
<1>10. InputDuration # NoDuration => WrittenDuration(final) = InputDuration - Len(firstSegment)
  BY DEF WrittenDuration
<1> HIDE DEF main
<1>11. CASE firstSegment = <<>>
  <2>1. WritesMainSegment
    BY <1>11 DEF WritesMainSegment
  <2>2. IsTable(<<main>>) /\ NoEntries(<<main>>) /\ <<main>> # <<>>
    BY <1>8, <2>1, OneWithoutEntries
  <2>3. output' = <<main>>
    <3>1. <<main>> \in Seq({main})
      OBVIOUS
    <3>2. <<>> \o <<main>> = <<main>>
      BY <3>1, ConcatEmptySeq
    <3> QED BY <1>7, <1>11, <2>1, <3>2
  <2>4. main.start = 0 /\ main.duration = WrittenDuration(final)
    BY <1>4, <1>8, <1>11, <2>1
  <2>5. InputDuration # NoDuration => Spans(output', 0, InputDuration)
    <3> SUFFICES ASSUME InputDuration # NoDuration PROVE Spans(<<main>>, 0, InputDuration)
      BY <2>3
    <3>1. main.duration = InputDuration /\ InputDuration \in Nat
      BY <1>2, <1>5, <1>10, <1>11, <2>4, TableLen
    <3> QED BY <2>4, <3>1, SpansOne
  <2>6. InputDuration \in {duration, NoDuration} /\ final => Spans(output', 0, duration)
    <3> SUFFICES ASSUME InputDuration \in {duration, NoDuration}, final
                 PROVE  Spans(<<main>>, 0, duration)
      BY <2>3
    <3>1. main.duration = duration
      BY <1>4, <1>9, <1>11, <2>4
    <3> QED BY <1>2, <2>4, <3>1, SpansOne
  <2> QED BY <1>1, <1>3, <1>11, <2>2, <2>3, <2>5, <2>6
<1>12. CASE firstSegment # <<>>
  <2>1. PICK f : f = firstSegment[1]
    OBVIOUS
  <2>2. firstSegment = <<f>>
    BY <1>2, <1>4, <1>12, <2>1 DEF IsTable
  <2>3. IsSegment(f) /\ f.entries = <<>> /\ f.start = 0 /\ f.duration = 1
    BY <1>2, <1>4, <1>12, <2>1
  <2>4. IsTable(<<f>>) /\ NoEntries(<<f>>) /\ <<f>> # <<>> /\ Spans(<<f>>, 0, 1)
    BY <2>3, OneWithoutEntries, SpansOne
  <2>5. CASE ~WritesMainSegment
    <3>1. duration = 1
      BY <1>2, <1>3, <1>12, <2>5 DEF WritesMainSegment
    <3>2. output' = <<f>>
      <4>1. <<f>> \in Seq({f})
        OBVIOUS
      <4>2. <<f>> \o <<>> = <<f>>
        BY <4>1, ConcatEmptySeq
      <4> QED BY <1>7, <2>2, <2>5, <4>2
    <3> QED BY <1>1, <1>3, <1>12, <2>4, <3>1, <3>2
  <2>6. CASE WritesMainSegment
    <3>1. duration > 1
      BY <1>12, <2>6 DEF WritesMainSegment
    <3>2. output' = <<f>> \o <<main>>
      BY <1>7, <2>2, <2>6
    <3>3. IsTable(<<main>>) /\ NoEntries(<<main>>)
      BY <1>8, <2>6, OneWithoutEntries
    <3>4. PICK t : t = <<f>> \o <<main>>
      OBVIOUS
    <3>5. IsTable(t) /\ Len(t) = 2 /\ t[1] = f /\ t[2] = main
      <4>1. PICK a, b : a = <<f>> /\ b = <<main>>
        OBVIOUS
      <4>2. Len(a) = 1 /\ Len(b) = 1 /\ a[1] = f /\ b[1] = main
        BY <4>1
      <4>3. IsTable(a) /\ IsTable(b) /\ t = a \o b
        BY <2>4, <3>3, <3>4, <4>1
      <4>4. /\ IsTable(t) /\ Len(t) = Len(a) + Len(b)
            /\ \A i \in 1 .. Len(a) : t[i] = a[i]
            /\ \A i \in 1 .. Len(b) : t[Len(a) + i] = b[i]
        BY <4>3, TableConcat
      <4>5. 1 \in 1 .. 1 /\ 1 + 1 = 2
        OBVIOUS
      <4> QED BY ONLY <4>2, <4>4, <4>5
    <3>6. NoEntries(t) /\ t # <<>>
      <4>1. \A i \in 1 .. Len(t) : i = 1 \/ i = 2
        BY <3>5
      <4>2. f.entries = <<>> /\ main.entries = <<>>
        BY <1>8, <2>3, <2>6
      <4> QED BY <3>5, <4>1, <4>2 DEF NoEntries
    <3>7. main.start = 1 /\ main.duration = WrittenDuration(final)
      BY <1>4, <1>8, <1>12, <2>6
    <3>8. ASSUME NEW e \in Nat, WrittenDuration(final) = e - 1 PROVE Spans(t, 0, e)
      <4>1. Spans(<<main>>, 1, e)
        BY <3>7, <3>8, SpansOne
      <4> QED BY <2>4, <3>3, <3>4, <4>1, SpansConcat
    <3>9. InputDuration # NoDuration => Spans(t, 0, InputDuration)
      BY <1>4, <1>5, <1>10, <1>12, <3>8
    <3>10. InputDuration \in {duration, NoDuration} /\ final => Spans(t, 0, duration)
      BY <1>2, <1>4, <1>9, <1>12, <3>8
    <3>11. duration # 1
      BY <1>2, <3>1
    <3> QED BY ONLY <1>1, <1>3, <3>1, <3>2, <3>4, <3>5, <3>6, <3>9, <3>10, <3>11
  <2> QED BY <2>5, <2>6
<1> QED BY <1>11, <1>12

-----------------------------------------------------------------------------
(* A set of numbers that is not empty has a least one.                      *)
LEMMA LeastNumber ==
  ASSUME NEW T \in SUBSET Nat, T # {}
  PROVE  \E m \in T : \A k \in T : m <= k
<1> DEFINE R == OpToRel(<, Nat)
<1>1. IsWellFoundedOn(R, Nat)
  BY NatLessThanWellFounded
<1>2. \A k, m \in Nat : k < m => <<k, m>> \in R
  BY DEF OpToRel
<1> HIDE DEF R
<1>3. PICK m \in T : \A k \in T : ~ (<<k, m>> \in R)
  BY <1>1, WFMin
<1>4. \A k \in T : ~(k < m)
  BY <1>2, <1>3
<1> QED BY <1>4

-----------------------------------------------------------------------------
(* Sums over sets of indices.                                               *)

(* Of the subsets of a finite set that are bad one is the smallest.         *)
LEMMA SmallestSet ==
  ASSUME NEW S, IsFiniteSet(S), NEW B \in SUBSET (SUBSET S), B # {}
  PROVE  \E T \in B : \A x \in T : T \ {x} \notin B
<1> DEFINE N == {Cardinality(T) : T \in B}
<1>1. \A T \in B : IsFiniteSet(T) /\ Cardinality(T) \in Nat
  BY FS_Subset, FS_CardinalityType
<1>2. PICK n \in N : \A k \in N : n <= k
  <2>1. N \in SUBSET Nat /\ N # {}
    BY <1>1
  <2> HIDE DEF N
  <2> QED BY <2>1, LeastNumber
<1>3. PICK T \in B : Cardinality(T) = n
  BY <1>2
<1>4. ASSUME NEW x \in T, T \ {x} \in B PROVE FALSE
  <2>1. Cardinality(T \ {x}) = Cardinality(T) - 1
    BY <1>1, <1>3, FS_RemoveElement
  <2>2. n <= Cardinality(T \ {x})
    BY <1>2, <1>4
  <2> QED BY <1>1, <1>3, <2>1, <2>2
<1> QED BY <1>3, <1>4

Chosen(s) == CHOOSE x \in s : TRUE

LEMMA ChosenIn ==
  ASSUME NEW s, s # {}
  PROVE  Chosen(s) \in s
BY DEF Chosen

(* g adds up f over the sets of A, one element at a time.                   *)
AddsUp(g, f, A) ==
  g = [s \in A |-> IF s = {} THEN 0 ELSE f[Chosen(s)] + g[s \ {Chosen(s)}]]

LEMMA AddsUpAt ==
  ASSUME NEW g, NEW f, NEW A, AddsUp(g, f, A), NEW s \in A
  PROVE  g[s] = IF s = {} THEN 0 ELSE f[Chosen(s)] + g[s \ {Chosen(s)}]
BY DEF AddsUp

(* The subsets of S with at most n elements.                                *)
UpTo(S, n) == {s \in SUBSET S : Cardinality(s) <= n}

LEMMA AddsUpMore ==
  ASSUME NEW S, IsFiniteSet(S), NEW n \in Nat, NEW f, NEW g, AddsUp(g, f, UpTo(S, n))
  PROVE  \E h : AddsUp(h, f, UpTo(S, n + 1))
<1> DEFINE h == [s \in UpTo(S, n + 1) |->
                   IF s = {} THEN 0 ELSE f[Chosen(s)] + g[s \ {Chosen(s)}]]
<1>1. ASSUME NEW s \in UpTo(S, n + 1), s # {}
      PROVE  s \ {Chosen(s)} \in UpTo(S, n) /\ s \ {Chosen(s)} \in UpTo(S, n + 1)
  <2>1. IsFiniteSet(s) /\ Cardinality(s) \in Nat /\ Chosen(s) \in s
    BY <1>1, ChosenIn, FS_Subset, FS_CardinalityType DEF UpTo
  <2>2. Cardinality(s \ {Chosen(s)}) = Cardinality(s) - 1
    BY <2>1, FS_RemoveElement
  <2> QED BY <2>1, <2>2 DEF UpTo
<1>2. ASSUME NEW s \in UpTo(S, n), s \in UpTo(S, n + 1) PROVE h[s] = g[s]
  BY <1>2, AddsUpAt
<1>3. ASSUME NEW s \in UpTo(S, n + 1), s # {}
      PROVE  h[s \ {Chosen(s)}] = g[s \ {Chosen(s)}]
  BY <1>1, <1>2, <1>3
<1>4. AddsUp(h, f, UpTo(S, n + 1))
  BY <1>3, Zenon DEF AddsUp
<1> QED BY <1>4

LEMMA SomethingAddsUp ==
  ASSUME NEW S, IsFiniteSet(S), NEW f
  PROVE  \E g : AddsUp(g, f, SUBSET S)
<1> DEFINE T == {n \in Nat : ~ \E g : AddsUp(g, f, UpTo(S, n))}
<1>1. T = {}
  <2> SUFFICES ASSUME T # {} PROVE FALSE
    OBVIOUS
  <2>1. PICK n \in T : \A k \in T : n <= k
    <3>1. T \in SUBSET Nat
      OBVIOUS
    <3> HIDE DEF T
    <3> QED BY <3>1, LeastNumber
  <2>2. CASE n = 0
    <3> DEFINE g == [s \in UpTo(S, 0) |-> 0]
    <3>1. \A s \in UpTo(S, 0) : s = {}
      <4> TAKE s \in UpTo(S, 0)
      <4>1. IsFiniteSet(s) /\ Cardinality(s) \in Nat /\ Cardinality(s) <= 0
        BY FS_Subset, FS_CardinalityType DEF UpTo
      <4> QED BY <4>1, FS_EmptySet
    <3>2. AddsUp(g, f, UpTo(S, 0))
      BY <3>1, Zenon DEF AddsUp
    <3> QED BY <2>1, <2>2, <3>2
  <2>3. CASE n # 0
    <3>1. n - 1 \in Nat /\ (n - 1) + 1 = n /\ ~(n <= n - 1)
      BY <2>1, <2>3
    <3>2. n - 1 \notin T
      BY <2>1, <3>1
    <3>3. PICK g : AddsUp(g, f, UpTo(S, n - 1))
      BY <3>1, <3>2
    <3>4. \E h : AddsUp(h, f, UpTo(S, n))
      BY <3>1, <3>3, AddsUpMore
    <3> QED BY <2>1, <3>4
  <2> QED BY <2>2, <2>3
<1>2. Cardinality(S) \in Nat
  BY FS_CardinalityType
<1>3. UpTo(S, Cardinality(S)) = SUBSET S
  BY FS_Subset DEF UpTo
<1>4. Cardinality(S) \notin T
  BY <1>1
<1>5. \E g : AddsUp(g, f, UpTo(S, Cardinality(S)))
  BY <1>2, <1>4
<1> QED BY <1>3, <1>5

(* A sum is what adds up.                                                   *)
Sums(g, f, S) == AddsUp(g, f, SUBSET S)

LEMMA SumIs ==
  ASSUME NEW f, NEW S, IsFiniteSet(S)
  PROVE  \E g : Sums(g, f, S) /\ SumFunctionOnSet(f, S) = g[S]
<1>1. SumFunctionOnSet(f, S) = (CHOOSE g : Sums(g, f, S))[S]
  BY Zenon DEF SumFunctionOnSet, FoldFunctionOnSet, MapThenFoldSet, Sums, AddsUp, Chosen
<1>2. Sums(CHOOSE g : Sums(g, f, S), f, S)
  BY SomethingAddsUp DEF Sums
<1> QED BY <1>1, <1>2

LEMMA SumsAt ==
  ASSUME NEW g, NEW f, NEW S, Sums(g, f, S), NEW s \in SUBSET S
  PROVE  g[s] = IF s = {} THEN 0 ELSE f[Chosen(s)] + g[s \ {Chosen(s)}]
BY AddsUpAt DEF Sums

Agree(f, h, T) == \A x \in T : f[x] = h[x]

(* It depends on the values in the set only, ...                            *)
LEMMA SumsSame ==
  ASSUME NEW S, IsFiniteSet(S), NEW R, NEW f, NEW h, NEW g, Sums(g, f, S),
         NEW k, Sums(k, h, R), NEW T \in SUBSET S, T \in SUBSET R,
         Agree(f, h, T)
  PROVE  g[T] = k[T]
<1> DEFINE B == {s \in SUBSET T : g[s] # k[s]}
<1>1. SUFFICES ASSUME B # {} PROVE FALSE
  OBVIOUS
<1>2. IsFiniteSet(T) /\ B \in SUBSET (SUBSET T)
  BY FS_Subset
<1>3. PICK s \in B : \A x \in s : s \ {x} \notin B
  <2> HIDE DEF B
  <2> QED BY <1>1, <1>2, SmallestSet
<1>4. s \in SUBSET S /\ s \in SUBSET R /\ s \in SUBSET T /\ g[s] # k[s]
  BY <1>3
<1>5. CASE s = {}
  BY <1>4, <1>5, SumsAt
<1>6. CASE s # {}
  <2>1. Chosen(s) \in s /\ s \ {Chosen(s)} \in SUBSET T
    BY <1>4, <1>6, ChosenIn
  <2>2. g[s \ {Chosen(s)}] = k[s \ {Chosen(s)}] /\ f[Chosen(s)] = h[Chosen(s)]
    BY <1>3, <1>4, <2>1 DEF Agree
  <2>3. /\ g[s] = f[Chosen(s)] + g[s \ {Chosen(s)}]
        /\ k[s] = h[Chosen(s)] + k[s \ {Chosen(s)}]
    BY <1>4, <1>6, SumsAt
  <2> QED BY <1>4, <2>2, <2>3
<1> QED BY <1>5, <1>6

(* ... is a number, ...                                                     *)
LEMMA SumsNat ==
  ASSUME NEW S, IsFiniteSet(S), NEW f, \A x \in S : f[x] \in Nat, NEW g, Sums(g, f, S),
         NEW T \in SUBSET S
  PROVE  g[T] \in Nat
<1> DEFINE B == {s \in SUBSET S : g[s] \notin Nat}
<1>1. SUFFICES ASSUME B # {} PROVE FALSE
  OBVIOUS
<1>2. PICK s \in B : \A x \in s : s \ {x} \notin B
  <2>1. B \in SUBSET (SUBSET S)
    OBVIOUS
  <2> HIDE DEF B
  <2> QED BY <1>1, <2>1, SmallestSet
<1>3. s \in SUBSET S /\ g[s] \notin Nat
  BY <1>2
<1>4. CASE s = {}
  <2>1. g[s] = 0
    BY <1>3, <1>4, SumsAt
  <2> QED BY <1>3, <2>1
<1>5. CASE s # {}
  <2>1. Chosen(s) \in s
    BY <1>5, ChosenIn
  <2>2. g[s \ {Chosen(s)}] \in Nat /\ f[Chosen(s)] \in Nat
    BY <1>2, <1>3, <2>1
  <2>3. g[s] = f[Chosen(s)] + g[s \ {Chosen(s)}]
    BY <1>3, <1>5, SumsAt
  <2> QED BY <1>3, <2>2, <2>3
<1> QED BY <1>4, <1>5

(* ... and may begin with any element.                                      *)
LEMMA SumsAny ==
  ASSUME NEW S, IsFiniteSet(S), NEW f, \A x \in S : f[x] \in Nat, NEW g, Sums(g, f, S),
         NEW T \in SUBSET S, NEW y \in T
  PROVE  g[T] = f[y] + g[T \ {y}]
<1> DEFINE B == {s \in SUBSET S : \E z \in s : g[s] # f[z] + g[s \ {z}]}
<1>1. SUFFICES ASSUME B # {} PROVE FALSE
  OBVIOUS
<1>2. PICK s \in B : \A x \in s : s \ {x} \notin B
  <2>1. B \in SUBSET (SUBSET S)
    OBVIOUS
  <2> HIDE DEF B
  <2> QED BY <1>1, <2>1, SmallestSet
<1>3. PICK z \in s : g[s] # f[z] + g[s \ {z}]
  BY <1>2
<1>4. s \in SUBSET S /\ s # {}
  BY <1>2, <1>3
<1>5. PICK x : x = Chosen(s)
  OBVIOUS
<1>6. x \in s /\ g[s] = f[x] + g[s \ {x}]
  <2>1. Chosen(s) \in s
    BY <1>4, ChosenIn
  <2>2. g[s] = f[Chosen(s)] + g[s \ {Chosen(s)}]
    BY <1>4, SumsAt
  <2> QED BY <1>5, <2>1, <2>2
<1>7. x # z
  BY <1>3, <1>6
<1>8. PICK r : r = (s \ {x}) \ {z}
  OBVIOUS
<1>9. z \in s \ {x} /\ x \in s \ {z} /\ r = (s \ {z}) \ {x}
  BY <1>3, <1>6, <1>7, <1>8
<1>10. g[s \ {x}] = f[z] + g[r] /\ g[s \ {z}] = f[x] + g[r]
  <2>1. s \ {x} \in SUBSET S /\ s \ {z} \in SUBSET S
    BY <1>4
  <2>2. s \ {x} \notin B /\ s \ {z} \notin B
    BY <1>2, <1>3, <1>6
  <2>3. \A v \in s \ {x} : g[s \ {x}] = f[v] + g[(s \ {x}) \ {v}]
    BY <2>1, <2>2
  <2>4. \A v \in s \ {z} : g[s \ {z}] = f[v] + g[(s \ {z}) \ {v}]
    BY <2>1, <2>2
  <2> QED BY <1>8, <1>9, <2>3, <2>4
<1>11. f[x] \in Nat /\ f[z] \in Nat /\ g[r] \in Nat
  <2>1. r \in SUBSET S
    BY <1>4, <1>8
  <2> QED BY <1>3, <1>4, <1>6, <2>1, SumsNat
<1> QED BY ONLY <1>3, <1>6, <1>10, <1>11

-----------------------------------------------------------------------------
LEMMA SumOfNone ==
  ASSUME NEW f
  PROVE  SumFunctionOnSet(f, {}) = 0
<1>1. IsFiniteSet({})
  BY FS_EmptySet
<1>2. PICK g : Sums(g, f, {}) /\ SumFunctionOnSet(f, {}) = g[{}]
  BY <1>1, SumIs
<1>3. {} \in SUBSET {}
  OBVIOUS
<1> QED BY <1>2, <1>3, SumsAt

LEMMA SumIsNumber ==
  ASSUME NEW f, NEW S, IsFiniteSet(S), \A x \in S : f[x] \in Nat
  PROVE  SumFunctionOnSet(f, S) \in Nat
<1>1. PICK g : Sums(g, f, S) /\ SumFunctionOnSet(f, S) = g[S]
  BY SumIs
<1>2. S \in SUBSET S
  OBVIOUS
<1>3. g[S] \in Nat
  BY <1>1, <1>2, SumsNat
<1> QED BY <1>1, <1>3

LEMMA SumSame ==
  ASSUME NEW f, NEW h, NEW S, IsFiniteSet(S), \A x \in S : f[x] = h[x]
  PROVE  SumFunctionOnSet(f, S) = SumFunctionOnSet(h, S)
<1>1. PICK g : Sums(g, f, S) /\ SumFunctionOnSet(f, S) = g[S]
  BY SumIs
<1>2. PICK k : Sums(k, h, S) /\ SumFunctionOnSet(h, S) = k[S]
  BY SumIs
<1>3. S \in SUBSET S
  OBVIOUS
<1>4. Sums(g, f, S) /\ Sums(k, h, S)
  BY <1>1, <1>2
<1>5. g[S] = k[S]
  <2>1. Agree(f, h, S)
    BY DEF Agree
  <2> QED BY <1>3, <1>4, <2>1, SumsSame
<1> QED BY <1>1, <1>2, <1>5

LEMMA SumWithout ==
  ASSUME NEW f, NEW S, IsFiniteSet(S), \A x \in S : f[x] \in Nat, NEW y \in S
  PROVE  SumFunctionOnSet(f, S) = f[y] + SumFunctionOnSet(f, S \ {y})
<1> DEFINE R == S \ {y}
<1>1. IsFiniteSet(R) /\ R \in SUBSET S /\ R \in SUBSET R
  BY FS_Subset
<1>2. PICK g : Sums(g, f, S) /\ SumFunctionOnSet(f, S) = g[S]
  BY SumIs
<1>3. PICK k : Sums(k, f, R) /\ SumFunctionOnSet(f, R) = k[R]
  BY <1>1, SumIs
<1>4. g[R] = k[R]
  <2>1. Agree(f, f, R)
    BY DEF Agree
  <2> QED BY <1>1, <1>2, <1>3, <2>1, SumsSame
<1>5. g[S] = f[y] + g[R]
  <2>1. S \in SUBSET S
    OBVIOUS
  <2> QED BY <1>2, <2>1, SumsAny
<1> QED BY <1>2, <1>3, <1>4, <1>5

(* Sets without a common element.                                           *)
LEMMA SumOfUnion ==
  ASSUME NEW f, NEW S, NEW R, IsFiniteSet(S), IsFiniteSet(R), S \cap R = {},
         \A x \in S \cup R : f[x] \in Nat
  PROVE  SumFunctionOnSet(f, S \cup R) = SumFunctionOnSet(f, S) + SumFunctionOnSet(f, R)
<1> DEFINE Holds(s) ==
             SumFunctionOnSet(f, S \cup s) = SumFunctionOnSet(f, S) + SumFunctionOnSet(f, s)
           B == {s \in SUBSET R : ~Holds(s)}
<1>1. SUFFICES ASSUME B # {} PROVE FALSE
  OBVIOUS
<1>2. PICK s \in B : \A x \in s : s \ {x} \notin B
  <2>1. B \in SUBSET (SUBSET R)
    OBVIOUS
  <2> HIDE DEF B
  <2> QED BY <1>1, <2>1, SmallestSet
<1>3. s \in SUBSET R /\ ~Holds(s) /\ IsFiniteSet(s) /\ IsFiniteSet(S \cup s)
  BY <1>2, FS_Subset, FS_Union
<1>4. /\ SumFunctionOnSet(f, S) \in Nat /\ \A x \in S \cup s : f[x] \in Nat
      /\ \A x \in s : f[x] \in Nat
  BY <1>3, SumIsNumber
<1>5. CASE s = {}
  <2>1. S \cup s = S /\ SumFunctionOnSet(f, s) = 0
    BY <1>5, SumOfNone
  <2> QED BY <1>3, <1>4, <2>1
<1>6. CASE s # {}
  <2>1. PICK x : x \in s
    BY <1>6
  <2> DEFINE r == s \ {x}
  <2>2. Holds(r)
    BY <1>2, <1>3, <2>1
  <2>3. x \in S \cup s /\ (S \cup s) \ {x} = S \cup r
    BY <1>3, <2>1
  <2>4. SumFunctionOnSet(f, S \cup s) = f[x] + SumFunctionOnSet(f, S \cup r)
    BY <1>3, <1>4, <2>3, SumWithout
  <2>5. SumFunctionOnSet(f, s) = f[x] + SumFunctionOnSet(f, r)
    BY <1>3, <1>4, <2>1, SumWithout
  <2>6. IsFiniteSet(r) /\ \A y \in r : f[y] \in Nat
    BY <1>3, <1>4, FS_Subset
  <2>7. SumFunctionOnSet(f, r) \in Nat /\ f[x] \in Nat
    BY <1>4, <2>1, <2>6, SumIsNumber
  <2>8. SumFunctionOnSet(f, S \cup r) = SumFunctionOnSet(f, S) + SumFunctionOnSet(f, r)
    BY <2>2
  <2> HIDE DEF r
  <2> QED BY <1>3, <1>4, <2>4, <2>5, <2>7, <2>8
<1> QED BY <1>5, <1>6

(* Over an interval with one more index, and over one index.                *)
LEMMA SumOneMore ==
  ASSUME NEW f, NEW a \in Int, NEW b \in Int, a <= b, \A x \in a .. b : f[x] \in Nat
  PROVE  SumFunctionOnSet(f, a .. b) = SumFunctionOnSet(f, a .. (b - 1)) + f[b]
<1>1. IsFiniteSet(a .. b) /\ b \in a .. b /\ (a .. b) \ {b} = a .. (b - 1)
  BY FS_Interval
<1>2. SumFunctionOnSet(f, a .. b) = f[b] + SumFunctionOnSet(f, a .. (b - 1))
  BY <1>1, SumWithout
<1>3. IsFiniteSet(a .. (b - 1)) /\ \A x \in a .. (b - 1) : f[x] \in Nat
  BY FS_Interval
<1>4. SumFunctionOnSet(f, a .. (b - 1)) \in Nat /\ f[b] \in Nat
  BY <1>1, <1>3, SumIsNumber
<1> QED BY <1>2, <1>4

LEMMA SumOfOne ==
  ASSUME NEW f, NEW x, f[x] \in Nat
  PROVE  SumFunctionOnSet(f, {x}) = f[x]
<1>1. IsFiniteSet({x}) /\ {x} \ {x} = {}
  BY FS_Singleton
<1>2. SumFunctionOnSet(f, {x}) = f[x] + SumFunctionOnSet(f, {x} \ {x})
  BY <1>1, SumWithout
<1> QED BY <1>1, <1>2, SumOfNone
=============================================================================
