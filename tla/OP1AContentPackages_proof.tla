--------------------- MODULE OP1AContentPackages_proof ---------------------
(***************************************************************************)
(* The file holds every track's samples in the right packages, for any     *)
(* tracks, sample sequences, pool size and interleaving of calls.          *)
(***************************************************************************)
EXTENDS OP1AContentPackages, SampleSequences_proof

-----------------------------------------------------------------------------
(* How full a package is. *)

(* How far an element is filled is a natural number. *)
LEMMA FilledType ==
  ASSUME NEW t \in Track, NEW n \in Nat, NEW p \in Nat
  PROVE  Filled(t, n, p) \in Nat /\ Filled(t, n, p) <= GetNumSamples(t, p)
<1>1. /\ SamplesBefore(t, p) \in Nat
      /\ SamplesBefore(t, p + 1) = SamplesBefore(t, p) + GetNumSamples(t, p)
      /\ GetNumSamples(t, p) \in Nat \ {0}
  BY SamplesBeforeType, SamplesBeforeStep, GetNumSamplesType
<1> QED BY <1>1 DEF Filled

(* The package that the next sample of t belongs to is partly filled.      *)
LEMMA FilledCurrent ==
  ASSUME NEW t \in Track, NEW n \in Nat, NEW p \in Nat,
         SamplesBefore(t, p) <= n, n < SamplesBefore(t, p + 1)
  PROVE  /\ Filled(t, n, p) = n - SamplesBefore(t, p)
         /\ GetNumSamples(t, p) - Filled(t, n, p) = SamplesBefore(t, p + 1) - n
<1>1. /\ SamplesBefore(t, p) \in Nat
      /\ SamplesBefore(t, p + 1) = SamplesBefore(t, p) + GetNumSamples(t, p)
      /\ GetNumSamples(t, p) \in Nat \ {0}
  BY SamplesBeforeType, SamplesBeforeStep, GetNumSamplesType
<1> QED BY <1>1 DEF Filled

(* m more samples in the package at p leave every other package as it was. *)
LEMMA FilledMore ==
  ASSUME NEW t \in Track, NEW n \in Nat, NEW m \in Nat, NEW p \in Nat,
         SamplesBefore(t, p) <= n, n < SamplesBefore(t, p + 1),
         n + m <= SamplesBefore(t, p + 1)
  PROVE  /\ Filled(t, n + m, p) = Filled(t, n, p) + m
         /\ \A q \in Nat : q # p => Filled(t, n + m, q) = Filled(t, n, q)
<1>1. /\ SamplesBefore(t, p) \in Nat
      /\ SamplesBefore(t, p + 1) = SamplesBefore(t, p) + GetNumSamples(t, p)
      /\ GetNumSamples(t, p) \in Nat \ {0}
  BY SamplesBeforeType, SamplesBeforeStep, GetNumSamplesType
<1>2. Filled(t, n + m, p) = Filled(t, n, p) + m
  BY <1>1 DEF Filled
<1>3. ASSUME NEW q \in Nat, q < p
      PROVE  Filled(t, n + m, q) = Filled(t, n, q)
  <2>1. SamplesBefore(t, q + 1) <= SamplesBefore(t, p)
    BY <1>3, SamplesBeforeMonotone
  <2>2. /\ SamplesBefore(t, q) \in Nat
        /\ SamplesBefore(t, q + 1) = SamplesBefore(t, q) + GetNumSamples(t, q)
        /\ GetNumSamples(t, q) \in Nat \ {0}
    BY SamplesBeforeType, SamplesBeforeStep, GetNumSamplesType
  <2> QED BY <1>1, <2>1, <2>2 DEF Filled
<1>4. ASSUME NEW q \in Nat, q > p
      PROVE  Filled(t, n + m, q) = Filled(t, n, q)
  <2>1. SamplesBefore(t, p + 1) <= SamplesBefore(t, q)
    BY <1>4, SamplesBeforeMonotone
  <2>2. SamplesBefore(t, q) \in Nat
    BY SamplesBeforeType
  <2> QED BY <1>1, <2>1, <2>2 DEF Filled
<1> QED BY <1>2, <1>3, <1>4

-----------------------------------------------------------------------------
(* Packages. *)

(* A package fit for use at pos, when no sample beyond pos was accepted.   *)
LEMMA FreshPackage ==
  ASSUME NEW pos \in Nat, NEW n \in [Track -> Nat],
         \A t \in Track : n[t] <= SamplesBefore(t, pos),
         NEW cp \in ContentPackage
  PROVE  /\ NewContentPackage(pos) \in ContentPackage
         /\ HoldsShare(NewContentPackage(pos), n, pos)
         /\ Reset(cp, pos) \in ContentPackage
         /\ HoldsShare(Reset(cp, pos), n, pos)
<1>1. \A t \in Track : GetNumSamples(t, pos) \in Nat \ {0}
  BY GetNumSamplesType
<1>2. \A t \in Track : Filled(t, n[t], pos) = 0
  BY DEF Filled
<1>3. \A t \in Track : Run(SamplesBefore(t, pos), 0) = <<>>
  BY RunEmpty, SamplesBeforeType
<1>4. NewContentPackage(pos) \in ContentPackage
  BY <1>1 DEF NewContentPackage, ContentPackage
<1>5. HoldsShare(NewContentPackage(pos), n, pos)
  BY <1>2, <1>3 DEF HoldsShare, NewContentPackage
<1>6. Reset(cp, pos) \in ContentPackage
  <2>1. cp.userTimecode \in Nat
    BY DEF ContentPackage
  <2> QED BY <1>4, <2>1 DEF Reset, ContentPackage
<1>7. HoldsShare(Reset(cp, pos), n, pos)
  <2>1. /\ Reset(cp, pos).position = NewContentPackage(pos).position
        /\ Reset(cp, pos).numSamples = NewContentPackage(pos).numSamples
        /\ Reset(cp, pos).numSamplesWritten = NewContentPackage(pos).numSamplesWritten
        /\ Reset(cp, pos).data = NewContentPackage(pos).data
    BY DEF Reset, NewContentPackage
  <2> QED BY <1>5, <2>1 DEF HoldsShare
<1> QED BY <1>4, <1>5, <1>6, <1>7

(* The queue and pool that a write to package i works on.                  *)
LEMMA QueueForPackage ==
  ASSUME IInv, NEW i \in 1 .. (Len(contentPackages) + 1),
         i > Len(contentPackages) => CanCreate
  PROVE  /\ QueueFor(i) \in Seq(ContentPackage)
         /\ FreeFor(i) \in Seq(ContentPackage)
         /\ i <= Len(QueueFor(i))
         /\ Len(contentPackages) <= Len(QueueFor(i))
         /\ Len(QueueFor(i)) + Len(FreeFor(i)) <= MaxContentPackages
         /\ QueueInv(QueueFor(i), accepted)
<1> DEFINE N == Len(contentPackages)
           pos == position + N
           free == freeContentPackages
<1> USE DEF IInv, StateType
<1>1. N \in Nat /\ Len(free) \in Nat /\ pos \in Nat /\ MaxContentPackages \in Nat
  BY ManagerAssumption
<1>2. CASE i <= N
  BY <1>1, <1>2 DEF QueueFor, FreeFor, PoolBounded
<1>3. CASE i = N + 1
  <2>1. CanCreate
    BY <1>1, <1>3
  <2>2. \A t \in Track : accepted[t] <= SamplesBefore(t, pos)
    BY DEF AcceptedInv
  <2>3. PICK cp : /\ QueueAfterCreate = Append(contentPackages, cp)
                  /\ cp \in ContentPackage
                  /\ HoldsShare(cp, accepted, pos)
    <3>1. CASE free = <<>>
      <4>1. QueueAfterCreate = Append(contentPackages, NewContentPackage(pos))
        BY <3>1 DEF QueueAfterCreate
      <4>2. ContentPackage # {}
        <5>1. \A t \in Track : GetNumSamples(t, pos) \in Nat \ {0}
          BY <1>1, GetNumSamplesType
        <5>2. NewContentPackage(pos) \in ContentPackage
          BY <1>1, <5>1 DEF NewContentPackage, ContentPackage
        <5> QED BY <5>2
      <4> QED BY <1>1, <2>2, <4>1, <4>2, FreshPackage
    <3>2. CASE free # <<>>
      <4>1. free[Len(free)] \in ContentPackage
        BY <3>2
      <4>2. QueueAfterCreate = Append(contentPackages, Reset(free[Len(free)], pos))
        BY <3>2 DEF QueueAfterCreate
      <4> QED BY <1>1, <2>2, <4>1, <4>2, FreshPackage
    <3> QED BY <3>1, <3>2
  <2>4. QueueFor(i) = Append(contentPackages, cp) /\ FreeFor(i) = FreeAfterCreate
    BY <1>1, <1>3, <2>3 DEF QueueFor, FreeFor
  <2>5. /\ QueueFor(i) \in Seq(ContentPackage)
        /\ Len(QueueFor(i)) = N + 1
        /\ \A j \in 1 .. N : QueueFor(i)[j] = contentPackages[j]
        /\ QueueFor(i)[N + 1] = cp
    BY <2>3, <2>4, AppendProperties
  <2>6. QueueInv(QueueFor(i), accepted)
    <3>1. ASSUME NEW j \in 1 .. Len(QueueFor(i))
          PROVE  HoldsShare(QueueFor(i)[j], accepted, position + j - 1)
      <4>1. CASE j = N + 1
        <5>1. position + j - 1 = pos
          BY <1>1, <4>1
        <5> QED BY <2>3, <2>5, <4>1, <5>1
      <4>2. CASE j <= N
        BY <1>1, <2>5, <4>2 DEF QueueInv
      <4> QED BY <1>1, <2>5, <4>1, <4>2
    <3> QED BY <3>1 DEF QueueInv
  <2>7. /\ FreeFor(i) \in Seq(ContentPackage)
        /\ N + 1 + Len(FreeFor(i)) <= MaxContentPackages
    <3>1. N + Len(free) <= MaxContentPackages
      BY DEF PoolBounded
    <3>2. CASE free = <<>>
      <4>1. FreeFor(i) = <<>> /\ N < MaxContentPackages
        BY <2>1, <2>4, <3>2 DEF FreeAfterCreate, CanCreate
      <4> QED BY <1>1, <4>1
    <3>3. CASE free # <<>>
      <4>1. Len(free) > 0
        BY <3>3
      <4>2. FreeFor(i) \in Seq(ContentPackage) /\ Len(FreeFor(i)) = Len(free) - 1
        BY <1>1, <2>4, <4>1 DEF FreeAfterCreate
      <4> QED BY <1>1, <3>1, <4>1, <4>2
    <3> QED BY <3>2, <3>3
  <2> QED BY <1>1, <1>3, <2>5, <2>6, <2>7
<1>4. i <= N \/ i = N + 1
  BY <1>1
<1> QED BY <1>2, <1>3, <1>4

(* The package that takes the next n samples of t holds its share of them. *)
LEMMA WriteElementShare ==
  ASSUME NEW t \in Track, NEW n \in Nat, NEW pos \in Nat,
         accepted \in [Track -> Nat], NEW more \in [Track -> Nat],
         more = [accepted EXCEPT ![t] = @ + n],
         SamplesBefore(t, pos) <= accepted[t],
         accepted[t] < SamplesBefore(t, pos + 1),
         accepted[t] + n <= SamplesBefore(t, pos + 1),
         NEW cp \in ContentPackage, HoldsShare(cp, accepted, pos)
  PROVE  /\ WriteElement(cp, t, n) \in ContentPackage
         /\ HoldsShare(WriteElement(cp, t, n), more, pos)
<1> DEFINE w == WriteElement(cp, t, n)
           k == SamplesBefore(t, pos)
<1>1. k \in Nat /\ accepted[t] \in Nat
  BY SamplesBeforeType
<1>2. /\ cp.data \in [Track -> Seq(Nat)]
      /\ cp.numSamplesWritten \in [Track -> Nat]
      /\ cp.numSamples \in [Track -> Nat \ {0}]
  BY DEF ContentPackage
<1>3. Run(accepted[t], n) \in Seq(Nat)
  BY <1>1, RunType
<1>4. /\ w.position = cp.position
      /\ w.numSamples = cp.numSamples
      /\ w.data = [cp.data EXCEPT ![t] = @ \o Run(accepted[t], n)]
      /\ w.numSamplesWritten = [cp.numSamplesWritten EXCEPT ![t] = @ + n]
      /\ w.userTimecodeSet = cp.userTimecodeSet
      /\ w.userTimecode = cp.userTimecode
      /\ w.haveUpdatedIndex = cp.haveUpdatedIndex
  BY DEF WriteElement, ContentPackage
<1>5. w \in ContentPackage
  <2>1. cp.data[t] \o Run(accepted[t], n) \in Seq(Nat)
    BY <1>2, <1>3, ConcatProperties
  <2>2. [cp.data EXCEPT ![t] = @ \o Run(accepted[t], n)] \in [Track -> Seq(Nat)]
    BY <1>2, <2>1
  <2>3. [cp.numSamplesWritten EXCEPT ![t] = @ + n] \in [Track -> Nat]
    BY SMTT(30), <1>2
  <2> QED BY <2>2, <2>3 DEF WriteElement, ContentPackage
<1>6. /\ Filled(t, accepted[t], pos) = accepted[t] - k
      /\ Filled(t, accepted[t] + n, pos) = Filled(t, accepted[t], pos) + n
  BY <1>1, FilledCurrent, FilledMore
<1>7. ASSUME NEW u \in Track
      PROVE  /\ w.numSamples[u] = GetNumSamples(u, pos)
             /\ w.numSamplesWritten[u] = Filled(u, more[u], pos)
             /\ w.data[u] = Run(SamplesBefore(u, pos), Filled(u, more[u], pos))
  <2>1. /\ cp.numSamples[u] = GetNumSamples(u, pos)
        /\ cp.numSamplesWritten[u] = Filled(u, accepted[u], pos)
        /\ cp.data[u] = Run(SamplesBefore(u, pos), Filled(u, accepted[u], pos))
    BY DEF HoldsShare
  <2>2. CASE u = t
    <3>1. more[u] = accepted[t] + n
      BY <2>2
    <3>2. w.data[t] = Run(k, accepted[t] - k) \o Run(k + (accepted[t] - k), n)
      <4>1. cp.data[t] = Run(k, accepted[t] - k)
        BY <1>6, <2>1, <2>2
      <4>2. w.data[t] = cp.data[t] \o Run(accepted[t], n)
        BY <1>2, <1>4
      <4>3. k + (accepted[t] - k) = accepted[t]
        BY <1>1
      <4> QED BY <4>1, <4>2, <4>3
    <3>3. Run(k, accepted[t] - k) \o Run(k + (accepted[t] - k), n)
            = Run(k, accepted[t] - k + n)
      <4> DEFINE h == accepted[t] - k
      <4>1. k \in Nat /\ h \in Nat /\ n \in Nat
        BY <1>1
      <4> HIDE DEF h, k
      <4>2. Run(k, h) \o Run(k + h, n) = Run(k, h + n)
        BY ONLY <4>1, RunConcat
      <4> QED BY <4>2 DEF h
    <3>4. w.numSamplesWritten[t] = Filled(t, accepted[t], pos) + n
      BY <1>2, <1>4, <2>1, <2>2
    <3>5. accepted[t] - k + n = Filled(t, more[t], pos)
      BY <1>6, <2>2, <3>1
    <3>6. w.numSamples[t] = GetNumSamples(t, pos)
      BY <1>4, <2>1, <2>2
    <3>7. w.numSamplesWritten[t] = Filled(t, more[t], pos)
      BY <1>6, <2>2, <3>1, <3>4
    <3>8. w.data[t] = Run(k, Filled(t, more[t], pos))
      BY <3>2, <3>3, <3>5
    <3> QED BY <2>2, <3>6, <3>7, <3>8
  <2>3. CASE u # t
    BY <1>2, <1>4, <2>1, <2>3
  <2> QED BY <2>2, <2>3
<1>8. w.position = pos
  BY <1>4 DEF HoldsShare
<1>9. HoldsShare(w, more, pos)
  BY <1>7, <1>8 DEF HoldsShare
<1> QED BY <1>5, <1>9

(* A package elsewhere in the queue is none the wiser.                     *)
LEMMA OtherPackageShare ==
  ASSUME NEW t \in Track, NEW n \in Nat, NEW pos \in Nat, NEW other \in Nat,
         other # pos,
         accepted \in [Track -> Nat], NEW more \in [Track -> Nat],
         more = [accepted EXCEPT ![t] = @ + n],
         SamplesBefore(t, pos) <= accepted[t],
         accepted[t] < SamplesBefore(t, pos + 1),
         accepted[t] + n <= SamplesBefore(t, pos + 1),
         NEW cp, HoldsShare(cp, accepted, other)
  PROVE  HoldsShare(cp, more, other)
<1>1. Filled(t, accepted[t] + n, other) = Filled(t, accepted[t], other)
  BY FilledMore
<1>2. \A u \in Track : Filled(u, more[u], other) = Filled(u, accepted[u], other)
  BY <1>1
<1> QED BY <1>2 DEF HoldsShare

(* Everything that a write to package i preserves.                         *)
LEMMA WriteToPackageInv ==
  ASSUME IInv, NEW t \in Track, NEW i \in 1 .. (Len(contentPackages) + 1),
         NEW n \in Nat \ {0},
         i > Len(contentPackages) => CanCreate,
         SamplesBefore(t, position + i - 1) <= accepted[t],
         accepted[t] < SamplesBefore(t, position + i),
         accepted[t] + n <= SamplesBefore(t, position + i),
         WriteToPackage(t, i, n),
         call' \in [track : Track, rem : Nat \ {0}, cp : Nat \ {0}] \cup {NoCall}
  PROVE  /\ StateType'
         /\ (Len(file) = position)'
         /\ FileInterleaved'
         /\ PoolBounded'
         /\ QueueInv(contentPackages, accepted)'
         /\ AcceptedInv'
         /\ i <= Len(contentPackages')
<1> DEFINE Q == QueueFor(i)
           pos == position + i - 1
           w == WriteElement(Q[i], t, n)
<1>1. /\ position \in Nat /\ accepted \in [Track -> Nat]
      /\ contentPackages \in Seq(ContentPackage) /\ Len(contentPackages) \in Nat
      /\ pos \in Nat /\ pos + 1 = position + i
      /\ position' = position
      /\ accepted' = [accepted EXCEPT ![t] = @ + n]
      /\ accepted' \in [Track -> Nat]
  BY DEF IInv, StateType, WriteToPackage
<1>2. /\ Q \in Seq(ContentPackage)
      /\ FreeFor(i) \in Seq(ContentPackage)
      /\ i <= Len(Q)
      /\ Len(contentPackages) <= Len(Q)
      /\ Len(Q) + Len(FreeFor(i)) <= MaxContentPackages
      /\ QueueInv(Q, accepted)
  BY QueueForPackage
<1>3. /\ contentPackages' = [Q EXCEPT ![i] = w]
      /\ freeContentPackages' = FreeFor(i)
  BY DEF WriteToPackage
<1>13. /\ SamplesBefore(t, pos) <= accepted[t]
       /\ accepted[t] < SamplesBefore(t, pos + 1)
       /\ accepted[t] + n <= SamplesBefore(t, pos + 1)
  BY <1>1
<1> HIDE DEF Q, pos, w
<1>4. i \in 1 .. Len(Q) /\ Q[i] \in ContentPackage
  BY <1>2
<1>5. HoldsShare(Q[i], accepted, pos)
  BY <1>2, <1>4 DEF QueueInv, pos
<1>6. w \in ContentPackage /\ HoldsShare(w, accepted', pos)
  BY <1>1, <1>4, <1>5, <1>13, WriteElementShare DEF w
<1>7. /\ contentPackages' \in Seq(ContentPackage)
      /\ Len(contentPackages') = Len(Q)
      /\ \A j \in 1 .. Len(Q) : contentPackages'[j] = IF j = i THEN w ELSE Q[j]
  <2>1. /\ [Q EXCEPT ![i] = w] \in Seq(ContentPackage)
        /\ Len([Q EXCEPT ![i] = w]) = Len(Q)
        /\ \A j \in 1 .. Len(Q) : [Q EXCEPT ![i] = w][j] = IF j = i THEN w ELSE Q[j]
    BY <1>2, <1>4, <1>6, ExceptSeq
  <2> QED BY <1>3, <2>1
<1>8. QueueInv(contentPackages, accepted)'
  <2>1. ASSUME NEW j \in 1 .. Len(Q)
        PROVE  HoldsShare(contentPackages'[j], accepted', position + j - 1)
    <3>1. CASE j = i
      BY <1>6, <1>7, <3>1 DEF pos
    <3>2. CASE j # i
      <4>1. position + j - 1 \in Nat /\ position + j - 1 # pos
        BY <1>1, <3>2 DEF pos
      <4>2. HoldsShare(Q[j], accepted, position + j - 1)
        BY <1>2 DEF QueueInv
      <4>3. HoldsShare(Q[j], accepted', position + j - 1)
        BY <1>1, <1>13, <4>1, <4>2, OtherPackageShare
      <4> QED BY <1>7, <3>2, <4>3
    <3> QED BY <3>1, <3>2
  <2> QED BY <1>1, <1>7, <2>1 DEF QueueInv
<1>9. AcceptedInv'
  <2>1. ASSUME NEW u \in Track
        PROVE  /\ SamplesBefore(u, position) <= accepted'[u]
               /\ accepted'[u] <= SamplesBefore(u, position + Len(Q))
    <3>1. /\ SamplesBefore(u, position) <= accepted[u]
          /\ accepted[u] <= SamplesBefore(u, position + Len(contentPackages))
      BY DEF IInv, AcceptedInv
    <3>2. /\ SamplesBefore(u, position + Len(contentPackages))
               <= SamplesBefore(u, position + Len(Q))
          /\ SamplesBefore(u, position + i) <= SamplesBefore(u, position + Len(Q))
      BY SMTT(30), <1>1, <1>2, SamplesBeforeMonotone
    <3>3. /\ SamplesBefore(u, position) \in Nat
          /\ SamplesBefore(u, position + i) \in Nat
          /\ SamplesBefore(u, position + Len(contentPackages)) \in Nat
          /\ SamplesBefore(u, position + Len(Q)) \in Nat
      <4>1. /\ position \in Nat /\ position + i \in Nat
            /\ position + Len(contentPackages) \in Nat
            /\ position + Len(Q) \in Nat
        BY <1>1, <1>2
      <4> QED BY <4>1, SamplesBeforeType
    <3>4. accepted[u] \in Nat /\ accepted'[u] \in Nat /\ accepted[u] <= accepted'[u]
      BY <1>1
    <3>5. CASE u = t
      <4>1. accepted'[u] = accepted[t] + n
        BY <1>1, <3>5
      <4> QED BY SMTT(30), <3>1, <3>2, <3>3, <3>4, <3>5, <4>1
    <3>6. CASE u # t
      <4>1. accepted'[u] = accepted[u]
        BY <1>1, <3>6
      <4> QED BY <3>1, <3>2, <3>3, <3>4, <4>1
    <3> QED BY <3>5, <3>6
  <2> QED BY <1>1, <1>7, <2>1 DEF AcceptedInv
<1>10. UNCHANGED <<position, status, timecodes, index, file>>
  BY DEF WriteToPackage
<1>11. StateType'
  BY <1>1, <1>2, <1>3, <1>7, <1>10 DEF IInv, StateType
<1>12. (Len(file) = position)' /\ FileInterleaved' /\ PoolBounded'
  BY <1>2, <1>3, <1>7, <1>10 DEF IInv, FileInterleaved, PoolBounded
<1> QED BY <1>2, <1>7, <1>8, <1>9, <1>11, <1>12

(* A queue of the same packages, but for timecodes and index flags, keeps  *)
(* the parts of the invariant that speak of the queue and the pool.        *)
LEMMA SameShares ==
  ASSUME IInv,
         UNCHANGED <<freeContentPackages, position, accepted, file>>,
         contentPackages' \in Seq(ContentPackage),
         Len(contentPackages') = Len(contentPackages),
         \A j \in 1 .. Len(contentPackages) :
           /\ contentPackages'[j].position = contentPackages[j].position
           /\ contentPackages'[j].numSamples = contentPackages[j].numSamples
           /\ contentPackages'[j].numSamplesWritten = contentPackages[j].numSamplesWritten
           /\ contentPackages'[j].data = contentPackages[j].data
  PROVE  /\ (Len(file) = position)'
         /\ FileInterleaved'
         /\ PoolBounded'
         /\ QueueInv(contentPackages, accepted)'
         /\ AcceptedInv'
<1>1. (Len(file) = position)' /\ FileInterleaved' /\ PoolBounded' /\ AcceptedInv'
  BY DEF IInv, FileInterleaved, PoolBounded, AcceptedInv
<1>2. QueueInv(contentPackages, accepted)'
  <2>1. ASSUME NEW j \in 1 .. Len(contentPackages)
        PROVE  HoldsShare(contentPackages'[j], accepted, position + j - 1)
    <3>1. HoldsShare(contentPackages[j], accepted, position + j - 1)
      BY DEF IInv, QueueInv
    <3> QED BY <3>1 DEF HoldsShare
  <2> QED BY <2>1 DEF QueueInv
<1> QED BY <1>1, <1>2

(* UpdateIndexTable on a content package leaves what it holds as it was. *)
LEMMA IndexedPackage ==
  ASSUME NEW cp \in ContentPackage
  PROVE  /\ Indexed(cp) \in ContentPackage
         /\ Indexed(cp).position = cp.position
         /\ Indexed(cp).numSamples = cp.numSamples
         /\ Indexed(cp).numSamplesWritten = cp.numSamplesWritten
         /\ Indexed(cp).data = cp.data
  BY DEF Indexed, ContentPackage

(* WriteUserTimecode on a content package leaves what it holds as it was. *)
LEMMA StampedPackage ==
  ASSUME NEW cp \in ContentPackage, NEW tc \in Nat
  PROVE  /\ StampTimecode(cp, tc) \in ContentPackage
         /\ StampTimecode(cp, tc).position = cp.position
         /\ StampTimecode(cp, tc).numSamples = cp.numSamples
         /\ StampTimecode(cp, tc).numSamplesWritten = cp.numSamplesWritten
         /\ StampTimecode(cp, tc).data = cp.data
  BY DEF StampTimecode, ContentPackage

(* What a package adds to the index table.                                 *)
LEMMA IndexEntriesType ==
  ASSUME IInv, NEW i \in 1 .. Len(contentPackages)
  PROVE  IndexEntries(i) \in Seq([Track -> Nat])
<1>1. contentPackages[i].data \in [Track -> Seq(Nat)]
  <2>1. contentPackages[i] \in ContentPackage
    BY DEF IInv, StateType
  <2> QED BY <2>1 DEF ContentPackage
<1>2. ElementSizes(contentPackages[i]) \in [Track -> Nat]
  BY <1>1 DEF ElementSizes
<1>3. <<ElementSizes(contentPackages[i])>> \in Seq([Track -> Nat])
  <2> HIDE DEF ElementSizes
  <2> QED BY <1>2
<1>4. <<>> \in Seq([Track -> Nat])
  BY EmptySeq
<1> QED BY <1>3, <1>4 DEF IndexEntries

-----------------------------------------------------------------------------
(* The actions. *)

(* The invariant holds once the manager is constructed. *)
LEMMA InitInv == Init => IInv
<1> SUFFICES ASSUME Init PROVE IInv
  OBVIOUS
<1>1. StateType
  BY DEF Init, StateType
<1>2. Len(file) = position /\ FileInterleaved
  BY DEF Init, FileInterleaved
<1>3. PoolBounded
  <2>1. Len(contentPackages) = 0 /\ Len(freeContentPackages) = 0
    BY DEF Init
  <2> QED BY <2>1, ManagerAssumption DEF PoolBounded
<1>4. QueueInv(contentPackages, accepted)
  BY DEF Init, QueueInv
<1>5. AcceptedInv
  <2>1. position = 0 /\ position + Len(contentPackages) = 0
    <3>1. position = 0 /\ Len(contentPackages) = 0
      BY DEF Init
    <3> QED BY <3>1
  <2>2. \A t \in Track : accepted[t] = 0
    BY DEF Init
  <2>3. \A t \in Track : SamplesBefore(t, 0) = 0
    BY SamplesBeforeZero
  <2>4. \A t \in Track : /\ SamplesBefore(t, position) = accepted[t]
                         /\ SamplesBefore(t, position + Len(contentPackages)) = accepted[t]
    BY <2>1, <2>2, <2>3, Zenon
  <2>5. ASSUME NEW t \in Track
        PROVE  /\ SamplesBefore(t, position) <= accepted[t]
               /\ accepted[t] <= SamplesBefore(t, position + Len(contentPackages))
    <3>1. /\ SamplesBefore(t, position) = 0 /\ accepted[t] = 0
          /\ SamplesBefore(t, position + Len(contentPackages)) = 0
      BY <2>2, <2>4, Zenon
    <3> QED BY <3>1
  <2> QED BY <2>5 DEF AcceptedInv
<1>6. CallInv
  BY DEF Init, CallInv
<1> QED BY <1>1, <1>2, <1>3, <1>4, <1>5, <1>6 DEF IInv

(* The package that GetCurrentContentPackage finds is the one that the     *)
(* next sample of the track belongs to.                                    *)
LEMMA CurrentPackage ==
  ASSUME IInv, NEW t \in Track, NEW i \in 1 .. (Len(contentPackages) + 1),
         IsCurrentContentPackage(t, i)
  PROVE  /\ SamplesBefore(t, position + i - 1) <= accepted[t]
         /\ accepted[t] < SamplesBefore(t, position + i)
<1> DEFINE N == Len(contentPackages)
           pos == position + i - 1
<1>1. /\ position \in Nat /\ accepted[t] \in Nat /\ N \in Nat
      /\ pos \in Nat /\ pos + 1 = position + i
  BY DEF IInv, StateType
<1>2. /\ SamplesBefore(t, pos) \in Nat
      /\ SamplesBefore(t, pos + 1) = SamplesBefore(t, pos) + GetNumSamples(t, pos)
      /\ GetNumSamples(t, pos) \in Nat \ {0}
  BY <1>1, SamplesBeforeType, SamplesBeforeStep, GetNumSamplesType
<1>3. t # SystemItem
  BY ManagerAssumption
<1>4. ASSUME NEW j \in 1 .. N
      PROVE  IsReadyForTrack(contentPackages[j], t)
               <=> SamplesBefore(t, position + j) <= accepted[t]
  <2> DEFINE p == position + j - 1
  <2>1. p \in Nat /\ p + 1 = position + j
    BY <1>1
  <2>2. /\ contentPackages[j].numSamples[t] = GetNumSamples(t, p)
        /\ contentPackages[j].numSamplesWritten[t] = Filled(t, accepted[t], p)
    BY DEF IInv, QueueInv, HoldsShare
  <2>3. /\ SamplesBefore(t, p) \in Nat
        /\ SamplesBefore(t, p + 1) = SamplesBefore(t, p) + GetNumSamples(t, p)
        /\ GetNumSamples(t, p) \in Nat \ {0}
    BY <2>1, SamplesBeforeType, SamplesBeforeStep, GetNumSamplesType
  <2> HIDE DEF p
  <2>4. IsReadyForTrack(contentPackages[j], t)
          <=> Filled(t, accepted[t], p) >= GetNumSamples(t, p)
    BY <1>3, <2>2 DEF IsReadyForTrack
  <2>5. Filled(t, accepted[t], p) >= GetNumSamples(t, p)
          <=> SamplesBefore(t, p + 1) <= accepted[t]
    BY <1>1, <2>3 DEF Filled
  <2> QED BY <2>1, <2>4, <2>5
<1>5. SamplesBefore(t, pos) <= accepted[t]
  <2>1. CASE i = 1
    BY <1>1, <2>1 DEF IInv, AcceptedInv
  <2>2. CASE i > 1
    <3>1. i - 1 \in 1 .. N /\ position + (i - 1) = pos
      BY <1>1, <2>2
    <3>2. IsReadyForTrack(contentPackages[i - 1], t)
      BY <3>1 DEF IsCurrentContentPackage
    <3> QED BY <1>4, <3>1, <3>2
  <2> QED BY <2>1, <2>2
<1>6. accepted[t] < SamplesBefore(t, pos + 1)
  <2>1. CASE i <= N
    <3>1. i \in 1 .. N /\ ~IsReadyForTrack(contentPackages[i], t)
      BY <2>1 DEF IsCurrentContentPackage
    <3>2. ~(SamplesBefore(t, position + i) <= accepted[t])
      BY <1>4, <3>1
    <3> QED BY <1>1, <1>2, <3>2
  <2>2. CASE i = N + 1
    <3>1. accepted[t] <= SamplesBefore(t, position + N) /\ position + N = pos
      BY <1>1, <2>2 DEF IInv, AcceptedInv
    <3> QED BY <1>1, <1>2, <3>1
  <2> QED BY <1>1, <2>1, <2>2
<1> QED BY <1>1, <1>5, <1>6

(* The invariant is preserved when WriteSamples is entered. *)
LEMMA WriteSamplesStartInv ==
  ASSUME IInv, NEW t \in Track, NEW n \in 1 .. MaxSamplesPerCall,
         WriteSamplesStart(t, n)
  PROVE  IInv'
<1>1. PICK i \in 1 .. (Len(contentPackages) + 1) :
        /\ IsCurrentContentPackage(t, i)
        /\ call' = [track |-> t, rem |-> n, cp |-> i]
  BY DEF WriteSamplesStart
<1>2. UNCHANGED <<contentPackages, freeContentPackages, position, status,
                  accepted, timecodes, index, file>>
  BY DEF WriteSamplesStart
<1>3. n \in Nat \ {0} /\ i \in Nat \ {0} /\ Len(contentPackages) \in Nat
  BY ManagerAssumption DEF IInv, StateType
<1>4. StateType'
  BY <1>1, <1>2, <1>3 DEF IInv, StateType
<1>5. CallInv'
  <2>1. /\ SamplesBefore(t, position + i - 1) <= accepted[t]
        /\ accepted[t] < SamplesBefore(t, position + i)
    BY <1>1, CurrentPackage
  <2>2. call'.track = t /\ call'.cp = i /\ i <= Len(contentPackages) + 1
    BY <1>1, <1>3
  <2> QED BY <1>2, <2>1, <2>2 DEF CallInv
<1>6. /\ (Len(file) = position)' /\ FileInterleaved' /\ PoolBounded'
      /\ QueueInv(contentPackages, accepted)' /\ AcceptedInv'
  BY <1>2 DEF IInv, FileInterleaved, PoolBounded, QueueInv, AcceptedInv
<1> QED BY <1>4, <1>5, <1>6 DEF IInv

(* A call that throws because the queue is full.                           *)
LEMMA CreateFailsInv ==
  ASSUME IInv, CreateFails
  PROVE  IInv'
<1>1. StateType'
  BY DEF CreateFails, IInv, StateType
<1>2. CallInv'
  BY DEF CreateFails, CallInv
<1>3. /\ (Len(file) = position)' /\ FileInterleaved' /\ PoolBounded'
      /\ QueueInv(contentPackages, accepted)' /\ AcceptedInv'
  BY DEF CreateFails, IInv, FileInterleaved, PoolBounded, QueueInv, AcceptedInv
<1> QED BY <1>1, <1>2, <1>3 DEF IInv

(* The invariant is preserved by WriteSample. *)
LEMMA WriteSampleInv ==
  ASSUME IInv, NEW t \in Track, WriteSample(t)
  PROVE  IInv'
<1>1. PICK i \in 1 .. (Len(contentPackages) + 1) :
        /\ IsCurrentContentPackage(t, i)
        /\ IF i > Len(contentPackages) /\ ~CanCreate
             THEN CreateFails
             ELSE WriteToPackage(t, i, 1) /\ UNCHANGED call
  BY DEF WriteSample
<1>2. CASE i > Len(contentPackages) /\ ~CanCreate
  BY <1>1, <1>2, CreateFailsInv
<1>3. CASE i > Len(contentPackages) => CanCreate
  <2>1. WriteToPackage(t, i, 1) /\ UNCHANGED call /\ call = NoCall
    BY <1>1, <1>3 DEF WriteSample, Idle
  <2>2. /\ SamplesBefore(t, position + i - 1) <= accepted[t]
        /\ accepted[t] < SamplesBefore(t, position + i)
    BY <1>1, CurrentPackage
  <2>3. accepted[t] + 1 <= SamplesBefore(t, position + i)
    <3>1. position + i \in Nat /\ accepted[t] \in Nat
      BY DEF IInv, StateType
    <3>2. SamplesBefore(t, position + i) \in Nat
      BY <3>1, SamplesBeforeType
    <3> QED BY <2>2, <3>1, <3>2
  <2>4. /\ StateType' /\ (Len(file) = position)' /\ FileInterleaved' /\ PoolBounded'
        /\ QueueInv(contentPackages, accepted)' /\ AcceptedInv'
    BY <1>3, <2>1, <2>2, <2>3, WriteToPackageInv
  <2>5. CallInv'
    BY <2>1 DEF CallInv
  <2> QED BY <2>4, <2>5 DEF IInv
<1> QED BY <1>2, <1>3

(* What an iteration that does not throw writes: at least one sample, no   *)
(* more than remain, and all the package has room for unless that is all   *)
(* that remains.                                                           *)
LEMMA LoopStep ==
  ASSUME IInv, WriteSamplesLoop,
         NEW t, t = call.track, NEW i, i = call.cp,
         i > Len(contentPackages) => CanCreate,
         NEW n, n = NumToWrite(QueueFor(i)[i], t, call.rem)
  PROVE  /\ t \in Track /\ i \in 1 .. (Len(contentPackages) + 1)
         /\ WriteToPackage(t, i, n)
         /\ call.rem \in Nat \ {0} /\ n \in Nat \ {0} /\ n <= call.rem
         /\ call' = IF n = call.rem THEN NoCall
                    ELSE [track |-> t, rem |-> call.rem - n, cp |-> i + 1]
         /\ SamplesBefore(t, position + i - 1) <= accepted[t]
         /\ accepted[t] < SamplesBefore(t, position + i)
         /\ accepted[t] + n <= SamplesBefore(t, position + i)
         /\ n # call.rem => accepted[t] + n = SamplesBefore(t, position + i)
<1> DEFINE pos == position + i - 1
           room == SamplesBefore(t, position + i) - accepted[t]
<1>1. /\ call \in [track : Track, rem : Nat \ {0}, cp : Nat \ {0}]
      /\ call # NoCall
  BY DEF IInv, StateType, WriteSamplesLoop
<1>2. /\ position \in Nat /\ accepted \in [Track -> Nat]
      /\ contentPackages \in Seq(ContentPackage)
  BY DEF IInv, StateType
<1>3. /\ t \in Track /\ i \in 1 .. (Len(contentPackages) + 1)
      /\ call.rem \in Nat \ {0} /\ i \in Nat \ {0}
      /\ SamplesBefore(t, position + i - 1) <= accepted[t]
      /\ accepted[t] < SamplesBefore(t, position + i)
  BY <1>1, <1>2 DEF IInv, CallInv
<1>4. /\ WriteToPackage(t, i, n)
      /\ call' = IF n = call.rem THEN NoCall
                 ELSE [track |-> t, rem |-> call.rem - n, cp |-> i + 1]
  BY DEF WriteSamplesLoop
<1>5. pos \in Nat /\ pos + 1 = position + i /\ position + i \in Nat
  BY ONLY <1>2, <1>3 DEF pos
<1>6. SamplesBefore(t, position + i) \in Nat /\ accepted[t] \in Nat
  BY <1>2, <1>3, <1>5, SamplesBeforeType
<1>7. HoldsShare(QueueFor(i)[i], accepted, pos)
  BY <1>3, QueueForPackage DEF QueueInv
<1> HIDE DEF pos
<1>8. n = IF room > call.rem THEN call.rem ELSE room
  <2>1. /\ QueueFor(i)[i].numSamples[t] = GetNumSamples(t, pos)
        /\ QueueFor(i)[i].numSamplesWritten[t] = Filled(t, accepted[t], pos)
    BY <1>3, <1>7 DEF HoldsShare
  <2>2. SamplesBefore(t, pos) <= accepted[t] /\ accepted[t] < SamplesBefore(t, pos + 1)
    BY <1>3, <1>5 DEF pos
  <2>3. GetNumSamples(t, pos) - Filled(t, accepted[t], pos) = room
    BY <1>3, <1>5, <1>6, <2>2, FilledCurrent
  <2>4. n = IF GetNumSamples(t, pos) - Filled(t, accepted[t], pos) > call.rem
              THEN call.rem
              ELSE GetNumSamples(t, pos) - Filled(t, accepted[t], pos)
    BY <2>1 DEF NumToWrite
  <2> QED BY <2>3, <2>4
<1>9. room \in Nat \ {0} /\ accepted[t] + room = SamplesBefore(t, position + i)
  BY ONLY <1>3, <1>6 DEF room
<1> HIDE DEF room
<1>10. /\ n \in Nat \ {0} /\ n <= call.rem
       /\ accepted[t] + n <= SamplesBefore(t, position + i)
       /\ n # call.rem => accepted[t] + n = SamplesBefore(t, position + i)
  BY ONLY <1>3, <1>6, <1>8, <1>9
<1> QED BY <1>3, <1>4, <1>10

(* The invariant is preserved by each iteration of the loop of WriteSamples,
   the one that throws included. *)
LEMMA WriteSamplesLoopInv ==
  ASSUME IInv, WriteSamplesLoop
  PROVE  IInv'
<1>1. CASE call.cp > Len(contentPackages) /\ ~CanCreate
  BY <1>1, CreateFailsInv DEF WriteSamplesLoop
<1>2. ASSUME NEW t, t = call.track, NEW i, i = call.cp,
             i > Len(contentPackages) => CanCreate,
             NEW n, n = NumToWrite(QueueFor(i)[i], t, call.rem)
      PROVE  IInv'
  <2>1. /\ t \in Track /\ i \in 1 .. (Len(contentPackages) + 1)
        /\ WriteToPackage(t, i, n)
        /\ call.rem \in Nat \ {0} /\ n \in Nat \ {0} /\ n <= call.rem
        /\ call' = IF n = call.rem THEN NoCall
                   ELSE [track |-> t, rem |-> call.rem - n, cp |-> i + 1]
        /\ SamplesBefore(t, position + i - 1) <= accepted[t]
        /\ accepted[t] < SamplesBefore(t, position + i)
        /\ accepted[t] + n <= SamplesBefore(t, position + i)
        /\ n # call.rem => accepted[t] + n = SamplesBefore(t, position + i)
    BY <1>2, LoopStep
  <2>2. /\ position \in Nat /\ accepted \in [Track -> Nat]
        /\ contentPackages \in Seq(ContentPackage)
    BY DEF IInv, StateType
  <2>3. i \in Nat \ {0} /\ position + i \in Nat /\ position + i + 1 \in Nat
    BY ONLY <2>1, <2>2
  <2>4. SamplesBefore(t, position + i) \in Nat /\ accepted[t] \in Nat
    BY <2>1, <2>2, <2>3, SamplesBeforeType
  <2>5. n # call.rem => call.rem - n \in Nat \ {0} /\ i + 1 \in Nat \ {0}
    BY ONLY <2>1, <2>3
  <2>6. call' \in [track : Track, rem : Nat \ {0}, cp : Nat \ {0}] \cup {NoCall}
    BY <2>1, <2>5
  <2>7. /\ StateType' /\ (Len(file) = position)' /\ FileInterleaved' /\ PoolBounded'
        /\ QueueInv(contentPackages, accepted)' /\ AcceptedInv'
        /\ i <= Len(contentPackages')
    BY <1>2, <2>1, <2>6, WriteToPackageInv
  <2>8. CallInv'
    <3>1. CASE n = call.rem
      BY <2>1, <3>1 DEF CallInv
    <3>2. CASE n # call.rem
      <4>1. call'.track = t /\ call'.cp = i + 1
        BY <2>1, <3>2
      <4>2. position' = position /\ accepted'[t] = SamplesBefore(t, position + i)
        BY <2>1, <2>2, <3>2 DEF WriteToPackage
      <4>3. SamplesBefore(t, position + i) < SamplesBefore(t, position + i + 1)
        <5>1. GetNumSamples(t, position + i) \in Nat \ {0}
          BY <2>1, <2>3, GetNumSamplesType
        <5>2. SamplesBefore(t, position + i + 1)
                = SamplesBefore(t, position + i) + GetNumSamples(t, position + i)
          BY <2>1, <2>3, SamplesBeforeStep
        <5> QED BY ONLY <2>4, <5>1, <5>2
      <4>4. /\ position + (i + 1) - 1 = position + i
            /\ position + (i + 1) = position + i + 1
        BY ONLY <2>2, <2>3
      <4>5. i + 1 <= Len(contentPackages') + 1
        <5>1. Len(contentPackages') \in Nat
          BY <2>7 DEF StateType
        <5> QED BY ONLY <2>3, <2>7, <5>1
      <4>6. accepted'[t] <= accepted'[t]
        BY ONLY <2>4, <4>2
      <4> QED BY <4>1, <4>2, <4>3, <4>4, <4>5, <4>6 DEF CallInv
    <3> QED BY <3>1, <3>2
  <2> QED BY <2>7, <2>8 DEF IInv
<1> QED BY <1>1, <1>2

(* The invariant is preserved by WriteUserTimecode. *)
LEMMA WriteUserTimecodeInv ==
  ASSUME IInv, WriteUserTimecode
  PROVE  IInv'
<1>1. PICK i \in 1 .. (Len(contentPackages) + 1) :
        IF i > Len(contentPackages)
          THEN status' = "undefined" /\ UNCHANGED <<contentPackages, timecodes>>
          ELSE /\ contentPackages' = [contentPackages EXCEPT
                                        ![i] = StampTimecode(@, timecodes + 1)]
               /\ timecodes' = timecodes + 1
               /\ UNCHANGED status
  BY DEF WriteUserTimecode
<1>2. UNCHANGED <<freeContentPackages, position, call, accepted, index, file>>
      /\ call = NoCall
  BY DEF WriteUserTimecode, Idle
<1>3. CallInv'
  BY <1>2 DEF CallInv
<1>4. CASE i > Len(contentPackages)
  <2>1. StateType'
    BY <1>1, <1>2, <1>4 DEF IInv, StateType
  <2>2. /\ (Len(file) = position)' /\ FileInterleaved' /\ PoolBounded'
        /\ QueueInv(contentPackages, accepted)' /\ AcceptedInv'
    BY <1>1, <1>2, <1>4 DEF IInv, FileInterleaved, PoolBounded, QueueInv, AcceptedInv
  <2> QED BY <1>3, <2>1, <2>2 DEF IInv
<1>5. CASE ~(i > Len(contentPackages))
  <2> DEFINE w == StampTimecode(contentPackages[i], timecodes + 1)
  <2>1. /\ contentPackages \in Seq(ContentPackage)
        /\ i \in 1 .. Len(contentPackages)
        /\ contentPackages[i] \in ContentPackage
        /\ timecodes + 1 \in Nat
    BY <1>5 DEF IInv, StateType
  <2>2. /\ w \in ContentPackage
        /\ w.position = contentPackages[i].position
        /\ w.numSamples = contentPackages[i].numSamples
        /\ w.numSamplesWritten = contentPackages[i].numSamplesWritten
        /\ w.data = contentPackages[i].data
    BY <2>1, StampedPackage
  <2>3. contentPackages' = [contentPackages EXCEPT ![i] = w] /\ timecodes' = timecodes + 1
    BY <1>1, <1>5
  <2> HIDE DEF w
  <2>4. /\ contentPackages' \in Seq(ContentPackage)
        /\ Len(contentPackages') = Len(contentPackages)
        /\ \A j \in 1 .. Len(contentPackages) :
             contentPackages'[j] = IF j = i THEN w ELSE contentPackages[j]
    BY <2>1, <2>2, <2>3
  <2>5. StateType'
    BY <1>1, <1>2, <1>5, <2>1, <2>3, <2>4 DEF IInv, StateType
  <2>6. /\ (Len(file) = position)' /\ FileInterleaved' /\ PoolBounded'
        /\ QueueInv(contentPackages, accepted)' /\ AcceptedInv'
    BY <1>2, <2>2, <2>4, SameShares
  <2> QED BY <1>3, <2>5, <2>6 DEF IInv
<1> QED BY <1>4, <1>5

(* The invariant is preserved when the index is updated ahead of the write. *)
LEMMA UpdateIndexTableInv ==
  ASSUME IInv, NEW n \in 1 .. 2, UpdateIndexTable(n)
  PROVE  IInv'
<1>1. /\ UNCHANGED <<freeContentPackages, position, call, status, accepted,
                     timecodes, file>>
      /\ call = NoCall /\ n <= Len(contentPackages)
      /\ index' = index \o IndexEntries(1) \o (IF n = 2 THEN IndexEntries(2) ELSE <<>>)
      /\ contentPackages' = [i \in DOMAIN contentPackages |->
           IF i <= n THEN Indexed(contentPackages[i]) ELSE contentPackages[i]]
  BY DEF UpdateIndexTable, Idle
<1>2. \A j \in 1 .. Len(contentPackages) : contentPackages[j] \in ContentPackage
  BY DEF IInv, StateType
<1>3. DOMAIN contentPackages = 1 .. Len(contentPackages) /\ Len(contentPackages) \in Nat
  BY DEF IInv, StateType
<1>4. \A j \in 1 .. Len(contentPackages) :
        /\ contentPackages'[j] \in ContentPackage
        /\ contentPackages'[j].position = contentPackages[j].position
        /\ contentPackages'[j].numSamples = contentPackages[j].numSamples
        /\ contentPackages'[j].numSamplesWritten = contentPackages[j].numSamplesWritten
        /\ contentPackages'[j].data = contentPackages[j].data
  BY <1>1, <1>2, <1>3, IndexedPackage
<1>5. /\ contentPackages' \in Seq(ContentPackage)
      /\ Len(contentPackages') = Len(contentPackages)
  BY <1>1, <1>3, <1>4
<1>6. index' \in Seq([Track -> Nat])
  <2>1. index \in Seq([Track -> Nat])
    BY DEF IInv, StateType
  <2>2. IndexEntries(1) \in Seq([Track -> Nat])
    BY <1>1, <1>3, IndexEntriesType
  <2>3. (IF n = 2 THEN IndexEntries(2) ELSE <<>>) \in Seq([Track -> Nat])
    <3>1. CASE n = 2
      <4>1. 2 \in 1 .. Len(contentPackages)
        BY <1>1, <1>3, <3>1
      <4> QED BY <3>1, <4>1, IndexEntriesType
    <3>2. CASE n # 2
      BY <3>2, EmptySeq
    <3> QED BY <3>1, <3>2
  <2> QED BY <1>1, <2>1, <2>2, <2>3, ConcatProperties
<1>7. StateType'
  BY <1>1, <1>5, <1>6 DEF IInv, StateType
<1>8. CallInv'
  BY <1>1 DEF CallInv
<1>9. /\ (Len(file) = position)' /\ FileInterleaved' /\ PoolBounded'
      /\ QueueInv(contentPackages, accepted)' /\ AcceptedInv'
  BY <1>1, <1>4, <1>5, SameShares
<1> QED BY <1>7, <1>8, <1>9 DEF IInv

(* A package that is ready is full, so what it holds is its span.          *)
LEMMA ReadyPackage ==
  ASSUME IInv, NEW i \in 1 .. Len(contentPackages), IsReady(contentPackages[i])
  PROVE  /\ contentPackages[i] \in ContentPackage
         /\ contentPackages[i].position = position + i - 1
         /\ \A t \in Track :
              /\ contentPackages[i].data[t] = Span(t, position + i - 1)
              /\ SamplesBefore(t, position + i) <= accepted[t]
<1> DEFINE cp == contentPackages[i]
           pos == position + i - 1
<1>1. /\ cp \in ContentPackage /\ pos \in Nat /\ pos + 1 = position + i
      /\ HoldsShare(cp, accepted, pos)
  BY DEF IInv, StateType, QueueInv
<1> HIDE DEF pos
<1>2. ASSUME NEW t \in Track
      PROVE  cp.data[t] = Span(t, pos) /\ SamplesBefore(t, pos + 1) <= accepted[t]
  <2> DEFINE f == Filled(t, accepted[t], pos)
  <2>1. t # SystemItem /\ accepted[t] \in Nat
    BY ManagerAssumption DEF IInv, StateType
  <2>2. f >= GetNumSamples(t, pos)
    BY <1>1, <2>1 DEF IsReady, IsReadyForTrack, HoldsShare
  <2>3. /\ SamplesBefore(t, pos) \in Nat
        /\ SamplesBefore(t, pos + 1) = SamplesBefore(t, pos) + GetNumSamples(t, pos)
        /\ GetNumSamples(t, pos) \in Nat \ {0}
    BY <1>1, SamplesBeforeType, SamplesBeforeStep, GetNumSamplesType
  <2>4. f = GetNumSamples(t, pos) /\ SamplesBefore(t, pos + 1) <= accepted[t]
    BY <2>1, <2>2, <2>3 DEF Filled
  <2>5. cp.data[t] = Run(SamplesBefore(t, pos), f)
    BY <1>1 DEF HoldsShare
  <2> QED BY <2>4, <2>5 DEF Span
<1>3. cp.position = pos
  BY <1>1 DEF HoldsShare
<1> QED BY <1>1, <1>2, <1>3 DEF pos

(* The front package, if it can be written, is full.                       *)
LEMMA FrontPackage ==
  ASSUME IInv, HaveContentPackage
  PROVE  /\ contentPackages[1] \in ContentPackage
         /\ 1 \in 1 .. Len(contentPackages)
         /\ contentPackages[1].position = position
         /\ \A t \in Track :
              /\ contentPackages[1].data[t] = Span(t, position)
              /\ SamplesBefore(t, position + 1) <= accepted[t]
<1>1. 1 \in 1 .. Len(contentPackages) /\ position + 1 - 1 = position
  BY DEF IInv, StateType, HaveContentPackage
<1> QED BY <1>1, ReadyPackage DEF HaveContentPackage

(* The invariant is preserved when the front package is written and pooled. *)
LEMMA WriteNextContentPackageInv ==
  ASSUME IInv, WriteNextContentPackage
  PROVE  IInv'
<1> DEFINE N == Len(contentPackages)
           cp == contentPackages[1]
           written == [data |-> cp.data, continuity |-> cp.position,
                       userTimecode |-> cp.userTimecode]
<1>1. /\ HaveContentPackage /\ call = NoCall /\ contentPackages # <<>>
      /\ UNCHANGED <<call, status, accepted, timecodes>>
      /\ index' = index \o IndexEntries(1)
      /\ file' = Append(file, written)
      /\ freeContentPackages' = Append(freeContentPackages, Indexed(cp))
      /\ contentPackages' = Tail(contentPackages)
      /\ position' = position + 1
  BY DEF WriteNextContentPackage, Idle, HaveContentPackage
<1>2. /\ cp \in ContentPackage /\ 1 \in 1 .. N /\ cp.position = position
      /\ \A t \in Track : /\ cp.data[t] = Span(t, position)
                          /\ SamplesBefore(t, position + 1) <= accepted[t]
  BY <1>1, FrontPackage
<1>3. /\ contentPackages \in Seq(ContentPackage) /\ N \in Nat
      /\ freeContentPackages \in Seq(ContentPackage)
      /\ position \in Nat /\ Len(file) = position
  BY DEF IInv, StateType
<1>4. /\ contentPackages' \in Seq(ContentPackage)
      /\ Len(contentPackages') = N - 1
      /\ \A j \in 1 .. (N - 1) : contentPackages'[j] = contentPackages[j + 1]
  BY <1>1, <1>3, HeadTailProperties
<1>5. /\ freeContentPackages' \in Seq(ContentPackage)
      /\ Len(freeContentPackages') = Len(freeContentPackages) + 1
  BY <1>1, <1>2, <1>3, IndexedPackage, AppendProperties
<1>6. index' \in Seq([Track -> Nat])
  <2>1. index \in Seq([Track -> Nat])
    BY DEF IInv, StateType
  <2> QED BY <1>1, <1>2, <2>1, IndexEntriesType, ConcatProperties
<1>7. /\ file' \in Seq([data : [Track -> Seq(Nat)], continuity : Nat, userTimecode : Nat])
      /\ Len(file') = position + 1
      /\ \A i \in 1 .. position : file'[i] = file[i]
      /\ file'[position + 1] = written
  <2>1. file \in Seq([data : [Track -> Seq(Nat)], continuity : Nat, userTimecode : Nat])
    BY DEF IInv, StateType
  <2>2. written \in [data : [Track -> Seq(Nat)], continuity : Nat, userTimecode : Nat]
    BY <1>2 DEF ContentPackage
  <2> HIDE DEF written
  <2>3. /\ Append(file, written)
             \in Seq([data : [Track -> Seq(Nat)], continuity : Nat, userTimecode : Nat])
        /\ Len(Append(file, written)) = Len(file) + 1
        /\ \A i \in 1 .. Len(file) : Append(file, written)[i] = file[i]
        /\ Append(file, written)[Len(file) + 1] = written
    BY <2>1, <2>2, AppendProperties
  <2> QED BY <1>1, <1>3, <2>3
<1>8. StateType'
  <2>1. /\ position' \in Nat
        /\ call' \in [track : Track, rem : Nat \ {0}, cp : Nat \ {0}] \cup {NoCall}
        /\ status' \in {"ok", "failed", "undefined"}
        /\ accepted' \in [Track -> Nat]
        /\ timecodes' \in Nat
    BY <1>1, <1>3 DEF IInv, StateType
  <2> QED BY <1>4, <1>5, <1>6, <1>7, <2>1 DEF StateType
<1>9. (Len(file) = position)'
  BY <1>1, <1>7
<1>10. FileInterleaved'
  <2>1. ASSUME NEW i \in 1 .. (position + 1)
        PROVE  /\ file'[i].continuity = i - 1
               /\ \A t \in Track : file'[i].data[t] = Span(t, i - 1)
    <3>1. CASE i <= position
      <4>1. file'[i] = file[i] /\ i \in DOMAIN file
        <5>1. DOMAIN file = 1 .. position
          BY <1>3 DEF IInv, StateType
        <5> QED BY <1>3, <1>7, <3>1, <5>1
      <4>2. /\ file[i].continuity = i - 1
            /\ \A t \in Track : file[i].data[t] = Span(t, i - 1)
        BY <4>1 DEF IInv, FileInterleaved
      <4> QED BY <4>1, <4>2
    <3>2. CASE i = position + 1
      <4>1. i - 1 = position
        <5>1. position \in Nat
          BY <1>3
        <5> QED BY ONLY <3>2, <5>1
      <4>2. file'[i] = written
        BY <1>7, <3>2
      <4>3. written.continuity = position /\ written.data = cp.data
        BY <1>2
      <4> QED BY <1>2, <4>1, <4>2, <4>3
    <3> QED BY <1>3, <3>1, <3>2
  <2>2. DOMAIN file' = 1 .. (position + 1)
    BY <1>7
  <2> QED BY <2>1, <2>2 DEF FileInterleaved
<1>11. PoolBounded'
  BY <1>2, <1>3, <1>4, <1>5 DEF IInv, PoolBounded
<1>12. QueueInv(contentPackages, accepted)'
  <2>1. ASSUME NEW j \in 1 .. (N - 1)
        PROVE  HoldsShare(contentPackages'[j], accepted, position + 1 + j - 1)
    <3>1. j + 1 \in 1 .. N /\ position + (j + 1) - 1 = position + 1 + j - 1
      BY <1>3
    <3>2. HoldsShare(contentPackages[j + 1], accepted, position + (j + 1) - 1)
      BY <3>1 DEF IInv, QueueInv
    <3> QED BY <1>4, <3>1, <3>2
  <2> QED BY <1>1, <1>4, <2>1 DEF QueueInv
<1>13. AcceptedInv'
  <2>1. position + 1 + (N - 1) = position + N
    BY <1>3
  <2>2. \A t \in Track : /\ SamplesBefore(t, position + 1) <= accepted[t]
                         /\ accepted[t] <= SamplesBefore(t, position + N)
    BY <1>2 DEF IInv, AcceptedInv
  <2> QED BY <1>1, <1>4, <2>1, <2>2 DEF AcceptedInv
<1>14. CallInv'
  BY <1>1 DEF CallInv
<1> QED BY <1>8, <1>9, <1>10, <1>11, <1>12, <1>13, <1>14 DEF IInv

(* The invariant is preserved by stuttering. *)
LEMMA UnchangedInv ==
  ASSUME IInv, UNCHANGED vars
  PROVE  IInv'
  BY DEF vars, IInv, StateType, FileInterleaved, PoolBounded, QueueInv,
         AcceptedInv, CallInv

(* The invariant is preserved by every step of the manager. *)
LEMMA NextInv ==
  ASSUME IInv, [Next]_vars
  PROVE  IInv'
<1>1. ASSUME NEW t \in Track, NEW n \in 1 .. MaxSamplesPerCall, WriteSamplesStart(t, n)
      PROVE  IInv'
  BY <1>1, WriteSamplesStartInv
<1>2. CASE WriteSamplesLoop
  BY <1>2, WriteSamplesLoopInv
<1>3. ASSUME NEW t \in Track, WriteSample(t)
      PROVE  IInv'
  BY <1>3, WriteSampleInv
<1>4. CASE WriteUserTimecode
  BY <1>4, WriteUserTimecodeInv
<1>5. ASSUME NEW n \in 1 .. 2, UpdateIndexTable(n)
      PROVE  IInv'
  BY <1>5, UpdateIndexTableInv
<1>6. CASE WriteNextContentPackage
  BY <1>6, WriteNextContentPackageInv
<1>7. CASE Done \/ UNCHANGED vars
  BY <1>7, UnchangedInv DEF Done
<1> QED BY <1>1, <1>2, <1>3, <1>4, <1>5, <1>6, <1>7 DEF Next

-----------------------------------------------------------------------------
(* The inductive invariant holds in every state of every behaviour.        *)
THEOREM Invariance == Spec => []IInv
<1>1. Init => IInv
  BY InitInv
<1>2. IInv /\ [Next]_vars => IInv'
  BY NextInv
<1> QED BY <1>1, <1>2, PTL DEF Spec

(* What the queue holds of a track is at most its share.                   *)
LEMMA QueueFits ==
  ASSUME IInv
  PROVE  AllFit(contentPackages)
<1>1. ASSUME NEW i \in 1 .. Len(contentPackages), NEW t \in Track
      PROVE  /\ contentPackages[i].numSamplesWritten[t] <= contentPackages[i].numSamples[t]
             /\ Len(contentPackages[i].data[t]) = contentPackages[i].numSamplesWritten[t]
  <2> DEFINE cp == contentPackages[i]
             pos == position + i - 1
             n == Filled(t, accepted[t], pos)
  <2>1. pos \in Nat /\ accepted[t] \in Nat
    BY DEF IInv, StateType
  <2>2. /\ cp.numSamples[t] = GetNumSamples(t, pos)
        /\ cp.numSamplesWritten[t] = n
        /\ cp.data[t] = Run(SamplesBefore(t, pos), n)
    BY DEF IInv, QueueInv, HoldsShare
  <2>3. n \in Nat /\ n <= GetNumSamples(t, pos) /\ SamplesBefore(t, pos) \in Nat
    BY <2>1, FilledType, SamplesBeforeType
  <2>4. Len(Run(SamplesBefore(t, pos), n)) = n
    BY <2>3, RunType
  <2> QED BY <2>2, <2>3, <2>4
<1> QED BY <1>1 DEF AllFit, Fits

(* A package reaches the pool from the queue, and is not touched there.    *)
LEMMA PoolFits ==
  ASSUME IInv, AllFit(freeContentPackages), [Next]_vars
  PROVE  AllFit(freeContentPackages)'
<1> DEFINE free == freeContentPackages
<1>1. free \in Seq(ContentPackage)
  BY DEF IInv, StateType
<1>2. ASSUME NEW i \in Nat, free' = FreeFor(i)
      PROVE  AllFit(free)'
  <2>1. CASE FreeFor(i) = free
    BY <1>2, <2>1 DEF AllFit
  <2>2. CASE FreeFor(i) = FreeAfterCreate
    <3>1. CASE free = <<>>
      <4>1. free' = <<>>
        BY <1>2, <2>2, <3>1 DEF FreeAfterCreate
      <4> QED BY <4>1 DEF AllFit
    <3>2. CASE free # <<>>
      <4>1. Len(free) \in Nat \ {0}
        BY <1>1, <3>2
      <4>2. free' = [j \in 1 .. (Len(free) - 1) |-> free[j]]
        BY <1>2, <2>2 DEF FreeAfterCreate
      <4>3. Len(free') = Len(free) - 1
        BY <4>1, <4>2
      <4>4. \A j \in 1 .. Len(free') : j \in 1 .. Len(free) /\ free'[j] = free[j]
        BY <4>1, <4>2, <4>3
      <4> QED BY <4>4 DEF AllFit
    <3> QED BY <3>1, <3>2
  <2> QED BY <2>1, <2>2 DEF FreeFor
<1>3. CASE WriteNextContentPackage
  <2> DEFINE cp == contentPackages[1]
  <2>1. free' = Append(free, Indexed(cp)) /\ cp \in ContentPackage
        /\ 1 \in 1 .. Len(contentPackages)
    BY <1>3, FrontPackage DEF WriteNextContentPackage
  <2>2. Fits(cp)
    BY <2>1, QueueFits DEF AllFit
  <2>3. Fits(Indexed(cp)) /\ Indexed(cp) \in ContentPackage
    BY <2>1, <2>2 DEF Fits, Indexed, ContentPackage
  <2>4. /\ Len(free') = Len(free) + 1
        /\ free'[Len(free) + 1] = Indexed(cp)
        /\ \A j \in 1 .. Len(free) : free'[j] = free[j]
    BY <1>1, <2>1, <2>3, AppendProperties
  <2>5. \A j \in 1 .. Len(free') : j \in 1 .. Len(free) \/ j = Len(free) + 1
    BY <1>1, <2>4
  <2> QED BY <2>3, <2>4, <2>5 DEF AllFit
<1>4. CASE UNCHANGED free
  BY <1>4 DEF AllFit
<1>5. CASE WriteSamplesLoop
  <2>1. CASE call.cp > Len(contentPackages) /\ ~CanCreate
    BY <1>4, <1>5, <2>1 DEF WriteSamplesLoop, CreateFails
  <2>2. CASE ~(call.cp > Len(contentPackages) /\ ~CanCreate)
    <3>1. call.cp \in Nat
      BY <1>5 DEF IInv, StateType, WriteSamplesLoop
    <3>2. free' = FreeFor(call.cp)
      BY <1>5, <2>2 DEF WriteSamplesLoop, WriteToPackage
    <3> QED BY <1>2, <3>1, <3>2
  <2> QED BY <2>1, <2>2
<1>6. ASSUME NEW t \in Track, WriteSample(t)
      PROVE  AllFit(free)'
  <2>1. PICK i \in 1 .. (Len(contentPackages) + 1) :
           IF i > Len(contentPackages) /\ ~CanCreate
             THEN CreateFails
             ELSE WriteToPackage(t, i, 1) /\ UNCHANGED call
    BY <1>6 DEF WriteSample
  <2>2. i \in Nat
    BY DEF IInv, StateType
  <2>3. UNCHANGED free \/ free' = FreeFor(i)
    BY <2>1 DEF CreateFails, WriteToPackage
  <2> QED BY <1>2, <1>4, <2>2, <2>3
<1>7. CASE \/ \E t \in Track, n \in 1 .. MaxSamplesPerCall : WriteSamplesStart(t, n)
           \/ WriteUserTimecode
           \/ \E n \in 1 .. 2 : UpdateIndexTable(n)
           \/ Done
           \/ UNCHANGED vars
  BY <1>4, <1>7 DEF WriteSamplesStart, WriteUserTimecode, UpdateIndexTable, Done, vars
<1> QED BY <1>3, <1>5, <1>6, <1>7 DEF Next

(* The manager's state stays well typed, and no element of a package in    *)
(* the queue or in the pool is over-filled, whatever the sizes of the      *)
(* calls: NumToWrite leaves the rest for the next package.                 *)
THEOREM TypeCorrect == Spec => []TypeOK
<1>1. Init => AllFit(freeContentPackages)
  BY DEF Init, AllFit
<1>2. IInv /\ AllFit(freeContentPackages) /\ [Next]_vars
        => AllFit(freeContentPackages)'
  BY PoolFits
<1>3. IInv /\ AllFit(freeContentPackages) => TypeOK
  BY QueueFits DEF IInv, TypeOK
<1> QED BY <1>1, <1>2, <1>3, Invariance, PTL DEF Spec

(* Every content package in the file holds exactly the samples that each   *)
(* track's sample sequence assigns to it, for any number of tracks, any    *)
(* sample sequences and any way in which WriteSamples is called.           *)
THEOREM FileIsInterleaved == Spec => []FileInterleaved
<1>1. IInv => FileInterleaved
  BY DEF IInv
<1> QED BY <1>1, Invariance, PTL

(* The queue and the pool together never exceed MAX_CONTENT_PACKAGES.      *)
THEOREM PoolIsBounded == Spec => []PoolBounded
<1>1. IInv => PoolBounded
  BY DEF IInv
<1> QED BY <1>1, Invariance, PTL

-----------------------------------------------------------------------------
(* Giving up only when full. *)

(* A track for which no package is left to create has filled the limit of  *)
(* packages after those written.                                           *)
LEMMA FullForTrack ==
  ASSUME IInv, ~CanCreate, NEW t \in Track,
         SamplesBefore(t, position + Len(contentPackages)) <= accepted[t]
  PROVE  accepted[t] = SamplesBefore(t, position + MaxContentPackages)
<1>1. /\ Len(contentPackages) \in Nat /\ Len(freeContentPackages) \in Nat
      /\ position \in Nat /\ accepted[t] \in Nat /\ MaxContentPackages \in Nat
  BY ManagerAssumption DEF IInv, StateType
<1>2. freeContentPackages = <<>> /\ ~(Len(contentPackages) < MaxContentPackages)
  BY DEF CanCreate
<1>3. Len(contentPackages) = MaxContentPackages
  BY <1>1, <1>2 DEF IInv, PoolBounded
<1>4. accepted[t] <= SamplesBefore(t, position + Len(contentPackages))
  BY DEF IInv, AcceptedInv
<1>5. SamplesBefore(t, position + Len(contentPackages)) \in Nat
  <2>1. position + Len(contentPackages) \in Nat
    BY <1>1
  <2> QED BY <2>1, SamplesBeforeType
<1> QED BY <1>1, <1>3, <1>4, <1>5

(* The writer does not give up earlier, and does nothing afterwards.       *)
LEMMA FailsOnlyWhenFullStep ==
  ASSUME IInv, FailsOnlyWhenFull, [Next]_vars
  PROVE  FailsOnlyWhenFull'
<1> DEFINE Full == \E t \in Track : accepted[t] = SamplesBefore(t, position + MaxContentPackages)
<1>1. ASSUME CreateFails, Full
      PROVE  FailsOnlyWhenFull'
  BY <1>1 DEF CreateFails, FailsOnlyWhenFull
<1>2. ASSUME UNCHANGED status, status = "ok"
      PROVE  FailsOnlyWhenFull'
  BY <1>2 DEF FailsOnlyWhenFull
<1>3. ASSUME NEW t \in Track, NEW n \in 1 .. MaxSamplesPerCall, WriteSamplesStart(t, n)
      PROVE  FailsOnlyWhenFull'
  BY <1>2, <1>3 DEF WriteSamplesStart, Idle
<1>4. CASE WriteSamplesLoop
  <2>1. CASE call.cp > Len(contentPackages) /\ ~CanCreate
    <3>1. call \in [track : Track, rem : Nat \ {0}, cp : Nat \ {0}] /\ call # NoCall
      BY <1>4 DEF IInv, StateType, WriteSamplesLoop
    <3>2. /\ call.cp <= Len(contentPackages) + 1
          /\ SamplesBefore(call.track, position + call.cp - 1) <= accepted[call.track]
      BY <3>1 DEF IInv, CallInv
    <3>3. /\ call.cp \in Nat /\ call.track \in Track
          /\ position \in Nat /\ Len(contentPackages) \in Nat
      BY <3>1 DEF IInv, StateType
    <3>4. position + call.cp - 1 = position + Len(contentPackages)
      BY ONLY <2>1, <3>2, <3>3
    <3>5. Full
      BY <2>1, <3>2, <3>3, <3>4, FullForTrack
    <3> QED BY <1>1, <1>4, <2>1, <3>5 DEF WriteSamplesLoop
  <2>2. CASE ~(call.cp > Len(contentPackages) /\ ~CanCreate)
    <3>1. UNCHANGED status /\ status = "ok"
      BY <1>4, <2>2 DEF WriteSamplesLoop, WriteToPackage
    <3> QED BY <1>2, <3>1
  <2> QED BY <2>1, <2>2
<1>5. ASSUME NEW t \in Track, WriteSample(t)
      PROVE  FailsOnlyWhenFull'
  <2>1. PICK i \in 1 .. (Len(contentPackages) + 1) :
          /\ IsCurrentContentPackage(t, i)
          /\ IF i > Len(contentPackages) /\ ~CanCreate
               THEN CreateFails
               ELSE WriteToPackage(t, i, 1) /\ UNCHANGED call
    BY <1>5 DEF WriteSample
  <2>2. CASE i > Len(contentPackages) /\ ~CanCreate
    <3>1. SamplesBefore(t, position + i - 1) <= accepted[t]
      BY <2>1, CurrentPackage
    <3>2. position + i - 1 = position + Len(contentPackages)
      <4>1. position \in Nat /\ Len(contentPackages) \in Nat
        BY DEF IInv, StateType
      <4> QED BY ONLY <2>1, <2>2, <4>1
    <3>3. Full
      BY <2>2, <3>1, <3>2, FullForTrack
    <3> QED BY <1>1, <2>1, <2>2, <3>3
  <2>3. CASE ~(i > Len(contentPackages) /\ ~CanCreate)
    <3>1. UNCHANGED status /\ status = "ok"
      BY <1>5, <2>1, <2>3 DEF WriteSample, WriteToPackage, Idle
    <3> QED BY <1>2, <3>1
  <2> QED BY <2>2, <2>3
<1>6. CASE WriteUserTimecode
  <2>1. status' \in {"ok", "undefined"}
    BY <1>6 DEF WriteUserTimecode, Idle
  <2> QED BY <2>1 DEF FailsOnlyWhenFull
<1>7. ASSUME NEW n \in 1 .. 2, UpdateIndexTable(n)
      PROVE  FailsOnlyWhenFull'
  BY <1>2, <1>7 DEF UpdateIndexTable, Idle
<1>8. CASE WriteNextContentPackage
  BY <1>2, <1>8 DEF WriteNextContentPackage, Idle
<1>9. CASE Done \/ UNCHANGED vars
  BY <1>9 DEF Done, vars, FailsOnlyWhenFull
<1> QED BY <1>3, <1>4, <1>5, <1>6, <1>7, <1>8, <1>9 DEF Next

(* The writer gives up only when some track has filled every package that  *)
(* the limit allows beyond those written.                                  *)
THEOREM GivesUpOnlyWhenFull == Spec => []FailsOnlyWhenFull
<1>1. Init => FailsOnlyWhenFull
  BY DEF Init, FailsOnlyWhenFull
<1>2. IInv /\ FailsOnlyWhenFull /\ [Next]_vars => FailsOnlyWhenFull'
  BY FailsOnlyWhenFullStep
<1> QED BY <1>1, <1>2, Invariance, PTL DEF Spec

-----------------------------------------------------------------------------
(* The index table. *)

(* The entries of full packages, one after the other from the first.       *)
FullEntries(entries) ==
  \A i \in DOMAIN entries :
    /\ entries[i] = [t \in Track |-> GetNumSamples(t, i - 1)]
    /\ \A t \in Track : SamplesBefore(t, i) <= accepted[t]

(* Whether package i adds an entry, and that it adds the one that follows  *)
(* those of the packages before it.                                        *)
LEMMA ReadyEntry ==
  ASSUME IInv, NEW i \in 1 .. Len(contentPackages), IsReady(contentPackages[i]),
         NEW entries \in Seq([Track -> Nat]), FullEntries(entries),
         IF contentPackages[i].haveUpdatedIndex THEN Len(entries) >= position + i
                                                ELSE Len(entries) = position + i - 1
  PROVE  /\ entries \o IndexEntries(i) \in Seq([Track -> Nat])
         /\ FullEntries(entries \o IndexEntries(i))
         /\ Len(entries \o IndexEntries(i))
              = IF contentPackages[i].haveUpdatedIndex THEN Len(entries) ELSE position + i
<1> DEFINE cp == contentPackages[i]
           pos == position + i - 1
           e == [t \in Track |-> GetNumSamples(t, pos)]
<1>1. /\ position \in Nat /\ pos \in Nat /\ pos + 1 = position + i
      /\ Len(entries) \in Nat
      /\ cp \in ContentPackage
      /\ \A t \in Track : /\ cp.data[t] = Span(t, pos)
                          /\ SamplesBefore(t, pos + 1) <= accepted[t]
  <2>1. position \in Nat
    BY DEF IInv, StateType
  <2> QED BY <2>1, ReadyPackage
<1>2. CASE cp.haveUpdatedIndex
  <2>1. entries \o IndexEntries(i) = entries
    BY <1>2, ConcatEmptySeq DEF IndexEntries
  <2> QED BY <1>2, <2>1
<1>3. CASE ~cp.haveUpdatedIndex
  <2>1. \A t \in Track : Len(cp.data[t]) = GetNumSamples(t, pos)
    <3>1. ASSUME NEW t \in Track
          PROVE  Len(cp.data[t]) = GetNumSamples(t, pos)
      <4>1. SamplesBefore(t, pos) \in Nat /\ GetNumSamples(t, pos) \in Nat
        BY <1>1, SamplesBeforeType, GetNumSamplesType
      <4>2. cp.data[t] = Run(SamplesBefore(t, pos), GetNumSamples(t, pos))
        BY <1>1 DEF Span
      <4> QED BY <4>1, <4>2, RunType
    <3> QED BY <3>1
  <2>2. ElementSizes(cp) = e
    BY <2>1 DEF ElementSizes
  <2>3. IndexEntries(i) = <<e>>
    BY <1>3, <2>2 DEF IndexEntries
  <2>4. e \in [Track -> Nat]
    BY <1>1, GetNumSamplesType
  <2>5. Len(entries) = pos
    BY <1>3
  <2> DEFINE D == [Track -> Nat]
  <2>6. e \in D /\ entries \in Seq(D)
    BY <2>4
  <2> HIDE DEF e, pos, D
  <2>7. <<e>> \in Seq(D) /\ Len(<<e>>) = 1 /\ <<e>>[1] = e
    BY <2>6
  <2>8. /\ entries \o <<e>> \in Seq(D)
        /\ Len(entries \o <<e>>) = pos + 1
        /\ DOMAIN (entries \o <<e>>) = 1 .. (pos + 1)
        /\ \A j \in 1 .. pos : (entries \o <<e>>)[j] = entries[j]
        /\ (entries \o <<e>>)[pos + 1] = e
    BY <1>1, <2>5, <2>6, <2>7, ConcatProperties, LenProperties
  <2>9. FullEntries(entries \o <<e>>)
    <3>1. ASSUME NEW j \in 1 .. (pos + 1)
          PROVE  /\ (entries \o <<e>>)[j] = [t \in Track |-> GetNumSamples(t, j - 1)]
                 /\ \A t \in Track : SamplesBefore(t, j) <= accepted[t]
      <4>1. CASE j = pos + 1
        <5>1. j - 1 = pos
          BY <1>1, <4>1
        <5> QED BY <1>1, <2>8, <4>1, <5>1 DEF e
      <4>2. CASE j # pos + 1
        <5>1. j \in 1 .. pos /\ j \in DOMAIN entries
          BY <1>1, <2>5, <4>2
        <5> QED BY <2>8, <5>1 DEF FullEntries
      <4> QED BY <4>1, <4>2
    <3> QED BY <2>8, <3>1 DEF FullEntries
  <2> QED BY <1>1, <1>3, <2>3, <2>8, <2>9 DEF D
<1> QED BY <1>2, <1>3

(* Accepting more samples leaves entries those of full packages.           *)
LEMMA FullEntriesMore ==
  ASSUME accepted \in [Track -> Nat], accepted' \in [Track -> Nat],
         \A t \in Track : accepted[t] <= accepted'[t],
         NEW entries \in Seq([Track -> Nat]), FullEntries(entries)
  PROVE  \A i \in DOMAIN entries :
           /\ entries[i] = [t \in Track |-> GetNumSamples(t, i - 1)]
           /\ \A t \in Track : SamplesBefore(t, i) <= accepted'[t]
<1>1. ASSUME NEW i \in DOMAIN entries, NEW t \in Track
      PROVE  SamplesBefore(t, i) <= accepted'[t]
  <2>1. i \in Nat /\ SamplesBefore(t, i) <= accepted[t]
    BY DEF FullEntries
  <2>2. SamplesBefore(t, i) \in Nat
    BY <2>1, SamplesBeforeType
  <2> QED BY <2>1, <2>2
<1> QED BY <1>1 DEF FullEntries

(* A write to a package leaves the index flags and the timecodes as they   *)
(* are, and a package created for it has neither.                          *)
LEMMA WriteToPackageMarks ==
  ASSUME IInv, IInv', NEW t \in Track,
         NEW i \in 1 .. (Len(contentPackages) + 1), NEW n \in Nat,
         i > Len(contentPackages) => CanCreate,
         WriteToPackage(t, i, n)
  PROVE  /\ Len(contentPackages) <= Len(contentPackages')
         /\ \A j \in 1 .. Len(contentPackages') :
              LET old == contentPackages[j]
                  cp  == contentPackages'[j]
              IN IF j <= Len(contentPackages)
                   THEN /\ cp.haveUpdatedIndex <=> old.haveUpdatedIndex
                        /\ cp.userTimecodeSet <=> old.userTimecodeSet
                        /\ cp.userTimecode = old.userTimecode
                   ELSE ~cp.haveUpdatedIndex /\ ~cp.userTimecodeSet
<1> DEFINE N == Len(contentPackages)
           Q == QueueFor(i)
           Same(cp, old) == /\ cp.haveUpdatedIndex <=> old.haveUpdatedIndex
                            /\ cp.userTimecodeSet <=> old.userTimecodeSet
                            /\ cp.userTimecode = old.userTimecode
<1>1. contentPackages' = [Q EXCEPT ![i] = WriteElement(@, t, n)]
  BY DEF WriteToPackage
<1>2. /\ N \in Nat /\ contentPackages \in Seq(ContentPackage)
      /\ Q \in Seq(ContentPackage) /\ i \in 1 .. Len(Q) /\ N <= Len(Q) /\ Len(Q) \in Nat
  BY QueueForPackage DEF IInv, StateType
<1>3. ASSUME NEW j \in 1 .. Len(Q)
      PROVE  IF j <= N THEN Same(Q[j], contentPackages[j])
                       ELSE ~Q[j].haveUpdatedIndex /\ ~Q[j].userTimecodeSet
  <2>1. CASE i <= N
    BY <1>2, <2>1 DEF QueueFor
  <2>2. CASE i > N
    <3> DEFINE cp == IF freeContentPackages = <<>>
                       THEN NewContentPackage(position + N)
                       ELSE Reset(freeContentPackages[Len(freeContentPackages)], position + N)
    <3>1. Q = Append(contentPackages, cp)
      BY <2>2 DEF QueueFor, QueueAfterCreate
    <3>2. ~cp.haveUpdatedIndex /\ ~cp.userTimecodeSet
      BY DEF NewContentPackage, Reset
    <3> HIDE DEF cp
    <3>3. /\ Len(Q) = N + 1 /\ Q[N + 1] = cp
          /\ \A k \in 1 .. N : Q[k] = contentPackages[k]
      BY <1>2, <3>1
    <3> HIDE DEF Q
    <3>4. CASE j = N + 1
      BY <1>2, <3>2, <3>3, <3>4
    <3>5. CASE j \in 1 .. N
      BY <1>2, <3>3, <3>5
    <3> QED BY <1>2, <3>3, <3>4, <3>5
  <2> QED BY <1>2, <2>1, <2>2
<1>4. /\ Len(contentPackages') = Len(Q)
      /\ \A j \in 1 .. Len(Q) : Same(contentPackages'[j], Q[j])
  <2>1. \A j \in 1 .. Len(Q) :
          contentPackages'[j] = IF j = i THEN WriteElement(Q[i], t, n) ELSE Q[j]
    BY <1>1, <1>2
  <2>2. Same(WriteElement(Q[i], t, n), Q[i])
    <3>1. Q[i] \in ContentPackage
      BY <1>2
    <3> QED BY <3>1 DEF WriteElement, ContentPackage
  <2>3. Len(contentPackages') = Len(Q)
    BY <1>1, <1>2
  <2> HIDE DEF Q
  <2> QED BY <1>2, <2>1, <2>2, <2>3
<1> HIDE DEF Q
<1> QED BY <1>2, <1>3, <1>4

(* A package that is not ready takes samples without touching the index.   *)
LEMMA WriteToPackageIndex ==
  ASSUME IInv, IInv', IndexInv, NEW t \in Track,
         NEW i \in 1 .. (Len(contentPackages) + 1), NEW n \in Nat,
         i > Len(contentPackages) => CanCreate,
         WriteToPackage(t, i, n)
  PROVE  IndexInv'
<1> DEFINE N == Len(contentPackages)
           M == Len(contentPackages')
<1>1. /\ accepted' = [accepted EXCEPT ![t] = @ + n]
      /\ UNCHANGED <<position, index>>
  BY DEF WriteToPackage
<1>2. /\ accepted \in [Track -> Nat] /\ index \in Seq([Track -> Nat])
      /\ position \in Nat /\ N \in Nat /\ Len(index) \in Nat
      /\ M \in Nat /\ DOMAIN contentPackages' = 1 .. M
      /\ DOMAIN contentPackages = 1 .. N
  BY DEF IInv, StateType
<1>3. /\ N <= M
      /\ \A j \in 1 .. M :
           contentPackages'[j].haveUpdatedIndex
             <=> j <= N /\ contentPackages[j].haveUpdatedIndex
  BY WriteToPackageMarks
<1>4. Len(index) \in position .. (position + M)
  BY <1>2, <1>3 DEF IndexInv
<1>5. ASSUME NEW j \in 1 .. M
      PROVE  contentPackages'[j].haveUpdatedIndex <=> position + j <= Len(index)
  <2>1. CASE j <= N
    <3>1. j \in DOMAIN contentPackages
      BY <1>2, <2>1
    <3> QED BY <1>3, <2>1, <3>1 DEF IndexInv
  <2>2. CASE j > N
    <3>1. ~contentPackages'[j].haveUpdatedIndex
      BY <1>2, <1>3, <2>2
    <3>2. ~(position + j <= Len(index))
      BY <1>2, <2>2 DEF IndexInv
    <3> QED BY <3>1, <3>2
  <2> QED BY <1>2, <2>1, <2>2
<1>6. /\ accepted' \in [Track -> Nat]
      /\ \A u \in Track : accepted[u] <= accepted'[u]
  BY <1>1, <1>2
<1>7. FullEntries(index)
  BY DEF IndexInv, FullEntries
<1> QED BY <1>1, <1>2, <1>4, <1>5, <1>6, <1>7, FullEntriesMore DEF IndexInv

(* Indexing ahead of the write adds the entries of packages that are full. *)
LEMMA UpdateIndexTableIndex ==
  ASSUME IInv, IInv', IndexInv, NEW n \in 1 .. 2, UpdateIndexTable(n)
  PROVE  IndexInv'
<1> DEFINE N == Len(contentPackages)
           one == index \o IndexEntries(1)
           two == IF n = 2 THEN IndexEntries(2) ELSE <<>>
<1>1. /\ UNCHANGED <<position, accepted>> /\ n <= N
      /\ \A i \in 1 .. n : IsReady(contentPackages[i])
      /\ \E i \in 1 .. n : ~contentPackages[i].haveUpdatedIndex
      /\ index' = one \o two
      /\ contentPackages' = [i \in DOMAIN contentPackages |->
           IF i <= n THEN Indexed(contentPackages[i]) ELSE contentPackages[i]]
  BY DEF UpdateIndexTable
<1>2. /\ index \in Seq([Track -> Nat]) /\ index' \in Seq([Track -> Nat])
      /\ position \in Nat /\ N \in Nat /\ Len(index) \in Nat
      /\ contentPackages \in Seq(ContentPackage) /\ DOMAIN contentPackages = 1 .. N
      /\ contentPackages' \in Seq(ContentPackage)
  BY DEF IInv, StateType
<1>3. FullEntries(index)
  BY DEF IndexInv, FullEntries
<1>4. \A i \in 1 .. N : contentPackages[i].haveUpdatedIndex <=> position + i <= Len(index)
  BY <1>2 DEF IndexInv
<1>5. Len(index) >= position
  BY <1>2 DEF IndexInv
<1>6. ~(position + n <= Len(index))
  <2>1. PICK i \in 1 .. n : ~contentPackages[i].haveUpdatedIndex
    BY <1>1
  <2>2. ~(position + i <= Len(index))
    BY <1>1, <1>2, <1>4, <2>1
  <2> QED BY <1>2, <2>2
<1>7. /\ one \in Seq([Track -> Nat]) /\ FullEntries(one)
      /\ Len(one) = IF position + 1 <= Len(index) THEN Len(index) ELSE position + 1
  <2>1. 1 \in 1 .. N /\ IsReady(contentPackages[1])
    BY <1>1, <1>2
  <2>2. IF contentPackages[1].haveUpdatedIndex THEN Len(index) >= position + 1
                                               ELSE Len(index) = position + 1 - 1
    BY <1>2, <1>4, <1>5, <2>1
  <2>3. contentPackages[1].haveUpdatedIndex <=> position + 1 <= Len(index)
    BY <1>4, <2>1
  <2> QED BY <1>2, <1>3, <2>1, <2>2, <2>3, ReadyEntry
<1> HIDE DEF one
<1>8. index' \in Seq([Track -> Nat]) /\ FullEntries(index') /\ Len(index') = position + n
  <2>1. CASE n = 1
    <3>1. index' = one
      BY <1>1, <1>7, <2>1, ConcatEmptySeq
    <3> QED BY <1>2, <1>5, <1>6, <1>7, <2>1, <3>1
  <2>2. CASE n = 2
    <3>1. index' = one \o IndexEntries(2)
      BY <1>1, <2>2
    <3>2. 2 \in 1 .. N /\ IsReady(contentPackages[2]) /\ ~contentPackages[2].haveUpdatedIndex
      BY <1>1, <1>2, <1>4, <1>6, <2>2
    <3>3. Len(one) = position + 2 - 1
      BY <1>2, <1>5, <1>6, <1>7, <2>2
    <3> QED BY <1>7, <2>2, <3>1, <3>2, <3>3, ReadyEntry
  <2> QED BY <2>1, <2>2
<1>9. Len(contentPackages') = N
  BY <1>1, <1>2
<1>10. ASSUME NEW j \in 1 .. N
       PROVE  contentPackages'[j].haveUpdatedIndex <=> position + j <= position + n
  <2>1. contentPackages[j] \in ContentPackage
    BY <1>2
  <2>2. CASE j <= n
    <3>1. contentPackages'[j] = Indexed(contentPackages[j])
      BY <1>1, <1>2, <2>2
    <3>2. Indexed(contentPackages[j]).haveUpdatedIndex
      BY <2>1 DEF Indexed, ContentPackage
    <3> QED BY <1>2, <2>2, <3>1, <3>2
  <2>3. CASE ~(j <= n)
    <3>1. contentPackages'[j] = contentPackages[j]
      BY <1>1, <1>2, <2>3
    <3>2. ~(position + j <= Len(index))
      BY <1>2, <1>6, <2>3
    <3>3. ~contentPackages[j].haveUpdatedIndex
      BY <1>4, <3>2
    <3> QED BY <1>2, <2>3, <3>1, <3>3
  <2> QED BY <2>2, <2>3
<1>11. Len(index') \in position .. (position + N)
  BY <1>1, <1>2, <1>8
<1>12. \A i \in DOMAIN index' :
         /\ index'[i] = [t \in Track |-> GetNumSamples(t, i - 1)]
         /\ \A t \in Track : SamplesBefore(t, i) <= accepted'[t]
  BY <1>1, <1>8 DEF FullEntries
<1>13. DOMAIN contentPackages' = 1 .. N
  BY <1>1, <1>2
<1> QED BY <1>1, <1>8, <1>9, <1>10, <1>11, <1>12, <1>13 DEF IndexInv

(* Writing the front package adds its entry unless it has one.             *)
LEMMA WriteNextContentPackageIndex ==
  ASSUME IInv, IInv', IndexInv, WriteNextContentPackage
  PROVE  IndexInv'
<1> DEFINE N == Len(contentPackages)
<1>1. /\ UNCHANGED accepted
      /\ HaveContentPackage
      /\ index' = index \o IndexEntries(1)
      /\ contentPackages' = Tail(contentPackages)
      /\ position' = position + 1
  BY DEF WriteNextContentPackage
<1>2. /\ index \in Seq([Track -> Nat])
      /\ position \in Nat /\ N \in Nat /\ Len(index) \in Nat
      /\ contentPackages \in Seq(ContentPackage) /\ DOMAIN contentPackages = 1 .. N
      /\ contentPackages # <<>>
  BY <1>1 DEF IInv, StateType, HaveContentPackage
<1>3. FullEntries(index)
  BY DEF IndexInv, FullEntries
<1>4. \A i \in 1 .. N : contentPackages[i].haveUpdatedIndex <=> position + i <= Len(index)
  BY <1>2 DEF IndexInv
<1>5. Len(index) >= position /\ Len(index) <= position + N
  BY <1>2 DEF IndexInv
<1>6. /\ index' \in Seq([Track -> Nat]) /\ FullEntries(index')
      /\ Len(index') = IF position + 1 <= Len(index) THEN Len(index) ELSE position + 1
  <2>1. IsReady(contentPackages[1]) /\ 1 \in 1 .. N
    BY <1>1, FrontPackage DEF HaveContentPackage
  <2>2. IF contentPackages[1].haveUpdatedIndex THEN Len(index) >= position + 1
                                               ELSE Len(index) = position + 1 - 1
    BY <1>2, <1>4, <1>5, <2>1
  <2>3. contentPackages[1].haveUpdatedIndex <=> position + 1 <= Len(index)
    BY <1>4, <2>1
  <2> QED BY <1>1, <1>2, <1>3, <2>1, <2>2, <2>3, ReadyEntry
<1>7. /\ contentPackages' \in Seq(ContentPackage)
      /\ Len(contentPackages') = N - 1
      /\ DOMAIN contentPackages' = 1 .. (N - 1)
      /\ \A j \in 1 .. (N - 1) : contentPackages'[j] = contentPackages[j + 1]
  BY <1>1, <1>2, HeadTailProperties, LenProperties
<1>8. ASSUME NEW j \in 1 .. (N - 1)
      PROVE  contentPackages'[j].haveUpdatedIndex <=> position' + j <= Len(index')
  <2>1. contentPackages'[j].haveUpdatedIndex <=> position + (j + 1) <= Len(index)
    <3>1. j + 1 \in 1 .. N
      BY <1>2
    <3> QED BY <1>4, <1>7, <3>1
  <2>2. position + (j + 1) <= Len(index) <=> position' + j <= Len(index')
    <3>1. j \in Nat \ {0}
      BY <1>2
    <3>2. position' + j <= Len(index') <=> position + 1 + j <= Len(index')
      BY <1>1
    <3> QED BY ONLY <1>2, <1>5, <1>6, <3>1, <3>2
  <2> QED BY <2>1, <2>2
<1>9. Len(index') \in position' .. (position' + Len(contentPackages'))
  BY <1>1, <1>2, <1>5, <1>6, <1>7
<1>10. \A i \in DOMAIN index' :
         /\ index'[i] = [t \in Track |-> GetNumSamples(t, i - 1)]
         /\ \A t \in Track : SamplesBefore(t, i) <= accepted'[t]
  BY <1>1, <1>6 DEF FullEntries
<1> QED BY <1>7, <1>8, <1>9, <1>10 DEF IndexInv

(* The index invariant holds in every state of every behaviour.            *)
LEMMA IndexInvariance == Spec => []IndexInv
<1>1. Init => IndexInv
  <2> SUFFICES ASSUME Init PROVE IndexInv
    OBVIOUS
  <2>1. position = 0 /\ contentPackages = <<>> /\ index = <<>>
    BY DEF Init
  <2>2. Len(contentPackages) = 0 /\ Len(index) = 0
    BY <2>1
  <2> QED BY <2>1, <2>2 DEF IndexInv
<1>2. ASSUME IInv, IInv', IndexInv, [Next]_vars
      PROVE  IndexInv'
  <2>1. ASSUME UNCHANGED <<contentPackages, position, accepted, index>>
        PROVE  IndexInv'
    BY <1>2, <2>1 DEF IndexInv
  <2>2. ASSUME NEW t \in Track, NEW n \in 1 .. MaxSamplesPerCall, WriteSamplesStart(t, n)
        PROVE  IndexInv'
    BY <2>1, <2>2 DEF WriteSamplesStart
  <2>3. CASE WriteSamplesLoop
    <3>1. CASE call.cp > Len(contentPackages) /\ ~CanCreate
      BY <2>1, <2>3, <3>1 DEF WriteSamplesLoop, CreateFails
    <3>2. ASSUME NEW t, t = call.track, NEW i, i = call.cp,
                 i > Len(contentPackages) => CanCreate,
                 NEW n, n = NumToWrite(QueueFor(i)[i], t, call.rem)
          PROVE  IndexInv'
      <4>1. /\ t \in Track /\ i \in 1 .. (Len(contentPackages) + 1) /\ n \in Nat
            /\ WriteToPackage(t, i, n)
        BY <1>2, <2>3, <3>2, LoopStep
      <4> QED BY <1>2, <3>2, <4>1, WriteToPackageIndex
    <3> QED BY <3>1, <3>2
  <2>4. ASSUME NEW t \in Track, WriteSample(t)
        PROVE  IndexInv'
    <3>1. PICK i \in 1 .. (Len(contentPackages) + 1) :
            IF i > Len(contentPackages) /\ ~CanCreate
              THEN CreateFails
              ELSE WriteToPackage(t, i, 1)
      BY <2>4 DEF WriteSample
    <3>2. CASE i > Len(contentPackages) /\ ~CanCreate
      BY <2>1, <3>1, <3>2 DEF CreateFails
    <3>3. CASE ~(i > Len(contentPackages) /\ ~CanCreate)
      BY <1>2, <3>1, <3>3, WriteToPackageIndex
    <3> QED BY <3>2, <3>3
  <2>5. CASE WriteUserTimecode
    <3>1. UNCHANGED <<position, accepted, index>>
      BY <2>5 DEF WriteUserTimecode
    <3>2. PICK i \in 1 .. (Len(contentPackages) + 1) :
            IF i > Len(contentPackages)
              THEN UNCHANGED contentPackages
              ELSE contentPackages' = [contentPackages EXCEPT
                                         ![i] = StampTimecode(@, timecodes + 1)]
      BY <2>5 DEF WriteUserTimecode
    <3>3. CASE i > Len(contentPackages)
      BY <2>1, <3>1, <3>2, <3>3
    <3>4. CASE ~(i > Len(contentPackages))
      <4>1. /\ DOMAIN contentPackages' = DOMAIN contentPackages
            /\ Len(contentPackages') = Len(contentPackages)
            /\ \A j \in DOMAIN contentPackages :
                 contentPackages'[j].haveUpdatedIndex = contentPackages[j].haveUpdatedIndex
        <5>1. contentPackages \in Seq(ContentPackage) /\ contentPackages' \in Seq(ContentPackage)
          BY <1>2 DEF IInv, StateType
        <5>2. \A cp \in ContentPackage :
                StampTimecode(cp, timecodes + 1).haveUpdatedIndex = cp.haveUpdatedIndex
          BY DEF StampTimecode, ContentPackage
        <5>3. i \in 1 .. Len(contentPackages) /\ contentPackages[i] \in ContentPackage
          BY <3>4, <5>1
        <5> QED BY <3>2, <3>4, <5>1, <5>2, <5>3
      <4> QED BY <1>2, <3>1, <4>1 DEF IndexInv
    <3> QED BY <3>3, <3>4
  <2>6. ASSUME NEW n \in 1 .. 2, UpdateIndexTable(n)
        PROVE  IndexInv'
    BY <1>2, <2>6, UpdateIndexTableIndex
  <2>7. CASE WriteNextContentPackage
    BY <1>2, <2>7, WriteNextContentPackageIndex
  <2>8. CASE Done \/ UNCHANGED vars
    BY <2>1, <2>8 DEF Done, vars
  <2> QED BY <1>2, <2>2, <2>3, <2>4, <2>5, <2>6, <2>7, <2>8 DEF Next
<1>3. IInv /\ IInv' /\ IndexInv /\ [Next]_vars => IndexInv'
  BY <1>2
<1> QED BY <1>1, <1>3, Invariance, PTL DEF Spec

(* The index table describes the packages of the file, and those indexed   *)
(* ahead of their writing, with the sizes that they have or will have.     *)
THEOREM IndexTableMatchesFile == Spec => []IndexMatchesFile
<1>1. ASSUME IInv, IndexInv
      PROVE  IndexMatchesFile
  <2>1. /\ position \in Nat /\ Len(file) = position /\ DOMAIN file = 1 .. position
        /\ contentPackages \in Seq(ContentPackage) /\ Len(contentPackages) \in Nat
        /\ index \in Seq([Track -> Nat])
    BY <1>1 DEF IInv, StateType
  <2>2. ASSUME NEW i \in DOMAIN index
        PROVE  index[i] = IF i <= Len(file)
                            THEN [t \in Track |-> Len(file[i].data[t])]
                            ELSE ElementSizes(contentPackages[i - Len(file)])
    <3>1. /\ i \in Nat \ {0} /\ i - 1 \in Nat /\ i - 1 + 1 = i
          /\ i <= position + Len(contentPackages)
          /\ index[i] = [t \in Track |-> GetNumSamples(t, i - 1)]
          /\ \A t \in Track : SamplesBefore(t, i) <= accepted[t]
      BY <1>1, <2>1 DEF IndexInv
    <3>2. \A t \in Track : Len(Span(t, i - 1)) = GetNumSamples(t, i - 1)
      <4>1. ASSUME NEW t \in Track
            PROVE  Len(Span(t, i - 1)) = GetNumSamples(t, i - 1)
        <5>1. SamplesBefore(t, i - 1) \in Nat /\ GetNumSamples(t, i - 1) \in Nat
          BY <3>1, SamplesBeforeType, GetNumSamplesType
        <5> QED BY <5>1, RunType DEF Span
      <4> QED BY <4>1
    <3>3. CASE i <= position
      <4>1. i \in DOMAIN file
        BY <2>1, <3>1, <3>3
      <4>2. \A t \in Track : file[i].data[t] = Span(t, i - 1)
        BY <1>1, <4>1 DEF IInv, FileInterleaved
      <4> QED BY <2>1, <3>1, <3>2, <3>3, <4>2
    <3>4. CASE ~(i <= position)
      <4> DEFINE j == i - position
      <4>1. j \in 1 .. Len(contentPackages) /\ position + j - 1 = i - 1
        BY <2>1, <3>1, <3>4
      <4>2. HoldsShare(contentPackages[j], accepted, i - 1)
        <5>1. HoldsShare(contentPackages[j], accepted, position + j - 1)
          BY <1>1, <4>1 DEF IInv, QueueInv
        <5> QED BY <4>1, <5>1
      <4> HIDE DEF j
      <4>3. ASSUME NEW t \in Track
            PROVE  Len(contentPackages[j].data[t]) = GetNumSamples(t, i - 1)
        <5>1. /\ SamplesBefore(t, i - 1) \in Nat
              /\ GetNumSamples(t, i - 1) \in Nat \ {0}
              /\ SamplesBefore(t, i) = SamplesBefore(t, i - 1) + GetNumSamples(t, i - 1)
          <6>1. SamplesBefore(t, (i - 1) + 1) = SamplesBefore(t, i - 1) + GetNumSamples(t, i - 1)
            BY <3>1, SamplesBeforeStep
          <6> QED BY <3>1, <6>1, SamplesBeforeType, GetNumSamplesType
        <5>2. accepted[t] \in Nat /\ SamplesBefore(t, i) <= accepted[t]
          BY <1>1, <3>1 DEF IInv, StateType
        <5>3. Filled(t, accepted[t], i - 1) = GetNumSamples(t, i - 1)
          BY <3>1, <5>1, <5>2 DEF Filled
        <5>4. contentPackages[j].data[t] = Span(t, i - 1)
          BY <4>2, <5>3 DEF HoldsShare, Span
        <5> QED BY <3>2, <5>4
      <4>4. ElementSizes(contentPackages[j]) = [t \in Track |-> GetNumSamples(t, i - 1)]
        BY <4>3 DEF ElementSizes
      <4> QED BY <2>1, <3>1, <3>4, <4>4 DEF j
    <3> QED BY <3>3, <3>4
  <2>3. Len(index) \in Len(file) .. (Len(file) + Len(contentPackages))
    BY <1>1, <2>1 DEF IndexInv
  <2> QED BY <2>2, <2>3 DEF IndexMatchesFile
<1>2. IInv /\ IndexInv => IndexMatchesFile
  BY <1>1
<1> QED BY <1>2, Invariance, IndexInvariance, PTL

-----------------------------------------------------------------------------
(* User timecodes. *)

(* Packages created for samples wait for the timecodes that come next.     *)
LEMMA WriteToPackageTimecode ==
  ASSUME IInv, IInv', TimecodeInv, NEW t \in Track,
         NEW i \in 1 .. (Len(contentPackages) + 1), NEW n \in Nat,
         i > Len(contentPackages) => CanCreate,
         WriteToPackage(t, i, n)
  PROVE  TimecodeInv'
<1> SUFFICES ASSUME HaveInputUserTimecode
             PROVE  TimecodeInv'
  BY DEF TimecodeInv
<1> DEFINE N == Len(contentPackages)
           M == Len(contentPackages')
<1>1. UNCHANGED <<position, timecodes, file>>
  BY DEF WriteToPackage
<1>2. /\ position \in Nat /\ timecodes \in Nat /\ N \in Nat
      /\ M \in Nat /\ DOMAIN contentPackages' = 1 .. M
      /\ DOMAIN contentPackages = 1 .. N
  BY DEF IInv, StateType
<1>3. /\ N <= M
      /\ \A j \in 1 .. M :
           IF j <= N
             THEN /\ contentPackages'[j].userTimecodeSet <=> contentPackages[j].userTimecodeSet
                  /\ contentPackages'[j].userTimecode = contentPackages[j].userTimecode
             ELSE ~contentPackages'[j].userTimecodeSet
  BY WriteToPackageMarks
<1>4. timecodes \in position .. (position + N)
  BY DEF TimecodeInv
<1>5. ASSUME NEW j \in 1 .. M
      PROVE  /\ contentPackages'[j].userTimecodeSet <=> position + j <= timecodes
             /\ contentPackages'[j].userTimecodeSet
                  => contentPackages'[j].userTimecode = position + j
  <2>1. CASE j <= N
    <3>1. j \in DOMAIN contentPackages
      BY <1>2, <2>1
    <3> QED BY <1>3, <2>1, <3>1 DEF TimecodeInv
  <2>2. CASE j > N
    <3>1. ~contentPackages'[j].userTimecodeSet
      BY <1>2, <1>3, <2>2
    <3>2. ~(position + j <= timecodes)
      BY <1>2, <1>4, <2>2
    <3> QED BY <3>1, <3>2
  <2> QED BY <1>2, <2>1, <2>2
<1>6. timecodes' \in position' .. (position' + M)
  BY <1>1, <1>2, <1>3, <1>4
<1> QED BY <1>1, <1>2, <1>5, <1>6 DEF TimecodeInv

(* A timecode goes to the first package without one.                       *)
LEMMA WriteUserTimecodeTimecode ==
  ASSUME IInv, IInv', TimecodeInv, WriteUserTimecode
  PROVE  TimecodeInv'
<1> DEFINE N == Len(contentPackages)
           tc == timecodes + 1
<1>1. PICK i \in 1 .. (N + 1) :
        /\ IsCurrentContentPackage(SystemItem, i)
        /\ IF i > N
             THEN UNCHANGED <<contentPackages, timecodes>>
             ELSE /\ contentPackages' = [contentPackages EXCEPT ![i] = StampTimecode(@, tc)]
                  /\ timecodes' = tc
  BY DEF WriteUserTimecode
<1>2. HaveInputUserTimecode /\ UNCHANGED <<position, file>>
  BY DEF WriteUserTimecode
<1>3. /\ position \in Nat /\ timecodes \in Nat /\ N \in Nat
      /\ contentPackages \in Seq(ContentPackage) /\ DOMAIN contentPackages = 1 .. N
  BY DEF IInv, StateType
<1>4. CASE i > N
  BY <1>1, <1>2, <1>4 DEF TimecodeInv
<1>5. CASE ~(i > N)
  <2>1. \A j \in 1 .. N :
          /\ contentPackages[j].userTimecodeSet <=> position + j <= timecodes
          /\ contentPackages[j].userTimecodeSet => contentPackages[j].userTimecode = position + j
    BY <1>2, <1>3 DEF TimecodeInv
  <2>2. timecodes \in position .. (position + N)
    BY <1>2 DEF TimecodeInv
  <2>3. position + i = tc
    <3>1. ~(position + i <= timecodes)
      <4>1. ~contentPackages[i].userTimecodeSet
        BY <1>1, <1>2, <1>5 DEF IsCurrentContentPackage, IsReadyForTrack
      <4> QED BY <1>1, <1>3, <1>5, <2>1, <4>1
    <3>2. position + (i - 1) <= timecodes
      <4>1. CASE i = 1
        BY <1>3, <2>2, <4>1
      <4>2. CASE i > 1
        <5>1. i - 1 \in 1 .. (i - 1) /\ i - 1 \in 1 .. N
          BY <1>3, <1>5, <4>2
        <5>2. contentPackages[i - 1].userTimecodeSet
          BY <1>1, <1>2, <5>1 DEF IsCurrentContentPackage, IsReadyForTrack
        <5> QED BY <2>1, <5>1, <5>2
      <4> QED BY <4>1, <4>2
    <3> QED BY ONLY <1>3, <3>1, <3>2
  <2> DEFINE w == StampTimecode(contentPackages[i], tc)
  <2>4. w.userTimecodeSet /\ w.userTimecode = tc /\ w \in ContentPackage
    <3>1. contentPackages[i] \in ContentPackage /\ tc \in Nat
      BY <1>3, <1>5
    <3> QED BY <3>1 DEF StampTimecode, ContentPackage
  <2>5. /\ contentPackages' = [contentPackages EXCEPT ![i] = w]
        /\ timecodes' = tc /\ i \in 1 .. N
    BY <1>1, <1>3, <1>5
  <2> HIDE DEF w
  <2>6. /\ Len(contentPackages') = N /\ DOMAIN contentPackages' = 1 .. N
        /\ \A j \in 1 .. N : contentPackages'[j] = IF j = i THEN w ELSE contentPackages[j]
    BY <1>3, <2>4, <2>5
  <2>7. ASSUME NEW j \in 1 .. N
        PROVE  /\ contentPackages'[j].userTimecodeSet <=> position + j <= tc
               /\ contentPackages'[j].userTimecodeSet
                    => contentPackages'[j].userTimecode = position + j
    <3>1. CASE j = i
      BY <1>3, <2>3, <2>4, <2>6, <3>1
    <3>2. CASE j # i
      <4>1. position + j <= tc <=> position + j <= timecodes
        BY ONLY <1>3, <2>3, <3>2
      <4> QED BY <2>1, <2>6, <3>2, <4>1
    <3> QED BY <3>1, <3>2
  <2>8. tc \in position .. (position + N)
    BY <1>3, <1>5, <2>3
  <2>9. \A j \in DOMAIN file : file[j].userTimecode = j
    BY <1>2 DEF TimecodeInv
  <2> QED BY <1>2, <2>5, <2>6, <2>7, <2>8, <2>9 DEF TimecodeInv
<1> QED BY <1>4, <1>5

(* The package written carries the timecode with its number.               *)
LEMMA WriteNextContentPackageTimecode ==
  ASSUME IInv, IInv', TimecodeInv, WriteNextContentPackage
  PROVE  TimecodeInv'
<1> SUFFICES ASSUME HaveInputUserTimecode
             PROVE  TimecodeInv'
  BY DEF TimecodeInv
<1> DEFINE N == Len(contentPackages)
           cp == contentPackages[1]
           written == [data |-> cp.data, continuity |-> cp.position,
                       userTimecode |-> cp.userTimecode]
<1>1. /\ UNCHANGED timecodes
      /\ HaveContentPackage
      /\ file' = Append(file, written)
      /\ contentPackages' = Tail(contentPackages)
      /\ position' = position + 1
  BY DEF WriteNextContentPackage
<1>2. /\ position \in Nat /\ timecodes \in Nat /\ N \in Nat
      /\ contentPackages \in Seq(ContentPackage) /\ contentPackages # <<>>
      /\ file \in Seq([data : [Track -> Seq(Nat)], continuity : Nat, userTimecode : Nat])
      /\ Len(file) = position
  BY <1>1 DEF IInv, StateType, HaveContentPackage
<1>3. \A j \in 1 .. N :
        /\ contentPackages[j].userTimecodeSet <=> position + j <= timecodes
        /\ contentPackages[j].userTimecodeSet => contentPackages[j].userTimecode = position + j
  BY <1>2 DEF TimecodeInv
<1>4. timecodes \in position .. (position + N)
  BY DEF TimecodeInv
<1>5. position + 1 <= timecodes /\ cp.userTimecode = position + 1 /\ cp \in ContentPackage
  <2>1. 1 \in 1 .. N
    BY <1>1, FrontPackage
  <2>2. cp.userTimecodeSet
    BY <1>1 DEF HaveContentPackage, IsReady
  <2> QED BY <1>2, <1>3, <2>1, <2>2
<1>6. /\ Len(contentPackages') = N - 1
      /\ DOMAIN contentPackages' = 1 .. (N - 1)
      /\ \A j \in 1 .. (N - 1) : contentPackages'[j] = contentPackages[j + 1]
  BY <1>1, <1>2, HeadTailProperties, LenProperties
<1>7. ASSUME NEW j \in 1 .. (N - 1)
      PROVE  /\ contentPackages'[j].userTimecodeSet <=> position + 1 + j <= timecodes
             /\ contentPackages'[j].userTimecodeSet
                  => contentPackages'[j].userTimecode = position + 1 + j
  <2>1. j + 1 \in 1 .. N /\ position + (j + 1) = position + 1 + j
    BY <1>2
  <2> QED BY <1>3, <1>6, <2>1
<1>8. timecodes \in (position + 1) .. (position + 1 + (N - 1))
  BY <1>2, <1>4, <1>5
<1>9. \A j \in DOMAIN file' : file'[j].userTimecode = j
  <2> DEFINE R == [data : [Track -> Seq(Nat)], continuity : Nat, userTimecode : Nat]
  <2>1. written \in R /\ file \in Seq(R)
    BY <1>2, <1>5 DEF ContentPackage
  <2>2. written.userTimecode = position + 1
    BY <1>5
  <2> HIDE DEF written, R
  <2>3. /\ DOMAIN file' = 1 .. (position + 1)
        /\ \A j \in 1 .. position : file'[j] = file[j]
        /\ file'[position + 1] = written
    BY <1>1, <1>2, <2>1, AppendProperties, LenProperties
  <2>4. \A j \in 1 .. position : file[j].userTimecode = j
    <3>1. DOMAIN file = 1 .. position
      BY <1>2, <2>1, LenProperties
    <3> QED BY <3>1 DEF TimecodeInv
  <2>5. ASSUME NEW j \in 1 .. (position + 1)
        PROVE  file'[j].userTimecode = j
    <3>1. j = position + 1 \/ j \in 1 .. position
      BY <1>2
    <3> QED BY <2>2, <2>3, <2>4, <3>1
  <2> QED BY <2>3, <2>5
<1> QED BY <1>1, <1>6, <1>7, <1>8, <1>9 DEF TimecodeInv

(* The timecode invariant holds in every state of every behaviour.         *)
LEMMA TimecodeInvariance == Spec => []TimecodeInv
<1>1. Init => TimecodeInv
  <2> SUFFICES ASSUME Init PROVE TimecodeInv
    OBVIOUS
  <2>1. position = 0 /\ contentPackages = <<>> /\ timecodes = 0 /\ file = <<>>
    BY DEF Init
  <2>2. Len(contentPackages) = 0
    BY <2>1
  <2> QED BY <2>1, <2>2 DEF TimecodeInv
<1>2. ASSUME IInv, IInv', TimecodeInv, [Next]_vars
      PROVE  TimecodeInv'
  <2>1. ASSUME UNCHANGED <<contentPackages, position, timecodes, file>>
        PROVE  TimecodeInv'
    BY <1>2, <2>1 DEF TimecodeInv
  <2>2. ASSUME NEW t \in Track, NEW n \in 1 .. MaxSamplesPerCall, WriteSamplesStart(t, n)
        PROVE  TimecodeInv'
    BY <2>1, <2>2 DEF WriteSamplesStart
  <2>3. CASE WriteSamplesLoop
    <3>1. CASE call.cp > Len(contentPackages) /\ ~CanCreate
      BY <2>1, <2>3, <3>1 DEF WriteSamplesLoop, CreateFails
    <3>2. ASSUME NEW t, t = call.track, NEW i, i = call.cp,
                 i > Len(contentPackages) => CanCreate,
                 NEW n, n = NumToWrite(QueueFor(i)[i], t, call.rem)
          PROVE  TimecodeInv'
      <4>1. /\ t \in Track /\ i \in 1 .. (Len(contentPackages) + 1) /\ n \in Nat
            /\ WriteToPackage(t, i, n)
        BY <1>2, <2>3, <3>2, LoopStep
      <4> QED BY <1>2, <3>2, <4>1, WriteToPackageTimecode
    <3> QED BY <3>1, <3>2
  <2>4. ASSUME NEW t \in Track, WriteSample(t)
        PROVE  TimecodeInv'
    <3>1. PICK i \in 1 .. (Len(contentPackages) + 1) :
            IF i > Len(contentPackages) /\ ~CanCreate
              THEN CreateFails
              ELSE WriteToPackage(t, i, 1)
      BY <2>4 DEF WriteSample
    <3>2. CASE i > Len(contentPackages) /\ ~CanCreate
      BY <2>1, <3>1, <3>2 DEF CreateFails
    <3>3. CASE ~(i > Len(contentPackages) /\ ~CanCreate)
      BY <1>2, <3>1, <3>3, WriteToPackageTimecode
    <3> QED BY <3>2, <3>3
  <2>5. CASE WriteUserTimecode
    BY <1>2, <2>5, WriteUserTimecodeTimecode
  <2>6. ASSUME NEW n \in 1 .. 2, UpdateIndexTable(n)
        PROVE  TimecodeInv'
    <3>1. /\ UNCHANGED <<position, timecodes, file>>
          /\ contentPackages' = [i \in DOMAIN contentPackages |->
               IF i <= n THEN Indexed(contentPackages[i]) ELSE contentPackages[i]]
      BY <2>6 DEF UpdateIndexTable
    <3>2. \A cp \in ContentPackage : /\ Indexed(cp).userTimecodeSet = cp.userTimecodeSet
                                     /\ Indexed(cp).userTimecode = cp.userTimecode
      BY DEF Indexed, ContentPackage
    <3>3. contentPackages \in Seq(ContentPackage) /\ contentPackages' \in Seq(ContentPackage)
      BY <1>2 DEF IInv, StateType
    <3>4. /\ DOMAIN contentPackages' = DOMAIN contentPackages
          /\ Len(contentPackages') = Len(contentPackages)
          /\ \A i \in DOMAIN contentPackages :
               /\ contentPackages'[i].userTimecodeSet = contentPackages[i].userTimecodeSet
               /\ contentPackages'[i].userTimecode = contentPackages[i].userTimecode
      BY <3>1, <3>2, <3>3
    <3> QED BY <1>2, <3>1, <3>4 DEF TimecodeInv
  <2>7. CASE WriteNextContentPackage
    BY <1>2, <2>7, WriteNextContentPackageTimecode
  <2>8. CASE Done \/ UNCHANGED vars
    BY <2>1, <2>8 DEF Done, vars
  <2> QED BY <1>2, <2>2, <2>3, <2>4, <2>5, <2>6, <2>7, <2>8 DEF Next
<1>3. IInv /\ IInv' /\ TimecodeInv /\ [Next]_vars => TimecodeInv'
  BY <1>2
<1> QED BY <1>1, <1>3, Invariance, PTL DEF Spec

(* Every user timecode is written in the package with its number, however  *)
(* the packages that carried earlier ones are recycled.                    *)
THEOREM TimecodesStayInOrder == Spec => []TimecodesInOrder
<1>1. TimecodeInv => TimecodesInOrder
  BY DEF TimecodeInv, TimecodesInOrder
<1> QED BY <1>1, TimecodeInvariance, PTL

-----------------------------------------------------------------------------
(* The operators of the abstract specification are those of this one.      *)
LEMMA SameSequences ==
  /\ \A t, p : Interleaved!SamplesBefore(t, p) = SamplesBefore(t, p)
  /\ \A t, p : Interleaved!Span(t, p) = Span(t, p)
<1>1. \A t : Interleaved!Period(t) = Period(t)
  BY DEF Period, Interleaved!Period
<1>2. \A t, p : Interleaved!SamplesBefore(t, p) = SamplesBefore(t, p)
  BY <1>1 DEF SamplesBefore, Interleaved!SamplesBefore
<1>3. \A t, p : Interleaved!GetNumSamples(t, p) = GetNumSamples(t, p)
  BY <1>1 DEF GetNumSamples, Interleaved!GetNumSamples
<1> QED BY <1>2, <1>3 DEF Span, Run, Interleaved!Span, Interleaved!Run

(* Samples that go into a package are samples submitted.                   *)
LEMMA WriteToPackageSubmits ==
  ASSUME IInv, NEW t \in Track, NEW i, NEW n \in Nat \ {0}, WriteToPackage(t, i, n)
  PROVE  Interleaved!Submit
<1>1. /\ accepted' = [accepted EXCEPT ![t] = @ + n] /\ file' = file
      /\ accepted \in [Track -> Nat]
  BY DEF WriteToPackage, IInv, StateType
<1>2. accepted'[t] = accepted[t] + n /\ accepted[t] \in Nat
  BY <1>1
<1>3. accepted'[t] > accepted[t]
  BY ONLY <1>2
<1>4. accepted' = [accepted EXCEPT ![t] = accepted'[t]]
  BY <1>1
<1>5. WrittenPackages' = WrittenPackages
  BY <1>1 DEF WrittenPackages
<1> QED BY <1>3, <1>4, <1>5 DEF Interleaved!Submit

(* The package written is the one the interleaver emits next.              *)
LEMMA WriteNextContentPackageEmits ==
  ASSUME IInv, WriteNextContentPackage
  PROVE  Interleaved!Emit
<1> DEFINE cp == contentPackages[1]
           share == [t \in Track |-> Span(t, position)]
           written == [data |-> cp.data, continuity |-> cp.position,
                       userTimecode |-> cp.userTimecode]
<1>1. /\ HaveContentPackage /\ file' = Append(file, written) /\ UNCHANGED accepted
  BY DEF WriteNextContentPackage
<1>2. /\ cp \in ContentPackage
      /\ \A t \in Track : /\ cp.data[t] = Span(t, position)
                          /\ SamplesBefore(t, position + 1) <= accepted[t]
  BY <1>1, FrontPackage
<1>3. position \in Nat /\ Len(file) = position /\ file \in Seq([data : [Track -> Seq(Nat)], continuity : Nat, userTimecode : Nat])
  BY DEF IInv, StateType
<1>4. cp.data = share
  BY <1>2 DEF ContentPackage
<1>5. /\ DOMAIN file = 1 .. position
      /\ DOMAIN file' = 1 .. (position + 1)
      /\ \A i \in 1 .. position : file'[i] = file[i]
      /\ file'[position + 1] = written
  <2>1. written \in [data : [Track -> Seq(Nat)], continuity : Nat, userTimecode : Nat]
    BY <1>2 DEF ContentPackage
  <2> HIDE DEF written
  <2> QED BY <1>1, <1>3, <2>1, AppendProperties
<1>6. written.data = share
  BY <1>4
<1> HIDE DEF written, share
<1>7. WrittenPackages = [i \in 1 .. position |-> file[i].data]
  BY <1>5 DEF WrittenPackages
<1>8. WrittenPackages' = [i \in 1 .. (position + 1) |-> file'[i].data]
  BY <1>5 DEF WrittenPackages
<1>9. Len(WrittenPackages) = position
  BY <1>3, <1>7
<1>10. Append(WrittenPackages, share)
         = [i \in 1 .. (position + 1) |-> IF i = position + 1 THEN share ELSE WrittenPackages[i]]
  <2> DEFINE D == [Track -> Seq(Nat)]
             A == Append(WrittenPackages, share)
  <2>1. WrittenPackages \in Seq(D) /\ share \in D
    <3>1. ASSUME NEW i \in 1 .. position
          PROVE  file[i].data \in D
      <4>1. file[i] \in [data : [Track -> Seq(Nat)], continuity : Nat, userTimecode : Nat]
        BY <1>3, ElementOfSeq
      <4> QED BY <4>1
    <3>2. share \in D
      BY <1>2, <1>4 DEF ContentPackage
    <3> HIDE DEF D
    <3> QED BY <1>3, <1>7, <3>1, <3>2
  <2>2. /\ A \in Seq(D) /\ Len(A) = position + 1
        /\ \A i \in 1 .. position : A[i] = WrittenPackages[i]
        /\ A[position + 1] = share
    BY <1>9, <2>1, AppendProperties
  <2>3. \A i \in 1 .. (position + 1) :
          A[i] = IF i = position + 1 THEN share ELSE WrittenPackages[i]
    <3>1. ASSUME NEW i \in 1 .. (position + 1), i # position + 1
          PROVE  i \in 1 .. position
      BY ONLY <1>3, <3>1
    <3> QED BY <2>2, <3>1
  <2>4. A = [i \in 1 .. (position + 1) |-> A[i]]
    <3> HIDE DEF A, D
    <3> QED BY <2>2
  <2> QED BY <2>3, <2>4
<1>11. WrittenPackages' = Append(WrittenPackages, share)
  <2>1. \A i \in 1 .. (position + 1) :
          file'[i].data = IF i = position + 1 THEN share ELSE WrittenPackages[i]
    <3>1. ASSUME NEW i \in 1 .. (position + 1), i # position + 1
          PROVE  file'[i].data = WrittenPackages[i]
      <4>1. i \in 1 .. position
        BY <1>3, <3>1
      <4> QED BY <1>5, <1>7, <4>1
    <3> QED BY <1>5, <1>6, <3>1
  <2> QED BY <1>8, <1>10, <2>1
<1>12. share = [t \in Track |-> Interleaved!Span(t, Len(WrittenPackages))]
  BY <1>9, SameSequences DEF share
<1>13. \A t \in Track : Interleaved!SamplesBefore(t, Len(WrittenPackages) + 1) <= accepted[t]
  BY <1>2, <1>9, SameSequences
<1> QED BY <1>1, <1>11, <1>12, <1>13 DEF Interleaved!Emit

(* The steps that neither accept samples nor write a package are invisible *)
(* to the abstract specification.                                          *)
LEMMA InvisibleSteps ==
  ASSUME UNCHANGED <<accepted, file>>
  PROVE  UNCHANGED Interleaved!vars
  BY DEF Interleaved!vars, WrittenPackages

(* Every step of the content package manager is a step of the interleaver  *)
(* or is invisible to it.                                                  *)
LEMMA StepSimulation ==
  ASSUME IInv, [Next]_vars
  PROVE  [Interleaved!Next]_(Interleaved!vars)
<1>1. ASSUME NEW t \in Track, NEW n \in 1 .. MaxSamplesPerCall, WriteSamplesStart(t, n)
      PROVE  UNCHANGED Interleaved!vars
  BY <1>1, InvisibleSteps DEF WriteSamplesStart
<1>2. CASE WriteSamplesLoop
  <2>1. CASE call.cp > Len(contentPackages) /\ ~CanCreate
    <3>1. UNCHANGED <<accepted, file>>
      BY <1>2, <2>1 DEF WriteSamplesLoop, CreateFails
    <3> QED BY <3>1, InvisibleSteps
  <2>2. ASSUME NEW t, t = call.track, NEW i, i = call.cp,
               i > Len(contentPackages) => CanCreate,
               NEW n, n = NumToWrite(QueueFor(i)[i], t, call.rem)
        PROVE  Interleaved!Next
    <3>1. t \in Track /\ n \in Nat \ {0} /\ WriteToPackage(t, i, n)
      BY <1>2, <2>2, LoopStep
    <3> QED BY <3>1, WriteToPackageSubmits DEF Interleaved!Next
  <2> QED BY <2>1, <2>2
<1>3. ASSUME NEW t \in Track, WriteSample(t)
      PROVE  Interleaved!Next \/ UNCHANGED Interleaved!vars
  <2>1. \/ CreateFails
        \/ \E i \in 1 .. (Len(contentPackages) + 1) : WriteToPackage(t, i, 1)
    BY <1>3 DEF WriteSample
  <2>2. ASSUME NEW i, WriteToPackage(t, i, 1)
        PROVE  Interleaved!Next
    BY <2>2, WriteToPackageSubmits DEF Interleaved!Next
  <2>3. CreateFails => UNCHANGED Interleaved!vars
    BY InvisibleSteps DEF CreateFails
  <2> QED BY <2>1, <2>2, <2>3
<1>4. CASE WriteUserTimecode
  BY <1>4, InvisibleSteps DEF WriteUserTimecode
<1>5. ASSUME NEW n \in 1 .. 2, UpdateIndexTable(n)
      PROVE  UNCHANGED Interleaved!vars
  BY <1>5, InvisibleSteps DEF UpdateIndexTable
<1>6. CASE WriteNextContentPackage
  BY <1>6, WriteNextContentPackageEmits DEF Interleaved!Next
<1>7. CASE Done \/ UNCHANGED vars
  BY <1>7, InvisibleSteps DEF Done, vars
<1> QED BY <1>1, <1>2, <1>3, <1>4, <1>5, <1>6, <1>7 DEF Next

(* The content package manager implements the interleaver: whatever the    *)
(* calls and their order, and whether or not packages come from the pool,  *)
(* the file is the function of the tracks' samples that Interleaver states.*)
THEOREM ImplementsTheInterleaver == Spec => ImplementsInterleaver
<1>1. Init => Interleaved!Init
  BY DEF Init, Interleaved!Init, WrittenPackages
<1>2. IInv /\ [Next]_vars => [Interleaved!Next]_(Interleaved!vars)
  BY StepSimulation
<1> QED BY <1>1, <1>2, Invariance, PTL DEF Spec, ImplementsInterleaver, Interleaved!Spec
=============================================================================
