----------------------- MODULE SampleSequences_proof -----------------------
(* Facts about how samples are shared out over content packages.            *)
EXTENDS SampleSequences, SequenceTheorems, WellFoundedInduction, TLAPS

(* A set of natural numbers has a least element.                            *)
LEMMA LeastNumber ==
  ASSUME NEW T \in SUBSET Nat, T # {}
  PROVE  \E m \in T : \A k \in T : m <= k
<1> DEFINE R == OpToRel(<, Nat)
<1>1. IsWellFoundedOn(R, Nat)
  BY NatLessThanWellFounded
<1>2. \A k, m \in Nat : k < m => <<k, m>> \in R
  BY DEF OpToRel
<1> HIDE DEF R
<1>3. PICK m \in T : \A k \in T : ~ (<<k, m>> \in R)
  BY <1>1, WFMin
<1>4. \A k \in T : ~(k < m)
  BY <1>2, <1>3
<1> QED BY <1>4

(* Integer division: the quotient and remainder of p by d.                  *)
LEMMA DivMod ==
  ASSUME NEW d \in Nat \ {0}, NEW p \in Nat
  PROVE  /\ p \div d \in Nat
         /\ p % d \in 0 .. (d - 1)
         /\ p = (p \div d) * d + (p % d)
  BY SMT

(* The quotient and remainder are unique.                                   *)
LEMMA DivModUnique ==
  ASSUME NEW d \in Nat \ {0}, NEW a \in Nat, NEW b \in 0 .. (d - 1),
         NEW x \in Nat, x = a * d + b
  PROVE  x \div d = a /\ x % d = b
  BY SMT

(* The quotient and remainder of the next number.                           *)
LEMMA DivModNext ==
  ASSUME NEW d \in Nat \ {0}, NEW p \in Nat
  PROVE  /\ (p % d) + 1 < d => /\ (p + 1) \div d = p \div d
                               /\ (p + 1) % d = (p % d) + 1
         /\ (p % d) + 1 = d => /\ (p + 1) \div d = (p \div d) + 1
                               /\ (p + 1) % d = 0
<1>1. PICK a \in Nat, b \in 0 .. (d - 1) :
        a = p \div d /\ b = p % d /\ p = a * d + b
  BY DivMod
<1>2. PICK x \in Nat : x = p + 1
  OBVIOUS
<1>3. CASE b + 1 < d
  <2>1. PICK c \in 0 .. (d - 1) : c = b + 1
    BY <1>3
  <2>2. x = a * d + c
    BY <1>1, <1>2, <2>1
  <2>3. x \div d = a /\ x % d = c
    BY ONLY <2>2, d \in Nat \ {0}, a \in Nat, c \in 0 .. (d - 1), x \in Nat, DivModUnique
  <2> QED BY <1>1, <1>2, <1>3, <2>1, <2>3
<1>4. CASE b + 1 = d
  <2>1. PICK e \in Nat : e = a + 1
    OBVIOUS
  <2>2. x = e * d + 0 /\ 0 \in 0 .. (d - 1)
    BY <1>1, <1>2, <1>4, <2>1
  <2>3. x \div d = e /\ x % d = 0
    BY ONLY <2>2, d \in Nat \ {0}, e \in Nat, x \in Nat, DivModUnique
  <2> QED BY <1>1, <1>2, <1>4, <2>1, <2>3
<1> QED BY <1>1, <1>3, <1>4

(* The shape of a track's sequence and of its prefix sums.                  *)
LEMMA SequenceFacts ==
  ASSUME NEW t \in Track
  PROVE  /\ Period(t) \in Nat \ {0}
         /\ \A i \in 1 .. Period(t) : SampleSequence[t][i] \in Nat \ {0}
         /\ SampleOffset[t] \in [0 .. Period(t) -> Nat]
         /\ SampleOffset[t][0] = 0
         /\ \A i \in 1 .. Period(t) :
              SampleOffset[t][i] = SampleOffset[t][i-1] + SampleSequence[t][i]
         /\ \A i, j \in 0 .. Period(t) :
              i <= j => SampleOffset[t][i] <= SampleOffset[t][j]
<1> DEFINE L == Period(t)
           S == SampleOffset[t]
<1>1. SampleSequence[t] \in Seq(Nat \ {0}) /\ SampleSequence[t] # <<>>
  BY SampleSequenceAssumption
<1>2. /\ L \in Nat \ {0}
      /\ \A i \in 1 .. L : SampleSequence[t][i] \in Nat \ {0}
      /\ S \in [0 .. L -> Nat]
      /\ S[0] = 0
      /\ \A i \in 1 .. L : S[i] = S[i-1] + SampleSequence[t][i]
  BY <1>1, SampleOffsetAssumption DEF Period
<1> HIDE DEF L, S
<1>3. ASSUME NEW i \in 0 .. L, NEW j \in 0 .. L, i <= j
      PROVE  S[i] <= S[j]
  <2> DEFINE T == {k \in i .. L : S[k] < S[i]}
  <2>1. SUFFICES ASSUME T # {} PROVE FALSE
    <3>1. S[i] \in Nat /\ S[j] \in Nat /\ j \in i .. L
      BY <1>2, <1>3
    <3>2. j \notin T
      BY <2>1
    <3> QED BY <3>1, <3>2
  <2>2. T \in SUBSET Nat
    BY <1>2
  <2>3. PICK m \in T : \A k \in T : m <= k
    BY <2>1, <2>2, LeastNumber
  <2>4. m \in i .. L /\ S[m] < S[i]
    OBVIOUS
  <2>5. S[i] \in Nat /\ m # i
    BY <1>2, <2>4
  <2>6. m \in 1 .. L /\ m - 1 \in i .. L /\ m - 1 \in 0 .. L /\ m - 1 < m
    BY <1>2, <2>4, <2>5
  <2>7. m - 1 \notin T
    BY <2>3, <2>6
  <2>8. ~(S[m-1] < S[i]) /\ S[m-1] \in Nat /\ SampleSequence[t][m] \in Nat
    BY <1>2, <2>6, <2>7
  <2>9. S[m] = S[m-1] + SampleSequence[t][m]
    BY <1>2, <2>6
  <2> QED BY <2>4, <2>5, <2>8, <2>9
<1> QED BY <1>2, <1>3 DEF L, S

(* Every content package takes at least one sample of every track
   (OP1AContentPackageElement::GetNumSamples, frame wrapped). *)
LEMMA GetNumSamplesType ==
  ASSUME NEW t \in Track, NEW p \in Nat
  PROVE  GetNumSamples(t, p) \in Nat \ {0}
<1>1. /\ Period(t) \in Nat \ {0}
      /\ \A i \in 1 .. Period(t) : SampleSequence[t][i] \in Nat \ {0}
  BY SequenceFacts
<1>2. p % Period(t) \in 0 .. (Period(t) - 1)
  BY <1>1, DivMod
<1>3. (p % Period(t)) + 1 \in 1 .. Period(t)
  BY <1>1, <1>2
<1> QED BY <1>1, <1>3 DEF GetNumSamples

(* The number of samples before a content package is a natural number. *)
LEMMA SamplesBeforeType ==
  ASSUME NEW t \in Track, NEW p \in Nat
  PROVE  SamplesBefore(t, p) \in Nat
<1>1. /\ Period(t) \in Nat \ {0}
      /\ SampleOffset[t] \in [0 .. Period(t) -> Nat]
  BY SequenceFacts
<1>2. p \div Period(t) \in Nat /\ p % Period(t) \in 0 .. (Period(t) - 1)
  BY <1>1, DivMod
<1>3. Period(t) \in 0 .. Period(t) /\ p % Period(t) \in 0 .. Period(t)
  BY <1>1, <1>2
<1>4. SampleOffset[t][Period(t)] \in Nat /\ SampleOffset[t][p % Period(t)] \in Nat
  BY <1>1, <1>3
<1> QED BY <1>2, <1>4 DEF SamplesBefore

(* There are no samples before the first content package. *)
LEMMA SamplesBeforeZero ==
  ASSUME NEW t \in Track
  PROVE  SamplesBefore(t, 0) = 0
<1>1. /\ Period(t) \in Nat \ {0}
      /\ SampleOffset[t] \in [0 .. Period(t) -> Nat]
      /\ SampleOffset[t][0] = 0
  BY SequenceFacts
<1>2. 0 \div Period(t) = 0 /\ 0 % Period(t) = 0
  BY <1>1, DivModUnique
<1> QED BY <1>1, <1>2 DEF SamplesBefore

(* SamplesBefore adds up what GetNumSamples hands out.                      *)
LEMMA SamplesBeforeStep ==
  ASSUME NEW t \in Track, NEW p \in Nat
  PROVE  SamplesBefore(t, p + 1) = SamplesBefore(t, p) + GetNumSamples(t, p)
<1> DEFINE L == Period(t)
           q == p \div L
           r == p % L
           S == SampleOffset[t]
<1>1. /\ L \in Nat \ {0}
      /\ S \in [0 .. L -> Nat]
      /\ S[0] = 0
      /\ \A i \in 1 .. L : S[i] = S[i-1] + SampleSequence[t][i]
      /\ \A i \in 1 .. L : SampleSequence[t][i] \in Nat \ {0}
  BY SequenceFacts
<1>2. q \in Nat /\ r \in 0 .. (L - 1) /\ p = q * L + r
  BY <1>1, DivMod
<1>3. SamplesBefore(t, p) = q * S[L] + S[r]
  BY DEF SamplesBefore
<1>4. GetNumSamples(t, p) = SampleSequence[t][r + 1]
  BY DEF GetNumSamples
<1>5. SamplesBefore(t, p + 1) = ((p + 1) \div L) * S[L] + S[(p + 1) % L]
  BY DEF SamplesBefore
<1>10. /\ r + 1 < L => (p + 1) \div L = q /\ (p + 1) % L = r + 1
       /\ r + 1 = L => (p + 1) \div L = q + 1 /\ (p + 1) % L = 0
  BY <1>1, DivModNext
<1> HIDE DEF L, q, r, S
<1>6. S[r + 1] = S[r] + SampleSequence[t][r + 1]
  <2>1. r + 1 \in 1 .. L /\ (r + 1) - 1 = r
    BY <1>1, <1>2
  <2> QED BY <2>1, <1>1
<1>7. S[L] \in Nat /\ S[r] \in Nat /\ SampleSequence[t][r + 1] \in Nat
  BY <1>1, <1>2
<1>8. CASE r + 1 < L
  BY <1>2, <1>3, <1>4, <1>5, <1>6, <1>7, <1>8, <1>10
<1>9. CASE r + 1 = L
  <2>2. (p + 1) \div L = q + 1 /\ (p + 1) % L = 0
    BY <1>9, <1>10
  <2>3. SamplesBefore(t, p + 1) = q * S[L] + S[L]
    BY <2>2, <1>1, <1>2, <1>5, <1>7
  <2> QED BY <2>3, <1>2, <1>3, <1>4, <1>6, <1>7, <1>9
<1> QED BY <1>1, <1>2, <1>8, <1>9

(* Later content packages have no fewer samples before them. *)
LEMMA SamplesBeforeMonotone ==
  ASSUME NEW t \in Track, NEW p1 \in Nat, NEW p2 \in Nat, p1 <= p2
  PROVE  SamplesBefore(t, p1) <= SamplesBefore(t, p2)
<1> DEFINE L == Period(t)
           q1 == p1 \div L
           r1 == p1 % L
           q2 == p2 \div L
           r2 == p2 % L
           S == SampleOffset[t]
<1>1. /\ L \in Nat \ {0}
      /\ S \in [0 .. L -> Nat]
      /\ \A i, j \in 0 .. L : i <= j => S[i] <= S[j]
  BY SequenceFacts
<1>2. /\ q1 \in Nat /\ r1 \in 0 .. (L - 1) /\ p1 = q1 * L + r1
      /\ q2 \in Nat /\ r2 \in 0 .. (L - 1) /\ p2 = q2 * L + r2
  BY <1>1, DivMod
<1>3. /\ SamplesBefore(t, p1) = q1 * S[L] + S[r1]
      /\ SamplesBefore(t, p2) = q2 * S[L] + S[r2]
  BY DEF SamplesBefore
<1> HIDE DEF L, q1, r1, q2, r2, S
<1>4. S[L] \in Nat /\ S[r1] \in Nat /\ S[r2] \in Nat /\ S[r1] <= S[L]
  BY <1>1, <1>2
<1>5. CASE q1 = q2
  <2>1. r1 <= r2
    <3>1. q1 * L \in Nat /\ p1 = q1 * L + r1 /\ p2 = q1 * L + r2
      BY <1>1, <1>2, <1>5
    <3> HIDE <1>5
    <3> QED BY <3>1, <1>1, <1>2
  <2>2. S[r1] <= S[r2]
    BY <2>1, <1>1, <1>2
  <2> QED BY <2>2, <1>2, <1>3, <1>4, <1>5
<1>6. CASE q1 < q2
  <2>1. PICK d \in Nat : q2 = q1 + 1 + d
    <3>1. q2 - q1 - 1 \in Nat /\ q2 = q1 + 1 + (q2 - q1 - 1)
      BY <1>2, <1>6
    <3> QED BY <3>1
  <2>2. q2 * S[L] = q1 * S[L] + S[L] + d * S[L]
    BY <2>1, <1>2, <1>4
  <2>3. d * S[L] \in Nat /\ q1 * S[L] \in Nat
    BY <1>2, <1>4
  <2> QED BY <2>2, <2>3, <1>3, <1>4
<1>7. ~(q2 < q1)
  <2>1. SUFFICES ASSUME q2 < q1 PROVE FALSE
    OBVIOUS
  <2>2. PICK d \in Nat : q1 = q2 + 1 + d
    <3>1. q1 - q2 - 1 \in Nat /\ q1 = q2 + 1 + (q1 - q2 - 1)
      BY <1>2, <2>1
    <3> QED BY <3>1
  <2>3. q1 * L = q2 * L + L + d * L
    BY <2>2, <1>1, <1>2
  <2>4. d * L \in Nat /\ q2 * L \in Nat
    BY <1>1, <1>2
  <2> QED BY <2>3, <2>4, <1>1, <1>2
<1> QED BY <1>2, <1>5, <1>6, <1>7

(* A run continued is a longer run.                                         *)
LEMMA RunConcat ==
  ASSUME NEW k \in Nat, NEW n \in Nat, NEW m \in Nat
  PROVE  Run(k, n) \o Run(k + n, m) = Run(k, n + m)
<1>1. Run(k, n) \in Seq(Nat) /\ Len(Run(k, n)) = n
  BY DEF Run
<1>2. Run(k + n, m) \in Seq(Nat) /\ Len(Run(k + n, m)) = m
  BY DEF Run
<1>3. Run(k, n + m) \in Seq(Nat) /\ Len(Run(k, n + m)) = n + m
  BY DEF Run
<1>4. /\ Run(k, n) \o Run(k + n, m) \in Seq(Nat)
      /\ Len(Run(k, n) \o Run(k + n, m)) = n + m
  BY <1>1, <1>2, ConcatProperties
<1>5. ASSUME NEW i \in 1 .. (n + m)
      PROVE  (Run(k, n) \o Run(k + n, m))[i] = Run(k, n + m)[i]
  <2>1. CASE i <= n
    <3>1. (Run(k, n) \o Run(k + n, m))[i] = Run(k, n)[i]
      BY <1>1, <1>2, <2>1, ConcatProperties
    <3> QED BY <3>1, <2>1 DEF Run
  <2>2. CASE ~(i <= n)
    <3>1. (Run(k, n) \o Run(k + n, m))[i] = Run(k + n, m)[i - n]
      BY <1>1, <1>2, <2>2, ConcatProperties
    <3>2. i - n \in 1 .. m
      BY <2>2
    <3> QED BY <3>1, <3>2 DEF Run
  <2> QED BY <2>1, <2>2
<1> QED BY <1>3, <1>4, <1>5, SeqEqual

(* A run of samples is a sequence of sample ordinals. *)
LEMMA RunType ==
  ASSUME NEW k \in Nat, NEW n \in Nat
  PROVE  Run(k, n) \in Seq(Nat) /\ Len(Run(k, n)) = n
  BY DEF Run

(* The run of no samples is the empty element that Reset leaves behind. *)
LEMMA RunEmpty ==
  ASSUME NEW k \in Nat
  PROVE  Run(k, 0) = <<>>
  BY RunType, EmptySeq
=============================================================================
