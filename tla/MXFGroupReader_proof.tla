------------------------ MODULE MXFGroupReader_proof ------------------------
(***************************************************************************)
(* Proof that the members of a group stay in step: for any rates, files,   *)
(* limits and retries, and however the files grow between the reads, the   *)
(* members stand at the samples of the application's position, the frames  *)
(* of a read are of one position, and none is lost.                        *)
(*                                                                         *)
(* The first part is about the conversions of the code: within the range   *)
(* of a word they come to the samples before a position, and back.         *)
(***************************************************************************)
EXTENDS MXFGroupReader, SampleSequences_proof

-----------------------------------------------------------------------------
(* Sums. *)

(* Every part of a sequence has samples.                                    *)
LEMMA OffsetsGrow ==
  ASSUME NEW t \in Track, NEW i \in 0 .. Period(t), NEW j \in 0 .. Period(t), i < j
  PROVE  SampleOffset[t][i] < SampleOffset[t][j]
<1> DEFINE L == Period(t)
           S == SampleOffset[t]
<1>1. /\ L \in Nat \ {0}
      /\ S \in [0 .. L -> Nat]
      /\ \A k \in 1 .. L : SampleSequence[t][k] \in Nat \ {0}
      /\ \A k \in 1 .. L : S[k] = S[k-1] + SampleSequence[t][k]
      /\ \A k, m \in 0 .. L : k <= m => S[k] <= S[m]
  BY SequenceFacts
<1> HIDE DEF L, S
<1>2. i \in 0 .. L /\ j \in 0 .. L
  BY DEF L
<1>3. j - 1 \in 0 .. L /\ i <= j - 1 /\ j \in 1 .. L
  BY <1>1, <1>2
<1>4. S[i] <= S[j-1]
  BY <1>1, <1>2, <1>3
<1>5. S[j] = S[j-1] + SampleSequence[t][j] /\ SampleSequence[t][j] \in Nat \ {0}
  BY <1>1, <1>3
<1>6. S[i] \in Nat /\ S[j-1] \in Nat
  BY <1>1, <1>2, <1>3
<1>7. S[i] < S[j]
  BY <1>4, <1>5, <1>6
<1> QED BY <1>7 DEF S

(* So no part begins before the sample of its own number.                   *)
LEMMA OffsetsReach ==
  ASSUME NEW t \in Track, NEW i \in 0 .. Period(t)
  PROVE  i <= SampleOffset[t][i]
<1> DEFINE L == Period(t)
           S == SampleOffset[t]
           T == {k \in 0 .. L : S[k] < k}
<1>1. /\ L \in Nat \ {0}
      /\ S \in [0 .. L -> Nat]
      /\ S[0] = 0
  BY SequenceFacts
<1>2. \A k, m \in 0 .. L : k < m => S[k] < S[m]
  BY OffsetsGrow
<1> HIDE DEF L, S
<1>3. T = {}
  <2>1. SUFFICES ASSUME T # {} PROVE FALSE
    OBVIOUS
  <2>2. T \in SUBSET Nat
    BY <1>1
  <2>3. PICK m \in T : \A k \in T : m <= k
    BY <2>1, <2>2, LeastNumber
  <2>4. m \in 0 .. L /\ S[m] < m
    OBVIOUS
  <2>5. m # 0
    BY <1>1, <2>4
  <2>6. m - 1 \in 0 .. L /\ m - 1 < m
    BY <1>1, <2>4, <2>5
  <2>7. m - 1 \notin T
    BY <2>3, <2>4
  <2>8. ~(S[m-1] < m - 1) /\ S[m-1] < S[m] /\ S[m] \in Nat /\ S[m-1] \in Nat
    BY <1>1, <1>2, <2>4, <2>6, <2>7
  <2> QED BY <2>4, <2>8
<1>4. i \in 0 .. L /\ S[i] \in Nat
  BY <1>1 DEF L
<1>5. ~(S[i] < i)
  BY <1>3, <1>4
<1>6. i <= S[i]
  BY <1>4, <1>5
<1> QED BY <1>6 DEF S

(* No content package has fewer samples before it than packages.            *)
LEMMA SamplesBeforeReach ==
  ASSUME NEW t \in Track, NEW p \in Nat
  PROVE  p <= SamplesBefore(t, p)
<1> DEFINE L == Period(t)
           S == SampleOffset[t]
           q == p \div L
           r == p % L
<1>1. L \in Nat \ {0} /\ S \in [0 .. L -> Nat]
  BY SequenceFacts
<1>2. q \in Nat /\ r \in 0 .. (L - 1) /\ p = q * L + r
  BY <1>1, DivMod
<1>3. SamplesBefore(t, p) = q * S[L] + S[r]
  BY DEF SamplesBefore
<1>10. \A i \in 0 .. L : i <= S[i]
  BY OffsetsReach
<1> HIDE DEF L, S, q, r
<1>4. L \in 0 .. L /\ r \in 0 .. L
  BY <1>1, <1>2
<1>5. L <= S[L] /\ r <= S[r]
  BY <1>4, <1>10
<1>6. S[L] \in Nat /\ S[r] \in Nat
  BY <1>1, <1>4
<1>7. PICK d \in Nat : S[L] = L + d
  <2>1. S[L] - L \in Nat /\ S[L] = L + (S[L] - L)
    BY <1>1, <1>5, <1>6
  <2> QED BY <2>1
<1>8. q * S[L] = q * L + q * d
  BY <1>1, <1>2, <1>7
<1>9. q * d \in Nat /\ q * L \in Nat
  BY <1>1, <1>2, <1>7
<1> QED BY <1>2, <1>3, <1>5, <1>6, <1>8, <1>9

-----------------------------------------------------------------------------
(* Positions. *)

(* Quotient and remainder are unique for negative numbers, too.             *)
LEMMA IntDivModUnique ==
  ASSUME NEW d \in Nat \ {0}, NEW a \in Int, NEW b \in 0 .. (d - 1),
         NEW x \in Int, x = a * d + b
  PROVE  x \div d = a /\ x % d = b
  BY SMT

(* A signed word is what it was, if it had a place in one.                  *)
LEMMA SignedFits ==
  ASSUME NEW x \in Int, -(Word \div 2) <= x, x < Word \div 2, NEW k \in Int
  PROVE  Signed(k * Word + x) = x
<1>1. Word \in Nat /\ Word % 2 = 0
  BY WordAssumption
<1>2. PICK h \in Nat : h = Word \div 2 /\ Word = 2 * h
  BY <1>1
<1>3. h # 0 /\ Word \in Nat \ {0} /\ -h <= x /\ x < h
  BY <1>2
<1>4. CASE x >= 0
  <2>1. x \in 0 .. (Word - 1) /\ k * Word + x \in Int
    BY <1>2, <1>3, <1>4
  <2>2. (k * Word + x) % Word = x
    BY <2>1, <1>3, IntDivModUnique
  <2> QED BY <2>2, <1>2, <1>3 DEF Signed
<1>5. CASE x < 0
  <2>1. PICK y \in 0 .. (Word - 1) : y = x + Word /\ y >= h
    BY <1>2, <1>3, <1>5
  <2>2. PICK m \in Int : m = k - 1
    OBVIOUS
  <2>3. k * Word + x = m * Word + y
    <3>1. k = m + 1
      BY <2>2
    <3>2. k * Word = m * Word + Word
      BY <3>1, <1>3
    <3>3. k * Word \in Int /\ m * Word \in Int
      BY <1>3
    <3> QED BY <3>2, <3>3, <2>1, <1>3
  <2>4. PICK z \in Int : z = k * Word + x
    BY <1>3
  <2>7. z = m * Word + y
    BY <2>3, <2>4
  <2>8. z % Word = y
    BY ONLY <2>7, <1>3, z \in Int, m \in Int, y \in 0 .. (Word - 1), IntDivModUnique
  <2>5. (k * Word + x) % Word = y
    BY <2>4, <2>8
  <2>6. ~(y < h) /\ y - Word = x /\ h = Word \div 2
    <3>1. ~(y < h)
      BY <2>1
    <3>2. y - Word = x
      BY <2>1, <1>3
    <3> QED BY <3>1, <3>2, <1>2
  <2> QED BY <2>5, <2>6 DEF Signed
<1> QED BY <1>4, <1>5

(* A position that the code converts as it should: from 0, or in a track    *)
(* with one count, and within a word.                                       *)
Converts(t, p) ==
  /\ p >= 0 \/ Period(t) = 1
  /\ -(Word \div 2) <= SamplesBefore(t, p) /\ SamplesBefore(t, p) < Word \div 2

(* The count of a sequence of one.                                          *)
LEMMA OneCount ==
  ASSUME NEW t \in Track, Period(t) = 1, NEW p \in Int
  PROVE  /\ SampleOffset[t][1] \in Nat \ {0} /\ SampleOffset[t][0] = 0
         /\ GetNumSamples(t, p) = SampleOffset[t][1]
         /\ SamplesBefore(t, p) = p * SampleOffset[t][1]
<1>1. /\ SampleSequence[t][1] \in Nat \ {0}
      /\ SampleOffset[t] \in [0 .. 1 -> Nat]
      /\ SampleOffset[t][0] = 0
      /\ SampleOffset[t][1] = SampleOffset[t][1-1] + SampleSequence[t][1]
  <2>1. 1 \in 1 .. Period(t)
    OBVIOUS
  <2> QED BY <2>1, SequenceFacts
<1>2. SampleOffset[t][1] = SampleSequence[t][1] /\ SampleOffset[t][1] \in Nat \ {0}
  BY <1>1
<1>3. p \div 1 = p /\ p % 1 = 0
  <2>1. p = p * 1 + 0 /\ 0 \in 0 .. (1 - 1)
    OBVIOUS
  <2> QED BY <2>1, IntDivModUnique
<1>4. GetNumSamples(t, p) = SampleSequence[t][1]
  BY <1>3 DEF GetNumSamples
<1>5. SamplesBefore(t, p) = p * SampleOffset[t][1] + SampleOffset[t][0]
  BY <1>3 DEF SamplesBefore
<1>6. p * SampleOffset[t][1] \in Int
  BY <1>2
<1> QED BY <1>1, <1>2, <1>4, <1>5, <1>6

(* The samples before a position are a number, with precharge a negative    *)
(* one, and the next position has the samples of this one more.             *)
LEMMA SamplesBeforeNext ==
  ASSUME NEW t \in Track, NEW p \in Int, p >= 0 \/ Period(t) = 1
  PROVE  /\ SamplesBefore(t, p) \in Int
         /\ SamplesBefore(t, p + 1) = SamplesBefore(t, p) + GetNumSamples(t, p)
<1>1. CASE p >= 0
  <2>1. p \in Nat
    BY <1>1
  <2>2. SamplesBefore(t, p) \in Nat
    BY <2>1, SamplesBeforeType
  <2> QED BY <2>1, <2>2, SamplesBeforeStep
<1>2. CASE Period(t) = 1
  <2>1. PICK s \in Nat : s = SampleOffset[t][1]
    BY <1>2, OneCount
  <2>2. PICK n \in Int : n = p + 1
    OBVIOUS
  <2>3. SamplesBefore(t, p) = p * s /\ SamplesBefore(t, n) = n * s /\ GetNumSamples(t, p) = s
    BY <1>2, <2>1, OneCount
  <2>4. n * s = p * s + s /\ p * s \in Int
    BY <2>2
  <2> QED BY <2>2, <2>3, <2>4
<1> QED BY <1>1, <1>2

(* CONVERT_GROUP_POS: a position comes to the samples before it.            *)
LEMMA HigherIsSamplesBefore ==
  ASSUME NEW t \in Track, NEW p \in Int, Converts(t, p)
  PROVE  PositionHigher(t, p) = SamplesBefore(t, p)
<1> DEFINE x == SamplesBefore(t, p)
<1>1. x \in Int /\ -(Word \div 2) <= x /\ x < Word \div 2
  BY SamplesBeforeNext DEF Converts
<1>2. PICK h \in Nat : h = Word \div 2 /\ Word = 2 * h
  BY WordAssumption
<1>3. CASE p >= 0
  <2>1. p \in Nat
    BY <1>3
  <2>2. p <= x
    BY <2>1, SamplesBeforeReach
  <2> HIDE DEF x
  <2>3. p < Word /\ Word \in Nat \ {0}
    BY <2>1, <2>2, <1>1, <1>2
  <2>4. Unsigned(p) = p
    <3>1. p = 0 * Word + p /\ p \in 0 .. (Word - 1)
      BY <2>1, <2>3
    <3>2. p % Word = p
      BY ONLY <3>1, <2>3, p \in Int, IntDivModUnique
    <3> QED BY <3>2 DEF Unsigned
  <2>5. PositionHigher(t, p) = Signed(x)
    BY <2>4, <1>3 DEF PositionHigher, SamplesBefore, SequenceSize, FirstParts, x
  <2>6. PICK k \in Int : k = 0
    OBVIOUS
  <2>7. k * Word + x = x
    BY <1>1, <2>3, <2>6
  <2>8. Signed(k * Word + x) = x
    BY <1>1, SignedFits
  <2> QED BY <2>5, <2>7, <2>8 DEF x
<1>4. CASE p < 0
  <2>1. Period(t) = 1
    BY <1>4 DEF Converts
  <2>2. PICK s \in Nat \ {0} : s = SampleOffset[t][1]
    BY <2>1, OneCount
  <2>3. x = p * s
    BY <2>1, <2>2, OneCount
  <2> HIDE DEF x
  <2>4. x <= p
    <3>1. PICK d \in Nat : s = 1 + d
      BY <2>2
    <3>2. PICK m \in Nat : m = -p
      BY <1>4
    <3>3. x = -(m * s) /\ m * s = m + m * d /\ m * d \in Nat
      BY <2>3, <3>1, <3>2
    <3> QED BY <3>2, <3>3
  <2>5. PICK y \in 0 .. (Word - 1) : y = p + Word
    BY <2>4, <1>1, <1>2, <1>4
  <2>6. Unsigned(p) = y
    <3>1. p = (-1) * Word + y /\ Word \in Nat \ {0}
      BY <2>5, <1>2
    <3>2. p % Word = y
      BY ONLY <3>1, p \in Int, y \in 0 .. (Word - 1), IntDivModUnique
    <3> QED BY <3>2 DEF Unsigned
  <2>7. PICK m \in Int : m = -p
    OBVIOUS
  <2>8. y \div 1 = y /\ m % 1 = 0
    <3>1. y = y * 1 + 0 /\ m = m * 1 + 0 /\ 0 \in 0 .. (1 - 1)
      OBVIOUS
    <3> QED BY ONLY <3>1, y \in Int, m \in Int, IntDivModUnique
  <2>9. LastParts(t, 0) = 0
    BY <2>1, <2>2 DEF LastParts, SequenceSize
  <2>10. PositionHigher(t, p) = Signed(y * s)
    <3>1. ~(p >= 0)
      BY <1>4
    <3>2. (Unsigned(p) \div Period(t)) * SequenceSize(t) - LastParts(t, (-p) % Period(t)) = y * s
      <4>1. (-p) % 1 = 0
        BY <2>7, <2>8
      <4>2. y * s \in Int
        OBVIOUS
      <4> QED BY <4>1, <4>2, <2>1, <2>2, <2>6, <2>8, <2>9 DEF SequenceSize
    <3> QED BY <3>1, <3>2 DEF PositionHigher
  <2>11. y * s = s * Word + x
    <3>1. y * s = p * s + Word * s
      BY <2>5, <1>2
    <3>2. Word * s = s * Word /\ p * s \in Int /\ Word * s \in Int
      BY <1>2
    <3> QED BY <3>1, <3>2, <2>3
  <2>12. Signed(s * Word + x) = x
    BY <1>1, SignedFits
  <2> QED BY <2>10, <2>11, <2>12 DEF x
<1> QED BY <1>3, <1>4

(* CONVERT_MEMBER_POS: and back.                                            *)
LEMMA LowerInverts ==
  ASSUME NEW t \in Track, NEW p \in Int, p >= 0 \/ Period(t) = 1
  PROVE  PositionLower(t, SamplesBefore(t, p)) = p
<1>1. CASE p >= 0
  <2> DEFINE L == Period(t)
             S == SampleOffset[t]
             q == p \div L
             r == p % L
             x == SamplesBefore(t, p)
  <2>1. L \in Nat \ {0} /\ S \in [0 .. L -> Nat] /\ S[0] = 0
    BY SequenceFacts
  <2>2. \A i, j \in 0 .. L : i < j => S[i] < S[j]
    BY OffsetsGrow
  <2>10. p \in Nat
    BY <1>1
  <2>3. p \in Nat /\ q \in Nat /\ r \in 0 .. (L - 1) /\ p = q * L + r
    BY ONLY <2>10, <2>1, DivMod
  <2>4. x = q * S[L] + S[r]
    BY DEF SamplesBefore
  <2> HIDE DEF L, S, q, r, x
  <2>5. PICK s \in Nat \ {0}, b \in Nat : s = S[L] /\ b = S[r] /\ b < s
    <3>1. r \in 0 .. L /\ L \in 0 .. L /\ 0 \in 0 .. L /\ r < L /\ 0 < L
      BY <2>1, <2>3
    <3>2. S[r] < S[L] /\ S[0] < S[L] /\ S[r] \in Nat /\ S[L] \in Nat
      BY <3>1, <2>1, <2>2
    <3> QED BY <3>2, <2>1
  <2>6. x \in Nat /\ x = q * s + b
    <3>1. q * s \in Nat
      BY <2>3
    <3> QED BY <3>1, <2>4, <2>5
  <2>7. x \div s = q /\ x % s = b
    <3>1. b \in 0 .. (s - 1)
      BY <2>5
    <3>2. x \in Int /\ q \in Int /\ x = q * s + b
      BY <2>3, <2>6
    <3> QED BY ONLY <3>1, <3>2, s \in Nat \ {0}, IntDivModUnique
  <2>8. Min({n \in 0 .. Period(t) : FirstParts(t, n) >= x % SequenceSize(t)}) = r
    <3> DEFINE T == {n \in 0 .. Period(t) : FirstParts(t, n) >= x % SequenceSize(t)}
    <3>7. T = {n \in 0 .. L : S[n] >= b}
      BY <2>5, <2>7 DEF SequenceSize, FirstParts, L, S
    <3> HIDE DEF T
    <3>1. r \in T
      BY <2>1, <2>3, <2>5, <3>7
    <3>2. \A n \in T : r <= n
      <4>1. SUFFICES ASSUME NEW n \in 0 .. L, S[n] >= b, n < r PROVE FALSE
        BY <2>1, <2>3, <3>7
      <4>2. r \in 0 .. L
        BY <2>1, <2>3
      <4>3. S[n] < S[r] /\ S[n] \in Nat /\ S[r] \in Nat
        BY <4>1, <4>2, <2>1, <2>2
      <4> QED BY <4>1, <4>3, <2>5
    <3>3. T \in SUBSET Int
      BY <2>1, <3>7
    <3>4. PICK m : m = Min(T)
      OBVIOUS
    <3>5. m \in T /\ \A n \in T : m =< n
      BY <3>1, <3>2, <3>4 DEF Min
    <3>6. m = r
      BY <3>1, <3>2, <3>3, <3>5
    <3> QED BY <3>4, <3>6 DEF T
  <2>9. PositionLower(t, x) = q * L + r
    <3>1. x \div SequenceSize(t) = q
      BY <2>5, <2>7 DEF SequenceSize, L, S
    <3>2. x >= 0 /\ L = Period(t)
      BY <2>6 DEF L
    <3> QED BY <2>8, <3>1, <3>2 DEF PositionLower
  <2> QED BY <2>3, <2>9 DEF x
<1>2. CASE p < 0
  <2>1. Period(t) = 1
    BY <1>2
  <2>2. PICK s \in Nat \ {0} : s = SampleOffset[t][1]
    BY <2>1, OneCount
  <2>3. PICK x \in Int : x = SamplesBefore(t, p) /\ x = p * s
    <3>1. p * s \in Int
      OBVIOUS
    <3> QED BY <3>1, <2>1, <2>2, OneCount
  <2>4. PICK m \in Nat \ {0} : m = -p
    BY <1>2
  <2>5. PICK z \in Nat : z = m * s
    OBVIOUS
  <2>6. -x = z /\ z > 0
    <3>1. PICK d \in Nat, e \in Nat : m = 1 + d /\ s = 1 + e
      BY <2>2, <2>4
    <3>2. z = 1 + d + e + d * e /\ d * e \in Nat
      BY <3>1, <2>5
    <3>3. p = -m
      BY <2>4
    <3>4. x = -(m * s)
      BY <3>3, <2>3
    <3> QED BY <3>2, <3>4, <2>5
  <2>7. z \div s = m /\ z % s = 0
    <3>1. z = m * s + 0 /\ 0 \in 0 .. (s - 1)
      BY <2>5
    <3> QED BY ONLY <3>1, z \in Int, m \in Int, s \in Nat \ {0}, IntDivModUnique
  <2>8. LastParts(t, 0) = 0 /\ LastParts(t, 1) = s
    <3>1. SampleOffset[t][0] = 0
      BY <2>1, OneCount
    <3> QED BY <3>1, <2>1, <2>2 DEF LastParts, SequenceSize
  <2>9. Max({n \in 0 .. 1 : LastParts(t, n) <= 0}) = 0
    <3>1. {n \in 0 .. 1 : LastParts(t, n) <= 0} = {0}
      <4>1. 0 .. 1 = {0, 1}
        OBVIOUS
      <4>2. ~(s <= 0)
        OBVIOUS
      <4> QED BY <4>1, <4>2, <2>8
    <3>2. Max({0}) = 0
      BY DEF Max
    <3> QED BY <3>1, <3>2
  <2>10. PositionLower(t, x) = (-m) * 1 - 0
    <3>1. ~(x >= 0)
      BY <2>6
    <3>2. SequenceSize(t) = s
      BY <2>1, <2>2 DEF SequenceSize
    <3> QED BY <3>1, <3>2, <2>1, <2>6, <2>7, <2>9 DEF PositionLower
  <2> QED BY <2>3, <2>4, <2>10
<1> QED BY <1>1, <1>2

(* CONVERT_GROUP_DUR of one: a member reads the samples of one package.     *)
LEMMA OneUnit ==
  ASSUME NEW t \in Track, NEW p \in Int, p >= 0 \/ Period(t) = 1
  PROVE  DurationHigher(t, 1, p) = GetNumSamples(t, p)
<1>1. CASE Period(t) = 1
  <2>1. PICK s \in Nat : s = SampleOffset[t][1]
    BY <1>1, OneCount
  <2>2. 1 \div 1 = 1 /\ 1 % 1 = 0
    BY SMT
  <2>3. DurationHigher(t, 1, p) = 1 * s + 0
    BY <1>1, <2>1, <2>2 DEF DurationHigher, SequenceSize, PartsFrom
  <2> QED BY <1>1, <2>1, <2>3, OneCount
<1>2. CASE Period(t) # 1 /\ p >= 0
  <2> DEFINE L == Period(t)
             S == SampleOffset[t]
             r == p % L
  <2>1. /\ L \in Nat \ {0}
        /\ S \in [0 .. L -> Nat]
        /\ \A i \in 1 .. L : SampleSequence[t][i] \in Nat \ {0}
        /\ \A i \in 1 .. L : S[i] = S[i-1] + SampleSequence[t][i]
    BY SequenceFacts
  <2>12. p \in Nat
    BY <1>2
  <2>2. r \in 0 .. (L - 1)
    BY ONLY <2>12, <2>1, DivMod
  <2>3. GetNumSamples(t, p) = SampleSequence[t][r + 1]
    BY DEF GetNumSamples
  <2>4. PartAt(t, p) = r
    BY <1>2 DEF PartAt
  <2>5. L > 1
    BY <1>2, <2>1
  <2> HIDE DEF L, S, r
  <2>6. 1 \div L = 0 /\ 1 % L = 1
    <3>1. PICK a \in Int, b \in Int, c \in Int : a = 0 /\ b = 1 /\ c = 1
      OBVIOUS
    <3>2. L \in Nat \ {0} /\ b \in 0 .. (L - 1)
      BY <2>1, <2>5, <3>1
    <3>3. c = a * L + b
      BY <3>1, <3>2
    <3>4. c \div L = a /\ c % L = b
      BY ONLY <3>2, <3>3, a \in Int, c \in Int, IntDivModUnique
    <3> QED BY <3>1, <3>4
  <2>7. r + 1 \in 1 .. L /\ r \in 0 .. L /\ r + 1 - 1 = r /\ r # L /\ r + 1 <= L
    BY <2>1, <2>2
  <2>8. PICK a \in Nat, c \in Nat :
          a = S[r] /\ c = SampleSequence[t][r + 1] /\ S[r + 1] = a + c
    <3>1. S[r] \in Nat /\ SampleSequence[t][r + 1] \in Nat
      BY <2>1, <2>7
    <3>2. S[r + 1] = S[r + 1 - 1] + SampleSequence[t][r + 1]
      BY <2>1, <2>7
    <3> QED BY <3>1, <3>2, <2>7
  <2>9. PartsFrom(t, r, 1) = c
    BY <2>7, <2>8 DEF PartsFrom, FirstParts, L, S
  <2>10. DurationHigher(t, 1, p) = 0 * S[L] + c
    BY <2>4, <2>6, <2>9 DEF DurationHigher, SequenceSize, L, S
  <2>11. S[L] \in Nat
    BY <2>1
  <2> QED BY <2>3, <2>8, <2>10, <2>11
<1> QED BY <1>1, <1>2

(* A duration from position 0 is a number of samples.                       *)
LEMMA DurationHigherType ==
  ASSUME NEW t \in Track, NEW d \in Int
  PROVE  DurationHigher(t, d, 0) \in Nat
<1> DEFINE L == Period(t)
           S == SampleOffset[t]
           n == d % L
<1>1. L \in Nat \ {0} /\ S \in [0 .. L -> Nat] /\ S[0] = 0
  BY SequenceFacts
<1>2. CASE d > 0
  <2>8. d \in Nat
    BY <1>2
  <2>1. d \in Nat /\ d \div L \in Nat /\ n \in 0 .. (L - 1)
    BY ONLY <2>8, <1>1, DivMod
  <2>2. 0 % L = 0
    BY <1>1, DivModUnique
  <2>3. PartAt(t, 0) = 0
    BY <2>2 DEF PartAt
  <2>4. PartsFrom(t, 0, n) \in Nat
    <3> HIDE DEF L, S, n
    <3>1. n \in 0 .. L /\ S[n] \in Nat /\ 0 # L /\ 0 + n <= L /\ 0 + n = n
      BY <1>1, <2>1
    <3>2. S[n] - S[0] \in Nat
      BY <3>1, <1>1
    <3> QED BY <3>1, <3>2 DEF PartsFrom, FirstParts, L, S
  <2>5. DurationHigher(t, d, 0) = (d \div L) * S[L] + PartsFrom(t, 0, n)
    BY <1>2, <2>3 DEF DurationHigher, SequenceSize
  <2>6. S[L] \in Nat
    BY <1>1
  <2> HIDE DEF L, S, n
  <2>7. (d \div L) * S[L] \in Nat
    BY <2>1, <2>6
  <2> QED BY <2>4, <2>5, <2>7
<1>3. CASE ~(d > 0)
  BY <1>3 DEF DurationHigher
<1> QED BY <1>2, <1>3

(* Positions of a file go to samples and back: what is read for a position  *)
(* of the group is what the group then says that its position is.  For a    *)
(* position before the clip this takes a sequence of one count; another one *)
(* is where the conversion of the code goes wrong.                          *)
THEOREM PositionsConvert ==
  ASSUME NEW t \in Track, NEW p \in Int, Converts(t, p)
  PROVE  /\ PositionHigher(t, p) = SamplesBefore(t, p)
         /\ PositionLower(t, PositionHigher(t, p)) = p
<1>1. PositionHigher(t, p) = SamplesBefore(t, p)
  BY HigherIsSamplesBefore
<1>2. p >= 0 \/ Period(t) = 1
  BY DEF Converts
<1>3. PositionLower(t, SamplesBefore(t, p)) = p
  BY <1>2, LowerInverts
<1> QED BY <1>1, <1>3

-----------------------------------------------------------------------------
(* Samples of a read. *)

LEMMA MinOfTwo ==
  ASSUME NEW a \in Int, NEW b \in Int
  PROVE  Min({a, b}) \in {a, b} /\ Min({a, b}) <= a /\ Min({a, b}) <= b
<1>1. \E m \in {a, b} : \A y \in {a, b} : m =< y
  <2>1. CASE a <= b
    BY <2>1
  <2>2. CASE ~(a <= b)
    BY <2>2
  <2> QED BY <2>1, <2>2
<1>2. PICK m : m = Min({a, b})
  OBVIOUS
<1>3. m \in {a, b} /\ \A y \in {a, b} : m =< y
  BY <1>1, <1>2 DEF Min
<1> QED BY <1>2, <1>3

LEMMA MaxOfTwo ==
  ASSUME NEW a \in Int, NEW b \in Int
  PROVE  Max({a, b}) \in {a, b} /\ Max({a, b}) >= a /\ Max({a, b}) >= b
<1>1. \E m \in {a, b} : \A y \in {a, b} : m >= y
  <2>1. CASE a <= b
    BY <2>1
  <2>2. CASE ~(a <= b)
    BY <2>2
  <2> QED BY <2>1, <2>2
<1>2. PICK m : m = Max({a, b})
  OBVIOUS
<1>3. m \in {a, b} /\ \A y \in {a, b} : m >= y
  BY <1>1, <1>2 DEF Max
<1> QED BY <1>2, <1>3

Limits == [start : Int, duration : Int]

(* Samples that are read begin in what the file has.                        *)
LEMMA SamplesReadAvailable ==
  ASSUME NEW t, limits[t] \in Limits, available[t] \in Int, NEW p \in Int, NEW n \in Int
  PROVE  /\ SamplesRead(t, p, n) \in Int
         /\ SamplesRead(t, p, n) > 0 => p < available[t]
<1>1. PICK a \in Int, s \in Int, d \in Int :
        a = available[t] /\ s = limits[t].start /\ d = limits[t].duration
  BY DEF Limits
<1>2. PICK end \in Int : end = Min({p + n, s + d})
  <2>1. PICK y \in Int, z \in Int : y = p + n /\ z = s + d
    OBVIOUS
  <2>2. Min({y, z}) \in {y, z}
    BY MinOfTwo
  <2> QED BY <2>1, <2>2
<1>3. PICK from \in Int : from = Max({p, 0}) /\ from >= p
  <2>1. PICK z \in Int : z = 0
    OBVIOUS
  <2>2. Max({p, z}) \in {p, z} /\ Max({p, z}) >= p
    BY MaxOfTwo
  <2> QED BY <2>1, <2>2
<1>4. PICK rest \in Int : rest = Max({0, a - from}) /\ rest \in {0, a - from}
  <2>1. PICK z \in Int, r \in Int : z = 0 /\ r = a - from
    OBVIOUS
  <2>2. Max({z, r}) \in {z, r}
    BY MaxOfTwo
  <2> QED BY <2>1, <2>2
<1>5. PICK w \in Int : w = Wanted(t, p, n)
  <2>1. Wanted(t, p, n) = IF d > 0 /\ p < end /\ p + n > 0 THEN end - from ELSE 0
    BY <1>1, <1>2, <1>3 DEF Wanted
  <2> QED BY <2>1
<1>6. NotThere(t, p, n) <=> w > 0 /\ from + w > a
  BY <1>1, <1>3, <1>5 DEF NotThere
<1>7. SamplesRead(t, p, n) = IF w > 0 /\ from + w > a THEN rest ELSE w
  BY <1>1, <1>3, <1>4, <1>5, <1>6 DEF SamplesRead
<1>8. CASE w > 0 /\ from + w > a
  BY <1>1, <1>3, <1>4, <1>7, <1>8
<1>9. CASE ~(w > 0 /\ from + w > a)
  BY <1>1, <1>3, <1>7, <1>9
<1> QED BY <1>8, <1>9

(* Limits that the code brings within the file are positions.               *)
LEMMA EssenceLimitsType ==
  ASSUME NEW t, config.size[t] \in Nat, NEW s \in Int, NEW d \in Int
  PROVE  EssenceLimits(t, s, d) \in Limits
<1>1. \A p \in Int : LegitimisePosition(t, p) \in Int
  BY DEF LegitimisePosition
<1>2. s + d - 1 \in Int
  OBVIOUS
<1>3. LegitimisePosition(t, s) \in Int /\ LegitimisePosition(t, s + d - 1) \in Int
  BY <1>1, <1>2
<1>4. LegitimisePosition(t, s + d - 1) - LegitimisePosition(t, s) + 1 \in Int
  BY <1>3
<1> QED BY <1>3, <1>4 DEF EssenceLimits, Limits

(* A member that reads nothing adds nothing to what the group has read.     *)
LEMMA NothingRead ==
  ASSUME NEW t, NEW d \in Int, d <= 0, NEW p
  PROVE  DurationLower(t, d, p) = 0
  BY DEF DurationLower

-----------------------------------------------------------------------------
(* The invariant. *)

Stages == {"open", "loop", "member", "returned", "done"}
Frame == [position : Int, numSamples : Int]

(* The application's position, by what it has read.                         *)
At == config.start + totalRead

(* The members that the read in progress is through with.                   *)
HasRead == {config.members[i] : i \in 1 .. (next - 1)}
IsRead(t) == \/ pc = "member" /\ t \in HasRead
             \/ pc = "returned" /\ ~error

(* The positions an application can come to, and those within a word.       *)
Within(c, p) ==
  /\ c.start <= p
  /\ p <= c.start + c.duration \/ \E t \in Range(c.members) : p <= c.size[t]
Readable(c) ==
  \A p \in Int : Within(c, p) => \A t \in Range(c.members) : Converts(t, p)

GroupTypes ==
  /\ config \in Configs
  /\ available \in [Member -> Int] /\ \A t \in Member : available[t] <= config.size[t]
  /\ limits \in [Member -> Limits]
  /\ position \in [Member -> Int]
  /\ frames \in [Member -> Seq(Frame)]
  /\ taken \in [Member -> Frame \cup {NoFrame}]
  /\ DOMAIN mark = Member
  /\ current \in Int /\ next \in Nat /\ error \in BOOLEAN /\ totalRead \in Nat
  /\ abandoned \in BOOLEAN /\ pc \in Stages

(* Every member is in step, those that have read one unit further.          *)
InStep(p) == \A t \in Member : position[t] = ToEssence(t, SamplesBefore(t, p))
PositionInv ==
  /\ Within(config, At)
  /\ pc = "open" => totalRead = 0 /\ \A t \in Member : position[t] = 0
  /\ pc = "loop" => InStep(At)
  /\ pc \in {"member", "returned"} =>
       /\ current = At /\ MoreToRead
       /\ numRead = 0 \/ ~config.growing \/ \E t \in Member : At + 1 <= config.size[t]
  /\ pc = "member" =>
       /\ ~error /\ next \in 1 .. (Len(config.members) + 1)
       /\ \A t \in HasRead : position[t] = ToEssence(t, SamplesBefore(t, At + 1))
  /\ pc = "returned" /\ error => numRead = 0 /\ InStep(At)
  /\ pc = "returned" /\ ~error => InStep(At + 1)

(* A buffer's frames follow one another, and the frame taken last.          *)
Linked(queue, last, total) ==
  /\ (last = NoFrame) <=> (total = 0)
  /\ \A i \in 1 .. (Len(queue) - 1) : queue[i + 1].position - queue[i].position \in {0, 1}
  /\ last # NoFrame /\ Len(queue) > 0 => queue[1].position - last.position \in {0, 1}

(* They lead up to position p, or to the one before.                        *)
LeadsTo(queue, p) == Len(queue) > 0 /\ queue[Len(queue)].position = p
LeadsUpTo(queue, last, p) ==
  /\ Len(queue) > 0 => queue[Len(queue)].position - p \in {-1, 0}
  /\ Len(queue) = 0 /\ last # NoFrame => last.position = p - 1

(* A buffer in which no failed read has left a frame.                       *)
Clean(t) == ~abandoned \/ (config.internal /\ t = First)
JustTaken(last, p) == last # NoFrame => last.position = p - 1

BufferInv(t) ==
  /\ Linked(frames[t], taken[t], totalRead)
  /\ Clean(t) => JustTaken(taken[t], At)
  /\ pc # "done" /\ IsRead(t) => LeadsTo(frames[t], At) /\ (Clean(t) => Len(frames[t]) = 1)
  /\ pc # "done" /\ ~IsRead(t) =>
       LeadsUpTo(frames[t], taken[t], At) /\ (Clean(t) => Len(frames[t]) = 0)
  /\ pc = "member" /\ ~IsRead(t) => mark[t] = Len(frames[t])
  /\ pc = "member" /\ IsRead(t) => mark[t] = IF CompletesItself(t) THEN NoMark ELSE 0

GroupInv == GroupTypes /\ PositionInv /\ \A t \in Member : BufferInv(t)

-----------------------------------------------------------------------------
(* Queues. *)

(* A member that reads appends the frame of the position.                   *)
LEMMA QueueAppend ==
  ASSUME NEW q \in Seq(Frame), NEW last, NEW total, NEW p \in Int, NEW f \in Frame,
         Linked(q, last, total), LeadsUpTo(q, last, p), f.position = p,
         last \in Frame \cup {NoFrame}
  PROVE  /\ Append(q, f) \in Seq(Frame) /\ Len(Append(q, f)) = Len(q) + 1
         /\ Linked(Append(q, f), last, total)
         /\ LeadsTo(Append(q, f), p)
<1> DEFINE r == Append(q, f)
           n == Len(q)
<1>1. r \in Seq(Frame) /\ Len(r) = n + 1 /\ n \in Nat /\ r[n + 1] = f
  OBVIOUS
<1>2. \A i \in 1 .. n : r[i] = q[i]
  OBVIOUS
<1>3. \A i \in 1 .. n : q[i].position \in Int
  <2>1. \A i \in 1 .. n : q[i] \in Frame
    BY ElementOfSeq
  <2> QED BY <2>1 DEF Frame
<1> HIDE DEF r, n
<1>4. ASSUME NEW i \in 1 .. (Len(r) - 1)
      PROVE  r[i + 1].position - r[i].position \in {0, 1}
  <2>1. CASE i < n
    <3>1. i \in 1 .. n /\ i + 1 \in 1 .. n /\ i \in 1 .. (n - 1)
      BY <1>1, <2>1
    <3>2. q[i + 1].position - q[i].position \in {0, 1}
      BY <3>1 DEF Linked, n
    <3> QED BY <3>1, <3>2, <1>2
  <2>2. CASE ~(i < n)
    <3>1. i = n /\ n > 0 /\ n \in 1 .. n
      BY <1>1, <2>2
    <3>2. q[n].position - p \in {-1, 0}
      BY <3>1 DEF LeadsUpTo, n
    <3>3. PICK z \in Int : z = q[n].position
      BY <3>1, <1>3
    <3>6. z - p = -1 \/ z - p = 0
      BY <3>2, <3>3
    <3>4. p - q[n].position \in {0, 1}
      <4>1. p - z = 1 \/ p - z = 0
        BY <3>6
      <4> QED BY <4>1, <3>3
    <3>5. r[n + 1].position = p /\ r[n] = q[n]
      BY <3>1, <1>1, <1>2
    <3> QED BY <3>1, <3>4, <3>5
  <2> QED BY <2>1, <2>2
<1>5. ASSUME last # NoFrame
      PROVE  r[1].position - last.position \in {0, 1}
  <2>1. CASE n > 0
    <3>1. q[1].position - last.position \in {0, 1}
      BY <1>5, <2>1 DEF Linked, n
    <3>2. r[1] = q[1]
      BY <2>1, <1>1, <1>2
    <3> QED BY <3>1, <3>2
  <2>2. CASE ~(n > 0)
    <3>1. n = 0 /\ r[1] = f
      BY <2>2, <1>1
    <3>2. last.position = p - 1
      BY <3>1, <1>5 DEF LeadsUpTo, n
    <3> QED BY <3>1, <3>2
  <2> QED BY <2>1, <2>2
<1>6. (last = NoFrame) <=> (total = 0)
  BY DEF Linked
<1>7. Linked(r, last, total)
  BY <1>4, <1>5, <1>6 DEF Linked
<1>8. LeadsTo(r, p)
  BY <1>1 DEF LeadsTo
<1> QED BY <1>1, <1>7, <1>8 DEF r, n

(* The application takes the first frame, and goes on to the next position. *)
LEMMA QueueTake ==
  ASSUME NEW q \in Seq(Frame), NEW last, NEW total \in Nat, NEW p \in Int,
         Linked(q, last, total), LeadsTo(q, p)
  PROVE  /\ Tail(q) \in Seq(Frame) /\ Len(Tail(q)) = Len(q) - 1 /\ Head(q) \in Frame
         /\ Linked(Tail(q), Head(q), total + 1)
         /\ LeadsUpTo(Tail(q), Head(q), p + 1)
         /\ Len(q) = 1 => JustTaken(Head(q), p + 1)
<1> DEFINE r == Tail(q)
           n == Len(q)
           f == Head(q)
<1>1. n \in Nat /\ n > 0 /\ q # <<>> /\ q[n].position = p
  BY DEF LeadsTo
<1>2. r \in Seq(Frame) /\ Len(r) = n - 1 /\ \A i \in 1 .. (n - 1) : r[i] = q[i + 1]
  BY <1>1
<1>3. \A i \in 1 .. n : q[i] \in Frame /\ q[i].position \in Int
  <2>1. \A i \in 1 .. n : q[i] \in Frame
    BY ElementOfSeq
  <2> QED BY <2>1 DEF Frame
<1>4. f = q[1]
  BY <1>1
<1> HIDE DEF r, n, f
<1>5. f \in Frame /\ f.position \in Int /\ f # NoFrame
  <2>1. 1 \in 1 .. n
    BY <1>1
  <2>2. f \in Frame /\ f.position \in Int
    BY <2>1, <1>3, <1>4
  <2>3. NoFrame \notin Frame
    BY NullAssumption DEF Frame
  <2> QED BY <2>2, <2>3
<1>6. \A i \in 1 .. (n - 1) : q[i + 1].position - q[i].position \in {0, 1}
  BY DEF Linked, n
<1>7. ASSUME NEW i \in 1 .. (Len(r) - 1)
      PROVE  r[i + 1].position - r[i].position \in {0, 1}
  <2>1. i \in 1 .. (n - 1) /\ i + 1 \in 1 .. (n - 1)
    BY <1>1, <1>2
  <2>2. r[i] = q[i + 1] /\ r[i + 1] = q[i + 1 + 1]
    BY <2>1, <1>2
  <2> QED BY <2>1, <2>2, <1>6
<1>8. ASSUME Len(r) > 0
      PROVE  r[1].position - f.position \in {0, 1}
  <2>1. 1 \in 1 .. (n - 1)
    BY <1>1, <1>2, <1>8
  <2>2. r[1] = q[1 + 1]
    BY <2>1, <1>2
  <2> QED BY <2>1, <2>2, <1>4, <1>6
<1>9. Linked(r, f, total + 1)
  <2>1. (f = NoFrame) <=> (total + 1 = 0)
    BY <1>5
  <2> QED BY <2>1, <1>7, <1>8 DEF Linked
<1>10. LeadsUpTo(r, f, p + 1)
  <2>1. CASE Len(r) > 0
    <3>1. n - 1 \in 1 .. (n - 1) /\ n - 1 + 1 = n
      BY <2>1, <1>1, <1>2
    <3>2. r[Len(r)] = q[n]
      BY <3>1, <1>2
    <3>3. r[Len(r)].position - (p + 1) = -1
      BY <3>2, <1>1
    <3> QED BY <2>1, <3>3 DEF LeadsUpTo
  <2>2. CASE ~(Len(r) > 0)
    <3>1. n = 1
      BY <2>2, <1>1, <1>2
    <3>2. f.position = p + 1 - 1
      BY <3>1, <1>1, <1>4
    <3> QED BY <2>2, <3>2 DEF LeadsUpTo
  <2> QED BY <2>1, <2>2
<1>11. n = 1 => JustTaken(f, p + 1)
  BY <1>1, <1>4 DEF JustTaken
<1> QED BY <1>2, <1>5, <1>9, <1>10, <1>11 DEF r, n, f

(* A read that failed leaves the frame, and it is the position's.           *)
LEMMA QueueKept ==
  ASSUME NEW q \in Seq(Frame), NEW last, NEW p \in Int, LeadsTo(q, p)
  PROVE  LeadsUpTo(q, last, p)
<1>1. Len(q) > 0 /\ q[Len(q)].position = p /\ p - p = 0
  BY DEF LeadsTo
<1> QED BY <1>1 DEF LeadsUpTo

(* Or nothing.                                                              *)
LEMMA QueueEmptied ==
  ASSUME NEW q, NEW last, NEW total, NEW p \in Int,
         Linked(q, last, total), JustTaken(last, p)
  PROVE  Linked(<<>>, last, total) /\ LeadsUpTo(<<>>, last, p)
<1>1. (last = NoFrame) <=> (total = 0)
  BY DEF Linked
<1>2. Len(<<>>) = 0 /\ 1 .. (Len(<<>>) - 1) = {} /\ ~(Len(<<>>) > 0)
  OBVIOUS
<1>3. Linked(<<>>, last, total)
  BY <1>1, <1>2 DEF Linked
<1>4. LeadsUpTo(<<>>, last, p)
  BY <1>2 DEF LeadsUpTo, JustTaken
<1> QED BY <1>3, <1>4

(* AbortRead on a buffer: nothing but the frame that was added goes.        *)
LEMMA AbortedQueue ==
  ASSUME NEW q \in Seq(Frame)
  PROVE  /\ Aborted(q, Len(q)) = q
         /\ Aborted(q, NoMark) = q
         /\ Len(q) = 1 => Aborted(q, 0) = <<>>
<1>1. Aborted(q, Len(q)) = q
  BY DEF Aborted
<1>2. Aborted(q, NoMark) = q
  BY DEF Aborted
<1>3. ASSUME Len(q) = 1 PROVE Aborted(q, 0) = <<>>
  <2>1. 0 # NoMark /\ 0 < Len(q)
    BY <1>3, NullAssumption
  <2>2. Aborted(q, 0) = SubSeq(q, 2, 1)
    BY <2>1, <1>3 DEF Aborted
  <2>3. SubSeq(q, 2, 1) = <<>>
    OBVIOUS
  <2> QED BY <2>2, <2>3
<1> QED BY <1>1, <1>2, <1>3

-----------------------------------------------------------------------------
(* Members. *)

LEMMA MemberFacts ==
  ASSUME config \in Configs
  PROVE  /\ Member \subseteq Track /\ First \in Member
         /\ config.members \in Seq(Track) /\ Len(config.members) \in Nat \ {0}
         /\ Member = {config.members[i] : i \in 1 .. Len(config.members)}
         /\ \A i, j \in 1 .. Len(config.members) :
              config.members[i] = config.members[j] => i = j
         /\ config.growing \in BOOLEAN /\ config.internal \in BOOLEAN
         /\ config.start \in Int /\ config.duration \in Nat
         /\ \A t \in Member : config.origin[t] \in Nat /\ config.size[t] \in Nat
         /\ config.growing => config.start = 0 /\ \A t \in Member : config.origin[t] = 0
<1>1. /\ config.members \in Seq(Track) /\ config.members # <<>>
      /\ \A i, j \in DOMAIN config.members : config.members[i] = config.members[j] => i = j
      /\ config.growing \in BOOLEAN /\ config.internal \in BOOLEAN
      /\ \A t \in Range(config.members) : config.origin[t] \in Nat /\ config.size[t] \in Nat
      /\ config.start \in Int /\ config.duration \in Nat
      /\ config.growing =>
           config.start = 0 /\ \A t \in Range(config.members) : config.origin[t] = 0
  BY ConfigAssumption
<1>2. DOMAIN config.members = 1 .. Len(config.members) /\ Len(config.members) \in Nat \ {0}
  BY <1>1
<1>3. Member = {config.members[i] : i \in 1 .. Len(config.members)}
  BY <1>2 DEF Member, Range
<1>4. \A i \in 1 .. Len(config.members) : config.members[i] \in Track
  BY <1>1, ElementOfSeq
<1>5. 1 \in 1 .. Len(config.members)
  BY <1>2
<1> QED BY <1>1, <1>2, <1>3, <1>4, <1>5 DEF Member, First

(* What a member does at a position: where it reads, and how much.          *)
LEMMA MemberConverts ==
  ASSUME config \in Configs, Readable(config), NEW p \in Int, Within(config, p),
         NEW t \in Member
  PROVE  /\ SamplesBefore(t, p) \in Int /\ SamplesBefore(t, p + 1) \in Int
         /\ MemberPosition(t, p) = SamplesBefore(t, p)
         /\ PositionLower(t, SamplesBefore(t, p)) = p
         /\ DurationHigher(t, 1, p) \in Int
         /\ SamplesBefore(t, p + 1) = SamplesBefore(t, p) + DurationHigher(t, 1, p)
         /\ p >= 0 => p <= SamplesBefore(t, p)
<1>1. t \in Track
  BY MemberFacts
<1>2. Converts(t, p)
  BY DEF Readable, Member
<1>3. p >= 0 \/ Period(t) = 1
  BY <1>2 DEF Converts
<1>4. /\ SamplesBefore(t, p) \in Int
      /\ SamplesBefore(t, p + 1) = SamplesBefore(t, p) + GetNumSamples(t, p)
  BY <1>1, <1>3, SamplesBeforeNext
<1>5. GetNumSamples(t, p) \in Int
  <2>1. CASE p >= 0
    <3>1. p \in Nat
      BY <2>1
    <3> QED BY <1>1, <3>1, GetNumSamplesType
  <2>2. CASE Period(t) = 1
    BY <1>1, <2>2, OneCount
  <2> QED BY <1>3, <2>1, <2>2
<1>6. DurationHigher(t, 1, p) = GetNumSamples(t, p)
  BY <1>1, <1>3, OneUnit
<1>7. MemberPosition(t, p) = SamplesBefore(t, p)
  BY <1>1, <1>2, HigherIsSamplesBefore DEF MemberPosition
<1>8. PositionLower(t, SamplesBefore(t, p)) = p
  BY <1>1, <1>3, LowerInverts
<1>9. ASSUME p >= 0 PROVE p <= SamplesBefore(t, p)
  <2>1. p \in Nat
    BY <1>9
  <2> QED BY <2>1, <1>1, SamplesBeforeReach
<1>10. SamplesBefore(t, p) + GetNumSamples(t, p) \in Int
  BY <1>4, <1>5
<1> QED BY <1>4, <1>5, <1>6, <1>7, <1>8, <1>9, <1>10

-----------------------------------------------------------------------------
(* Steps. *)

(* A buffer that a step leaves alone, with the member read or not as before. *)
MarkRight(t) ==
  /\ ~IsRead(t) => mark[t] = Len(frames[t])
  /\ IsRead(t) => mark[t] = IF CompletesItself(t) THEN NoMark ELSE 0

LEMMA BufferKept ==
  ASSUME NEW t, BufferInv(t), UNCHANGED <<config, totalRead, abandoned>>,
         frames'[t] = frames[t], taken'[t] = taken[t],
         pc # "done", IsRead(t)' <=> IsRead(t),
         pc' = "member" => MarkRight(t)'
  PROVE  BufferInv(t)'
<1>1. At' = At /\ (Clean(t)' <=> Clean(t))
  BY DEF At, Clean, First
<1>2. Linked(frames[t], taken[t], totalRead)'
  BY DEF BufferInv
<1>3. Clean(t)' => JustTaken(taken'[t], At')
  BY <1>1 DEF BufferInv
<1>4. IsRead(t)' => LeadsTo(frames'[t], At') /\ (Clean(t)' => Len(frames'[t]) = 1)
  BY <1>1 DEF BufferInv
<1>5. ~IsRead(t)' => /\ LeadsUpTo(frames'[t], taken'[t], At')
                     /\ (Clean(t)' => Len(frames'[t]) = 0)
  BY <1>1 DEF BufferInv
<1> QED BY <1>2, <1>3, <1>4, <1>5 DEF BufferInv, MarkRight

(* The application's position is one a member can come to.                  *)
LEMMA AtType ==
  ASSUME GroupTypes
  PROVE  At \in Int /\ (config.growing => At \in Nat /\ At = totalRead)
<1>1. config \in Configs /\ totalRead \in Nat
  BY DEF GroupTypes
<1>2. config.start \in Int /\ (config.growing => config.start = 0)
  BY <1>1, MemberFacts
<1> QED BY <1>1, <1>2 DEF At

LEMMA SetReadLimitsStep ==
  ASSUME GroupInv, Readable(config), SetReadLimits
  PROVE  GroupInv'
<1>1. GroupTypes /\ PositionInv /\ \A t \in Member : BufferInv(t)
  BY DEF GroupInv
<1>2. /\ pc = "open" /\ pc' = "loop"
      /\ UNCHANGED <<config, available, frames, mark, current, next, numRead, error,
                     totalRead, taken, abandoned>>
      /\ config.growing => UNCHANGED <<limits, position>>
      /\ ~config.growing => /\ limits' = [t \in Member |-> MemberLimits(t)]
                            /\ position' = [t \in Member |->
                                              ToEssence(t, MemberPosition(t, config.start))]
  BY DEF SetReadLimits, Seek
<1>3. config' = config /\ Member' = Member /\ At' = At /\ At \in Int
  BY <1>1, <1>2, AtType DEF Member, At
<1>4. config \in Configs /\ totalRead = 0 /\ Within(config, At)
      /\ \A t \in Member : position[t] = 0
  BY <1>1, <1>2 DEF GroupTypes, PositionInv
<1>5. /\ config.start \in Int /\ config.duration \in Nat /\ Member \subseteq Track
      /\ \A t \in Member : config.origin[t] \in Nat /\ config.size[t] \in Nat
      /\ config.growing => config.start = 0 /\ \A t \in Member : config.origin[t] = 0
  BY <1>4, MemberFacts
<1>6. At = config.start
  BY <1>4, <1>5 DEF At
<1>7. ASSUME NEW t \in Member
      PROVE  /\ position'[t] = ToEssence(t, SamplesBefore(t, At)) /\ position'[t] \in Int
             /\ limits'[t] \in Limits
  <2>1. t \in Track
    BY <1>5
  <2>2. CASE config.growing
    <3>1. At = 0 /\ config.origin[t] = 0
      BY <2>2, <1>5, <1>6
    <3>2. SamplesBefore(t, At) = 0
      BY <2>1, <3>1, SamplesBeforeZero
    <3>3. ToEssence(t, SamplesBefore(t, At)) = 0
      BY <3>1, <3>2 DEF ToEssence
    <3>4. position'[t] = 0 /\ limits'[t] = limits[t]
      BY <2>2, <1>2, <1>4
    <3> QED BY <3>3, <3>4, <1>1 DEF GroupTypes
  <2>3. CASE ~config.growing
    <3>1. MemberPosition(t, config.start) = SamplesBefore(t, At) /\ SamplesBefore(t, At) \in Int
      BY <1>3, <1>4, <1>6, MemberConverts
    <3>2. position'[t] = ToEssence(t, SamplesBefore(t, At))
      BY <2>3, <3>1, <1>2
    <3>3. ToEssence(t, SamplesBefore(t, At)) \in Int
      BY <3>1, <1>5 DEF ToEssence
    <3>4. PICK s \in Int : s = SamplesBefore(t, At)
      BY <3>1
    <3>5. PICK d \in Int :
            d = IF config.duration = 0 THEN 0
                ELSE DurationHigher(t, config.start + config.duration, 0) - s
      <4>1. PICK e \in Int : e = config.start + config.duration
        BY <1>5
      <4>2. DurationHigher(t, e, 0) \in Nat
        BY <2>1, DurationHigherType
      <4> QED BY <4>1, <4>2
    <3>6. PICK b \in Int : b = ToEssence(t, s)
      BY <3>3, <3>4
    <3>7. MemberLimits(t) = EssenceLimits(t, b, d)
      BY <3>1, <3>4, <3>5, <3>6 DEF MemberLimits
    <3>8. EssenceLimits(t, b, d) \in Limits
      BY <1>5, EssenceLimitsType
    <3> QED BY <2>3, <3>2, <3>3, <3>7, <3>8, <1>2
  <2> QED BY <2>2, <2>3
<1>8. DOMAIN position' = Member /\ DOMAIN limits' = Member
  <2>1. CASE config.growing
    BY <2>1, <1>1, <1>2 DEF GroupTypes
  <2>2. CASE ~config.growing
    BY <2>2, <1>2
  <2> QED BY <2>1, <2>2
<1>9. position' \in [Member -> Int] /\ limits' \in [Member -> Limits]
  <2>1. position' = [t \in Member |-> position'[t]] /\ limits' = [t \in Member |-> limits'[t]]
    <3>1. CASE config.growing
      BY <3>1, <1>1, <1>2 DEF GroupTypes
    <3>2. CASE ~config.growing
      BY <3>2, <1>2
    <3> QED BY <3>1, <3>2
  <2> QED BY <2>1, <1>7
<1>10. GroupTypes'
  <2>1. pc' \in Stages
    BY <1>2 DEF Stages
  <2> QED BY <2>1, <1>1, <1>2, <1>3, <1>9 DEF GroupTypes
<1>11. PositionInv'
  <2>1. InStep(At)'
    BY <1>3, <1>7 DEF InStep, ToEssence
  <2>2. Within(config, At)'
    BY <1>3, <1>4
  <2> QED BY <2>1, <2>2, <1>2 DEF PositionInv
<1>12. ASSUME NEW t \in Member PROVE BufferInv(t)'
  <2>1. BufferInv(t)
    BY <1>1
  <2>2. ~IsRead(t) /\ ~IsRead(t)'
    BY <1>2 DEF IsRead
  <2> QED BY <2>1, <2>2, <1>2, BufferKept
<1> QED BY <1>3, <1>10, <1>11, <1>12 DEF GroupInv

LEMMA StartReadStep ==
  ASSUME GroupInv, Readable(config), StartRead
  PROVE  GroupInv'
<1>1. GroupTypes /\ PositionInv /\ \A t \in Member : BufferInv(t)
  BY DEF GroupInv
<1>2. /\ pc = "loop" /\ MoreToRead /\ error' = FALSE /\ current' = GetPosition
      /\ mark' = Marked /\ next' = 1 /\ numRead' = 0 /\ pc' = "member"
      /\ UNCHANGED <<config, available, limits, position, frames, totalRead, taken, abandoned>>
  BY DEF StartRead
<1>3. config' = config /\ Member' = Member /\ At' = At /\ At \in Int
  BY <1>1, <1>2, AtType DEF Member, At
<1>4. config \in Configs /\ Within(config, At) /\ InStep(At)
  BY <1>1, <1>2 DEF GroupTypes, PositionInv
<1>5. /\ First \in Member /\ config.origin[First] \in Nat
      /\ Len(config.members) \in Nat \ {0}
  BY <1>4, MemberFacts
<1>6. current' = At
  <2>1. PICK s \in Int : s = SamplesBefore(First, At) /\ PositionLower(First, s) = At
    BY <1>3, <1>4, <1>5, MemberConverts
  <2>2. position[First] = s + config.origin[First]
    BY <2>1, <1>4, <1>5 DEF InStep, ToEssence
  <2>3. FromEssence(First, position[First]) = s
    BY <2>1, <2>2, <1>5 DEF FromEssence
  <2> QED BY <2>1, <2>3, <1>2 DEF GetPosition
<1>7. HasRead' = {}
  BY <1>2 DEF HasRead
<1>8. GroupTypes'
  <2>1. pc' \in Stages /\ DOMAIN mark' = Member /\ next' \in Nat /\ error' \in BOOLEAN
        /\ current' \in Int
    BY <1>2, <1>3, <1>6 DEF Stages, Marked
  <2> QED BY <2>1, <1>1, <1>2, <1>3 DEF GroupTypes
<1>9. PositionInv'
  <2>1. Within(config, At)' /\ MoreToRead'
    BY <1>2, <1>3, <1>4 DEF MoreToRead
  <2>2. next' \in 1 .. (Len(config'.members) + 1)
    BY <1>2, <1>3, <1>5
  <2> QED BY <2>1, <2>2, <1>2, <1>3, <1>6, <1>7 DEF PositionInv
<1>10. ASSUME NEW t \in Member PROVE BufferInv(t)'
  <2>1. BufferInv(t)
    BY <1>1
  <2>2. ~IsRead(t) /\ ~IsRead(t)'
    BY <1>2, <1>7 DEF IsRead
  <2>3. mark'[t] = Len(frames[t])
    BY <1>2 DEF Marked
  <2>4. MarkRight(t)'
    BY <2>2, <2>3, <1>2 DEF MarkRight
  <2> QED BY <2>1, <2>2, <2>4, <1>2, BufferKept
<1> QED BY <1>3, <1>8, <1>9, <1>10 DEF GroupInv

(* At the end of a read every member has read.                              *)
LEMMA AllHaveRead ==
  ASSUME config \in Configs, next \in 1 .. (Len(config.members) + 1),
         next > Len(config.members)
  PROVE  HasRead = Member
<1>1. Len(config.members) \in Nat /\ Member = {config.members[i] : i \in 1 .. Len(config.members)}
  BY MemberFacts
<1>2. next - 1 = Len(config.members)
  BY <1>1
<1> QED BY <1>1, <1>2 DEF HasRead

LEMMA CompleteReadStep ==
  ASSUME GroupInv, CompleteRead
  PROVE  GroupInv'
<1>1. GroupTypes /\ PositionInv /\ \A t \in Member : BufferInv(t)
  BY DEF GroupInv
<1>2. /\ pc = "member" /\ next > Len(config.members) /\ pc' = "returned"
      /\ mark' = Completed(mark, Member)
      /\ UNCHANGED <<config, available, limits, position, frames, current, next, numRead,
                     error, totalRead, taken, abandoned>>
  BY DEF CompleteRead
<1>3. config' = config /\ Member' = Member /\ At' = At /\ config \in Configs
  BY <1>1, <1>2 DEF Member, At, GroupTypes
<1>4. /\ ~error /\ next \in 1 .. (Len(config.members) + 1) /\ current = At /\ MoreToRead
      /\ numRead = 0 \/ ~config.growing \/ \E t \in Member : At + 1 <= config.size[t]
      /\ \A t \in HasRead : position[t] = ToEssence(t, SamplesBefore(t, At + 1))
      /\ Within(config, At)
  BY <1>1, <1>2 DEF PositionInv
<1>5. HasRead = Member
  BY <1>2, <1>3, <1>4, AllHaveRead
<1>6. GroupTypes'
  <2>1. pc' \in Stages /\ DOMAIN mark' = Member
    BY <1>2 DEF Stages, Completed
  <2> QED BY <2>1, <1>1, <1>2, <1>3 DEF GroupTypes
<1>7. PositionInv'
  <2>1. InStep(At + 1)'
    BY <1>2, <1>3, <1>4, <1>5 DEF InStep, ToEssence
  <2>2. MoreToRead' /\ Within(config, At)'
    BY <1>2, <1>3, <1>4 DEF MoreToRead
  <2>3. numRead' = 0 \/ ~config'.growing \/ \E t \in Member' : At' + 1 <= config'.size[t]
    BY <1>2, <1>3, <1>4
  <2> QED BY <2>1, <2>2, <2>3, <1>2, <1>3, <1>4 DEF PositionInv
<1>8. ASSUME NEW t \in Member PROVE BufferInv(t)'
  <2>1. BufferInv(t)
    BY <1>1
  <2>2. IsRead(t) /\ IsRead(t)'
    BY <1>2, <1>4, <1>5 DEF IsRead
  <2> QED BY <2>1, <2>2, <1>2, BufferKept
<1> QED BY <1>3, <1>6, <1>7, <1>8 DEF GroupInv

LEMMA RetryStep ==
  ASSUME GroupInv, Retry
  PROVE  GroupInv'
<1>1. GroupTypes /\ PositionInv /\ \A t \in Member : BufferInv(t)
  BY DEF GroupInv
<1>2. /\ pc = "returned" /\ error /\ pc' = "loop"
      /\ UNCHANGED <<config, available, limits, position, frames, mark, current, next,
                     numRead, error, totalRead, taken, abandoned>>
  BY DEF Retry, MayRetry, ReadError
<1>3. config' = config /\ Member' = Member /\ At' = At
  BY <1>2 DEF Member, At
<1>4. Within(config, At) /\ InStep(At)
  BY <1>1, <1>2 DEF PositionInv
<1>5. GroupTypes'
  <2>1. pc' \in Stages
    BY <1>2 DEF Stages
  <2> QED BY <2>1, <1>1, <1>2, <1>3 DEF GroupTypes
<1>6. PositionInv'
  <2>1. InStep(At)'
    BY <1>2, <1>3, <1>4 DEF InStep, ToEssence
  <2>2. Within(config, At)'
    BY <1>3, <1>4
  <2> QED BY <2>1, <2>2, <1>2 DEF PositionInv
<1>7. ASSUME NEW t \in Member PROVE BufferInv(t)'
  <2>1. BufferInv(t)
    BY <1>1
  <2>2. ~IsRead(t) /\ ~IsRead(t)'
    BY <1>2 DEF IsRead
  <2> QED BY <2>1, <2>2, <1>2, BufferKept
<1> QED BY <1>3, <1>5, <1>6, <1>7 DEF GroupInv

LEMMA TakeFramesStep ==
  ASSUME GroupInv, Readable(config), TakeFrames
  PROVE  GroupInv'
<1>1. GroupTypes /\ PositionInv /\ \A t \in Member : BufferInv(t)
  BY DEF GroupInv
<1>2. /\ pc = "returned" /\ numRead = 1 /\ pc' = "loop"
      /\ taken' = [t \in Member |-> Head(frames[t])]
      /\ frames' = [t \in Member |-> Tail(frames[t])]
      /\ totalRead' = totalRead + 1
      /\ UNCHANGED <<config, available, limits, position, mark, current, next, numRead,
                     error, abandoned>>
  BY DEF TakeFrames
<1>3. config \in Configs /\ totalRead \in Nat /\ At \in Int
  BY <1>1, AtType DEF GroupTypes
<1>4. /\ config.start \in Int /\ config.duration \in Nat /\ config.growing \in BOOLEAN
      /\ \A t \in Member : config.size[t] \in Nat
  BY <1>3, MemberFacts
<1>5. config' = config /\ Member' = Member /\ At' = At + 1
  <2>1. config' = config /\ Member' = Member
    BY <1>2 DEF Member
  <2>2. At' = config.start + (totalRead + 1)
    BY <1>2 DEF At
  <2>3. config.start + (totalRead + 1) = At + 1
    BY <1>3, <1>4 DEF At
  <2> QED BY <2>1, <2>2, <2>3
<1>6. /\ ~error /\ MoreToRead /\ Within(config, At) /\ InStep(At + 1)
      /\ ~config.growing \/ \E t \in Member : At + 1 <= config.size[t]
  <2>1. numRead # 0
    BY <1>2
  <2> QED BY <2>1, <1>1, <1>2 DEF PositionInv
<1>7. Within(config, At + 1)
  <2>1. config.start <= At + 1
    BY <1>3, <1>4, <1>6 DEF Within
  <2>2. CASE config.growing
    <3>1. \E t \in Range(config.members) : At + 1 <= config.size[t]
      BY <2>2, <1>6 DEF Member
    <3> QED BY <2>1, <3>1 DEF Within
  <2>3. CASE ~config.growing
    <3>1. totalRead < config.duration
      BY <2>3, <1>6 DEF MoreToRead
    <3>2. At + 1 <= config.start + config.duration
      BY <3>1, <1>3, <1>4 DEF At
    <3> QED BY <2>1, <3>2 DEF Within
  <2> QED BY <1>4, <2>2, <2>3
<1>8. ASSUME NEW t \in Member
      PROVE  /\ frames'[t] \in Seq(Frame) /\ taken'[t] \in Frame
             /\ BufferInv(t)'
  <2>1. frames[t] \in Seq(Frame)
    BY <1>1 DEF GroupTypes
  <2>2. IsRead(t) /\ ~IsRead(t)' /\ pc # "done" /\ pc' # "member"
    BY <1>2, <1>6 DEF IsRead
  <2>3. /\ Linked(frames[t], taken[t], totalRead) /\ LeadsTo(frames[t], At)
        /\ Clean(t) => Len(frames[t]) = 1
    BY <2>2, <1>1 DEF BufferInv
  <2>4. /\ Tail(frames[t]) \in Seq(Frame) /\ Len(Tail(frames[t])) = Len(frames[t]) - 1
        /\ Head(frames[t]) \in Frame
        /\ Linked(Tail(frames[t]), Head(frames[t]), totalRead + 1)
        /\ LeadsUpTo(Tail(frames[t]), Head(frames[t]), At + 1)
        /\ Len(frames[t]) = 1 => JustTaken(Head(frames[t]), At + 1)
    BY <2>1, <2>3, <1>3, QueueTake
  <2>5. frames'[t] = Tail(frames[t]) /\ taken'[t] = Head(frames[t])
    BY <1>2
  <2>6. Clean(t)' <=> Clean(t)
    BY <1>2, <1>5 DEF Clean, First
  <2>7. Linked(frames[t], taken[t], totalRead)'
    BY <2>4, <2>5, <1>2
  <2>8. Clean(t)' => JustTaken(taken'[t], At')
    BY <2>3, <2>4, <2>5, <2>6, <1>5
  <2>9. LeadsUpTo(frames'[t], taken'[t], At')
    BY <2>4, <2>5, <1>5
  <2>10. Clean(t)' => Len(frames'[t]) = 0
    <3>1. Len(frames[t]) = 1 => Len(frames'[t]) = 0
      BY <2>4, <2>5
    <3> QED BY <3>1, <2>3, <2>6
  <2>11. BufferInv(t)'
    BY <2>2, <2>7, <2>8, <2>9, <2>10 DEF BufferInv
  <2> QED BY <2>4, <2>5, <2>11
<1>9. GroupTypes'
  <2>1. pc' \in Stages /\ totalRead' \in Nat
    BY <1>2, <1>3 DEF Stages
  <2>2. frames' = [t \in Member |-> frames'[t]] /\ taken' = [t \in Member |-> taken'[t]]
    BY <1>2
  <2>3. frames' \in [Member -> Seq(Frame)] /\ taken' \in [Member -> Frame \cup {NoFrame}]
    BY <2>2, <1>8
  <2> QED BY <2>1, <2>3, <1>1, <1>2, <1>5 DEF GroupTypes
<1>10. PositionInv'
  <2>1. InStep(At)'
    BY <1>2, <1>5, <1>6 DEF InStep, ToEssence
  <2>2. Within(config, At)'
    BY <1>5, <1>7
  <2> QED BY <2>1, <2>2, <1>2 DEF PositionInv
<1> QED BY <1>5, <1>8, <1>9, <1>10 DEF GroupInv

LEMMA EndLoopStep ==
  ASSUME GroupInv, EndLoop
  PROVE  GroupInv'
<1>1. GroupTypes /\ PositionInv /\ \A t \in Member : BufferInv(t)
  BY DEF GroupInv
<1>2. /\ pc' = "done"
      /\ UNCHANGED <<config, available, limits, position, frames, mark, current, next,
                     numRead, error, totalRead, taken, abandoned>>
  BY DEF EndLoop
<1>3. config' = config /\ Member' = Member /\ At' = At
  BY <1>2 DEF Member, At
<1>4. GroupTypes'
  <2>1. pc' \in Stages
    BY <1>2 DEF Stages
  <2> QED BY <2>1, <1>1, <1>2, <1>3 DEF GroupTypes
<1>5. PositionInv'
  <2>1. Within(config, At)'
    BY <1>1, <1>3 DEF PositionInv
  <2> QED BY <2>1, <1>2 DEF PositionInv
<1>6. ASSUME NEW t \in Member PROVE BufferInv(t)'
  <2>1. /\ Linked(frames[t], taken[t], totalRead)
        /\ Clean(t) => JustTaken(taken[t], At)
    BY <1>1 DEF BufferInv
  <2>2. Clean(t)' <=> Clean(t)
    BY <1>2, <1>3 DEF Clean, First
  <2>3. /\ Linked(frames[t], taken[t], totalRead)'
        /\ Clean(t)' => JustTaken(taken'[t], At')
    BY <2>1, <2>2, <1>2, <1>3
  <2> QED BY <2>3, <1>2 DEF BufferInv
<1> QED BY <1>3, <1>4, <1>5, <1>6 DEF GroupInv

(* What the files do changes nothing that the invariant says but how long   *)
(* they are.                                                                *)
LEMMA FilesStep ==
  ASSUME GroupInv,
         UNCHANGED <<config, limits, position, frames, mark, current, next, numRead, error,
                     totalRead, taken, abandoned, pc>>,
         available' \in [Member -> Int], \A t \in Member : available'[t] <= config.size[t]
  PROVE  GroupInv'
<1>1. GroupTypes /\ PositionInv /\ \A t \in Member : BufferInv(t)
  BY DEF GroupInv
<1>2. config' = config /\ Member' = Member /\ At' = At /\ HasRead' = HasRead
  BY DEF Member, At, HasRead
<1>3. GroupTypes'
  BY <1>1, <1>2 DEF GroupTypes
<1>4. PositionInv'
  BY <1>1, <1>2 DEF PositionInv, InStep, ToEssence, MoreToRead
<1>5. ASSUME NEW t \in Member PROVE BufferInv(t)'
  <2>1. BufferInv(t)
    BY <1>1
  <2>2. IsRead(t)' <=> IsRead(t)
    BY <1>2 DEF IsRead
  <2>3. (Clean(t)' <=> Clean(t)) /\ (CompletesItself(t)' <=> CompletesItself(t))
    BY <1>2 DEF Clean, CompletesItself, First
  <2> QED BY <2>1, <2>2, <2>3, <1>2 DEF BufferInv
<1> QED BY <1>2, <1>3, <1>4, <1>5 DEF GroupInv

LEMMA ReadMemberStep ==
  ASSUME GroupInv, Readable(config), NEW t \in Member, ReadMember(t)
  PROVE  GroupInv'
<1>1. GroupTypes /\ PositionInv /\ \A u \in Member : BufferInv(u)
  BY DEF GroupInv
<1> DEFINE p == ReadFrom(t)
           n == NumSamples(t)
           read == SamplesRead(t, p, n)
           part == IF t = First /\ config.internal THEN read
                   ELSE DurationLower(t, read, MemberPosition(t, current))
           f == [position |-> current, numSamples |-> read]
<1>2. /\ pc = "member" /\ pc' = "member" /\ next <= Len(config.members)
      /\ t = config.members[next] /\ next' = next + 1
      /\ position' = [position EXCEPT ![t] = p + n]
      /\ \/ limits' = limits
         \/ limits' = [limits EXCEPT ![t] =
                         EssenceLimits(t, limits[t].start, limits[t].duration)]
      /\ frames' = [frames EXCEPT ![t] = Append(frames[t], f)]
      /\ mark' = Completed(mark, {u \in {t} : CompletesItself(u)})
      /\ numRead' = Max({numRead, part})
      /\ UNCHANGED <<config, available, current, error, totalRead, taken, abandoned>>
  BY DEF ReadMember
<1>3. config' = config /\ Member' = Member /\ At' = At /\ At \in Int /\ config \in Configs
  BY <1>1, <1>2, AtType DEF Member, At, GroupTypes
<1>4. /\ ~error /\ next \in 1 .. (Len(config.members) + 1) /\ current = At /\ MoreToRead
      /\ numRead = 0 \/ ~config.growing \/ \E u \in Member : At + 1 <= config.size[u]
      /\ \A u \in HasRead : position[u] = ToEssence(u, SamplesBefore(u, At + 1))
      /\ Within(config, At)
  BY <1>1, <1>2 DEF PositionInv
<1>5. /\ config.members \in Seq(Track) /\ Len(config.members) \in Nat \ {0}
      /\ \A i, j \in 1 .. Len(config.members) :
           config.members[i] = config.members[j] => i = j
      /\ \A u \in Member : config.origin[u] \in Nat /\ config.size[u] \in Nat
  BY <1>3, MemberFacts
<1>6. HasRead' = HasRead \cup {t} /\ t \notin HasRead
  <2>1. next \in 1 .. Len(config.members) /\ next' - 1 = next
    BY <1>2, <1>4, <1>5
  <2>2. 1 .. (next' - 1) = (1 .. (next - 1)) \cup {next}
    BY <2>1
  <2>3. HasRead' = HasRead \cup {t}
    BY <2>2, <1>2, <1>3 DEF HasRead
  <2>4. \A i \in 1 .. (next - 1) : config.members[i] # t
    <3>1. SUFFICES ASSUME NEW i \in 1 .. (next - 1), config.members[i] = t PROVE FALSE
      OBVIOUS
    <3>2. i \in 1 .. Len(config.members) /\ i # next
      BY <2>1
    <3> QED BY <2>1, <3>1, <3>2, <1>2, <1>5
  <2> QED BY <2>3, <2>4 DEF HasRead
<1>7. PICK s \in Int, d \in Int, o \in Nat :
        /\ s = SamplesBefore(t, At) /\ d = n /\ o = config.origin[t]
        /\ p = s + o /\ SamplesBefore(t, At + 1) = s + d
        /\ At >= 0 => At <= s
  <2>1. /\ SamplesBefore(t, At) \in Int
        /\ MemberPosition(t, At) = SamplesBefore(t, At)
        /\ DurationHigher(t, 1, At) \in Int
        /\ SamplesBefore(t, At + 1) = SamplesBefore(t, At) + DurationHigher(t, 1, At)
        /\ At >= 0 => At <= SamplesBefore(t, At)
    BY <1>3, <1>4, MemberConverts
  <2>2. p = SamplesBefore(t, At) + config.origin[t]
    BY <2>1, <1>4 DEF ReadFrom, ToEssence
  <2>3. n = DurationHigher(t, 1, At)
    BY <1>4 DEF NumSamples
  <2> QED BY <2>1, <2>2, <2>3, <1>5
<1>8. p \in Int /\ n \in Int /\ p + n = ToEssence(t, SamplesBefore(t, At + 1))
  BY <1>7 DEF ToEssence
<1>9. /\ limits[t] \in Limits /\ available[t] \in Int /\ available[t] <= config.size[t]
      /\ frames[t] \in Seq(Frame) /\ taken[t] \in Frame \cup {NoFrame}
  BY <1>1 DEF GroupTypes
<1>10. read \in Int /\ (read > 0 => p < available[t])
  BY <1>8, <1>9, SamplesReadAvailable
<1> HIDE DEF p, n, read
<1>11. f \in Frame /\ f.position = At
  BY <1>3, <1>4, <1>10 DEF Frame
<1>12. numRead' = 0 \/ ~config.growing \/ \E u \in Member : At + 1 <= config.size[u]
  <2>1. SUFFICES ASSUME config.growing, ~ \E u \in Member : At + 1 <= config.size[u]
                 PROVE  numRead' = 0
    OBVIOUS
  <2>2. numRead = 0
    BY <2>1, <1>4
  <2>3. At >= 0
    BY <2>1, <1>1, AtType
  <2>4. ~(read > 0)
    <3>1. SUFFICES ASSUME read > 0 PROVE FALSE
      OBVIOUS
    <3>2. p < available[t] /\ At <= p
      BY <3>1, <2>3, <1>3, <1>7, <1>8, <1>10
    <3>3. At + 1 <= config.size[t]
      BY <3>2, <1>3, <1>5, <1>8, <1>9
    <3> QED BY <3>3, <2>1
  <2>5. part \in Int /\ part <= 0
    <3>1. CASE t = First /\ config.internal
      BY <3>1, <2>4, <1>10
    <3>2. CASE ~(t = First /\ config.internal)
      <4>1. DurationLower(t, read, MemberPosition(t, current)) = 0
        BY <2>4, <1>10, NothingRead
      <4> QED BY <3>2, <4>1
    <3> QED BY <3>1, <3>2
  <2> HIDE DEF part
  <2>6. PICK z \in Int : z = 0
    OBVIOUS
  <2>7. Max({z, part}) \in {z, part} /\ Max({z, part}) >= z
    BY <2>5, MaxOfTwo
  <2>8. Max({z, part}) = 0
    BY <2>5, <2>6, <2>7
  <2> QED BY <2>2, <2>6, <2>8, <1>2
<1> HIDE DEF part, f
<1>13. GroupTypes'
  <2>1. position' \in [Member -> Int]
    BY <1>1, <1>2, <1>8 DEF GroupTypes
  <2>2. limits' \in [Member -> Limits]
    <3>1. limits \in [Member -> Limits] /\ limits[t].start \in Int /\ limits[t].duration \in Int
      BY <1>1, <1>9 DEF GroupTypes, Limits
    <3>2. EssenceLimits(t, limits[t].start, limits[t].duration) \in Limits
      BY <3>1, <1>5, EssenceLimitsType
    <3> QED BY <3>1, <3>2, <1>2
  <2>3. frames' \in [Member -> Seq(Frame)]
    <3>1. Append(frames[t], f) \in Seq(Frame)
      BY <1>9, <1>11
    <3> QED BY <3>1, <1>1, <1>2 DEF GroupTypes
  <2>4. DOMAIN mark' = Member /\ next' \in Nat
    BY <1>2, <1>4, <1>5 DEF Completed
  <2> QED BY <2>1, <2>2, <2>3, <2>4, <1>1, <1>2, <1>3 DEF GroupTypes
<1>14. PositionInv'
  <2>1. next' \in 1 .. (Len(config.members) + 1)
    BY <1>2, <1>4, <1>5
  <2>2. ASSUME NEW u \in HasRead'
        PROVE  position'[u] = ToEssence(u, SamplesBefore(u, At + 1))
    <3>1. position \in [Member -> Int]
      BY <1>1 DEF GroupTypes
    <3>2. CASE u = t
      BY <3>1, <3>2, <1>2, <1>8
    <3>3. CASE u # t
      <4>1. u \in HasRead /\ position'[u] = position[u]
        BY <2>2, <3>1, <3>3, <1>2, <1>6
      <4> QED BY <4>1, <1>4
    <3> QED BY <3>2, <3>3
  <2>3. MoreToRead' /\ Within(config, At)'
    BY <1>2, <1>3, <1>4 DEF MoreToRead
  <2>4. \A u \in HasRead' : position'[u] = ToEssence(u, SamplesBefore(u, At + 1))'
    BY <2>2, <1>3 DEF ToEssence
  <2>5. numRead' = 0 \/ ~config'.growing \/ \E u \in Member' : At' + 1 <= config'.size[u]
    BY <1>3, <1>12
  <2> QED BY <2>1, <2>3, <2>4, <2>5, <1>2, <1>3, <1>4 DEF PositionInv
<1>15. ASSUME NEW u \in Member PROVE BufferInv(u)'
  <2>1. BufferInv(u) /\ MarkRight(u)
    BY <1>1, <1>2 DEF BufferInv, MarkRight
  <2>2. /\ CompletesItself(u)' <=> CompletesItself(u)
        /\ Clean(u)' <=> Clean(u)
    BY <1>2, <1>3 DEF CompletesItself, Clean, First
  <2>3. CASE u # t
    <3>1. frames'[u] = frames[u] /\ taken'[u] = taken[u] /\ mark'[u] = mark[u]
      BY <2>3, <1>1, <1>2 DEF GroupTypes, Completed
    <3>2. IsRead(u)' <=> IsRead(u)
      BY <2>3, <1>2, <1>6 DEF IsRead
    <3>3. MarkRight(u)'
      BY <2>1, <2>2, <3>1, <3>2 DEF MarkRight
    <3> QED BY <2>1, <3>1, <3>2, <3>3, <1>2, BufferKept
  <2>4. CASE u = t
    <3>1. ~IsRead(t) /\ IsRead(t)'
      BY <1>2, <1>6 DEF IsRead
    <3>2. frames'[t] = Append(frames[t], f) /\ taken'[t] = taken[t]
      BY <1>1, <1>2 DEF GroupTypes
    <3>3. /\ Linked(frames[t], taken[t], totalRead) /\ LeadsUpTo(frames[t], taken[t], At)
          /\ Clean(t) => Len(frames[t]) = 0 /\ JustTaken(taken[t], At)
          /\ mark[t] = Len(frames[t])
      BY <2>1, <2>4, <3>1, <1>2 DEF BufferInv
    <3>4. /\ Len(frames'[t]) = Len(frames[t]) + 1
          /\ Linked(frames'[t], taken[t], totalRead)
          /\ LeadsTo(frames'[t], At)
      BY <3>2, <3>3, <1>3, <1>9, <1>11, QueueAppend
    <3>5. mark'[t] = IF CompletesItself(t) THEN NoMark ELSE 0
      <4>1. CASE CompletesItself(t)
        BY <4>1, <1>2 DEF Completed
      <4>2. CASE ~CompletesItself(t)
        <5>1. Clean(t)
          BY <4>2 DEF CompletesItself, Clean
        <5>2. mark'[t] = mark[t]
          BY <4>2, <1>2 DEF Completed
        <5> QED BY <4>2, <5>1, <5>2, <3>3
      <4> QED BY <4>1, <4>2
    <3>6. MarkRight(t)'
      BY <3>1, <3>5, <2>2, <2>4 DEF MarkRight
    <3>7. Linked(frames[t], taken[t], totalRead)'
      BY <3>2, <3>4, <1>2
    <3>8. Clean(t)' => JustTaken(taken'[t], At')
      BY <3>2, <3>3, <2>2, <2>4, <1>3
    <3>9. LeadsTo(frames'[t], At')
      BY <3>4, <1>3
    <3>10. Clean(t)' => Len(frames'[t]) = 1
      BY <3>3, <3>4, <2>2, <2>4
    <3>11. BufferInv(t)'
      BY <3>1, <3>6, <3>7, <3>8, <3>9, <3>10 DEF BufferInv, MarkRight
    <3> QED BY <3>11, <2>4
  <2> QED BY <2>3, <2>4
<1> QED BY <1>3, <1>13, <1>14, <1>15 DEF GroupInv

LEMMA FailMemberStep ==
  ASSUME GroupInv, Readable(config), NEW t \in Member, FailMember(t)
  PROVE  GroupInv'
<1>1. GroupTypes /\ PositionInv /\ \A u \in Member : BufferInv(u)
  BY DEF GroupInv
<1>2. /\ pc = "member" /\ pc' = "returned" /\ error' = TRUE /\ numRead' = 0
      /\ frames' = [u \in Member |-> Aborted(frames[u], mark[u])]
      /\ mark' = Unmarked
      /\ position' = [u \in Member |-> ToEssence(u, MemberPosition(u, current))]
      /\ abandoned' = (abandoned \/ \E i \in 1 .. (next - 1) :
                                      CompletesItself(config.members[i]))
      /\ UNCHANGED <<config, available, limits, current, next, totalRead, taken>>
  BY DEF FailMember, SeekBack, Seek
<1>3. config' = config /\ Member' = Member /\ At' = At /\ At \in Int /\ config \in Configs
  BY <1>1, <1>2, AtType DEF Member, At, GroupTypes
<1>4. current = At /\ MoreToRead /\ Within(config, At)
  BY <1>1, <1>2 DEF PositionInv
<1>5. ASSUME NEW u \in Member
      PROVE  position'[u] = ToEssence(u, SamplesBefore(u, At)) /\ position'[u] \in Int
  <2>1. MemberPosition(u, At) = SamplesBefore(u, At) /\ SamplesBefore(u, At) \in Int
    BY <1>3, <1>4, MemberConverts
  <2>2. config.origin[u] \in Nat
    BY <1>3, MemberFacts
  <2>3. ToEssence(u, SamplesBefore(u, At)) \in Int
    BY <2>1, <2>2 DEF ToEssence
  <2> QED BY <2>1, <2>3, <1>2, <1>4
<1>6. abandoned => abandoned'
  BY <1>2
<1>7. ASSUME NEW u \in Member
      PROVE  frames'[u] \in Seq(Frame) /\ BufferInv(u)'
  <2>1. frames[u] \in Seq(Frame) /\ frames'[u] = Aborted(frames[u], mark[u])
        /\ taken'[u] = taken[u]
    BY <1>1, <1>2 DEF GroupTypes
  <2>2. ~IsRead(u)' /\ pc' # "done" /\ pc' # "member"
    BY <1>2 DEF IsRead
  <2>3. Linked(frames[u], taken[u], totalRead) /\ (Clean(u) => JustTaken(taken[u], At))
    BY <1>1 DEF BufferInv
  <2>4. Clean(u)' => Clean(u)
    BY <1>2, <1>3, <1>6 DEF Clean, First
  <2>5. SUFFICES /\ frames'[u] \in Seq(Frame)
                 /\ Linked(frames'[u], taken[u], totalRead)
                 /\ LeadsUpTo(frames'[u], taken[u], At)
                 /\ Clean(u)' => Len(frames'[u]) = 0
    <3>1. Linked(frames[u], taken[u], totalRead)'
      BY <2>1, <2>5, <1>2
    <3>2. LeadsUpTo(frames'[u], taken'[u], At')
      BY <2>1, <2>5, <1>3
    <3>3. Clean(u)' => JustTaken(taken'[u], At')
      BY <2>1, <2>3, <2>4, <1>3
    <3>4. BufferInv(u)'
      BY <3>1, <3>2, <3>3, <2>2, <2>5 DEF BufferInv
    <3> QED BY <3>4, <2>5
  <2>6. CASE ~IsRead(u)
    <3>1. /\ LeadsUpTo(frames[u], taken[u], At) /\ mark[u] = Len(frames[u])
          /\ Clean(u) => Len(frames[u]) = 0
      BY <2>6, <1>1, <1>2 DEF BufferInv
    <3>2. frames'[u] = frames[u]
      BY <2>1, <3>1, AbortedQueue
    <3> QED BY <2>1, <2>3, <2>4, <3>1, <3>2
  <2>7. CASE IsRead(u) /\ CompletesItself(u)
    <3>1. LeadsTo(frames[u], At) /\ mark[u] = NoMark
      BY <2>7, <1>1, <1>2 DEF BufferInv
    <3>2. frames'[u] = frames[u]
      BY <2>1, <3>1, AbortedQueue
    <3>3. LeadsUpTo(frames[u], taken[u], At)
      BY <2>1, <3>1, <1>3, QueueKept
    <3>4. abandoned'
      <4>1. u \in HasRead
        BY <2>7, <1>2 DEF IsRead
      <4>2. PICK i \in 1 .. (next - 1) : u = config.members[i]
        BY <4>1 DEF HasRead
      <4> QED BY <4>2, <2>7, <1>2
    <3>5. ~Clean(u)'
      BY <3>4, <2>7, <1>2, <1>3 DEF Clean, CompletesItself, First
    <3> QED BY <2>1, <2>3, <3>2, <3>3, <3>5
  <2>8. CASE IsRead(u) /\ ~CompletesItself(u)
    <3>1. Clean(u)
      BY <2>8 DEF Clean, CompletesItself
    <3>2. Len(frames[u]) = 1 /\ mark[u] = 0
      BY <2>8, <3>1, <1>1, <1>2 DEF BufferInv
    <3>3. frames'[u] = <<>>
      BY <2>1, <3>2, AbortedQueue
    <3>4. Linked(<<>>, taken[u], totalRead) /\ LeadsUpTo(<<>>, taken[u], At)
      BY <2>1, <2>3, <3>1, <1>3, QueueEmptied
    <3> QED BY <3>3, <3>4
  <2> QED BY <2>6, <2>7, <2>8
<1>8. GroupTypes'
  <2>1. pc' \in Stages /\ error' \in BOOLEAN /\ abandoned' \in BOOLEAN
        /\ DOMAIN mark' = Member
    BY <1>2 DEF Stages, Unmarked
  <2>2. frames' = [u \in Member |-> frames'[u]] /\ position' = [u \in Member |-> position'[u]]
    BY <1>2
  <2>3. frames' \in [Member -> Seq(Frame)] /\ position' \in [Member -> Int]
    BY <2>2, <1>5, <1>7
  <2> QED BY <2>1, <2>3, <1>1, <1>2, <1>3 DEF GroupTypes
<1>9. PositionInv'
  <2>1. InStep(At)'
    BY <1>3, <1>5 DEF InStep, ToEssence
  <2>2. MoreToRead' /\ Within(config, At)'
    BY <1>2, <1>3, <1>4 DEF MoreToRead
  <2> QED BY <2>1, <2>2, <1>2, <1>3, <1>4 DEF PositionInv
<1> QED BY <1>3, <1>7, <1>8, <1>9 DEF GroupInv

-----------------------------------------------------------------------------
(* Theorems. *)

LEMMA GroupInit ==
  ASSUME Init
  PROVE  GroupInv
<1>1. /\ config \in Configs /\ pc = "open" /\ totalRead = 0 /\ error = FALSE
      /\ abandoned = FALSE /\ current = 0 /\ next = 1
      /\ available = [t \in Member |-> IF config.growing THEN 0 ELSE config.size[t]]
      /\ limits = [t \in Member |->
           [start |-> 0, duration |-> IF config.growing THEN Unlimited ELSE config.size[t]]]
      /\ position = [t \in Member |-> 0]
      /\ frames = [t \in Member |-> <<>>]
      /\ mark = [t \in Member |-> NoMark]
      /\ taken = [t \in Member |-> NoFrame]
  BY DEF Init
<1>2. /\ config.start \in Int /\ config.duration \in Nat
      /\ \A t \in Member : config.size[t] \in Nat
  BY <1>1, MemberFacts
<1>3. GroupTypes
  <2>1. available \in [Member -> Int] /\ \A t \in Member : available[t] <= config.size[t]
    BY <1>1, <1>2
  <2>2. limits \in [Member -> Limits]
    <3>1. Unlimited \in Int
      <4>1. PICK h \in Nat : h = Word \div 2
        BY WordAssumption
      <4> QED BY <4>1 DEF Unlimited
    <3>2. \A t \in Member : limits[t] \in Limits
      BY <1>1, <1>2, <3>1 DEF Limits
    <3>3. limits = [t \in Member |-> limits[t]]
      BY <1>1
    <3> QED BY <3>2, <3>3
  <2>3. position \in [Member -> Int] /\ frames \in [Member -> Seq(Frame)]
        /\ taken \in [Member -> Frame \cup {NoFrame}] /\ DOMAIN mark = Member
    BY <1>1
  <2>4. pc \in Stages /\ current \in Int /\ next \in Nat /\ totalRead \in Nat
    BY <1>1 DEF Stages
  <2>5. error \in BOOLEAN /\ abandoned \in BOOLEAN
    BY <1>1
  <2>6. config \in Configs
    BY <1>1
  <2> QED BY <2>1, <2>2, <2>3, <2>4, <2>5, <2>6 DEF GroupTypes
<1>4. PositionInv
  <2>1. At = config.start
    BY <1>1, <1>2 DEF At
  <2>2. Within(config, At)
    BY <2>1, <1>2 DEF Within
  <2> QED BY <2>2, <1>1 DEF PositionInv
<1>5. ASSUME NEW t \in Member PROVE BufferInv(t)
  <2>1. frames[t] = <<>> /\ taken[t] = NoFrame /\ ~IsRead(t) /\ Len(<<>>) = 0
    BY <1>1 DEF IsRead
  <2>2. Linked(<<>>, NoFrame, 0)
    <3>1. 1 .. (Len(<<>>) - 1) = {}
      OBVIOUS
    <3> QED BY <3>1 DEF Linked
  <2>3. LeadsUpTo(<<>>, NoFrame, At) /\ JustTaken(NoFrame, At)
    BY DEF LeadsUpTo, JustTaken
  <2> QED BY <2>1, <2>2, <2>3, <1>1 DEF BufferInv
<1> QED BY <1>3, <1>4, <1>5 DEF GroupInv

(* The inductive invariant: members that a read in progress is through with *)
(* are one edit unit ahead, the buffers' frames follow one another up to    *)
(* the application's position, and where no failed read has left a frame    *)
(* there is none but that of the read in progress.                          *)
THEOREM GroupInvariant ==
  ASSUME \A c \in Configs : Readable(c)
  PROVE  Spec => []GroupInv
<1>1. Init => GroupInv
  BY GroupInit
<1>2. GroupInv /\ [Next]_vars => GroupInv'
  <2>1. SUFFICES ASSUME GroupInv, [Next]_vars PROVE GroupInv'
    OBVIOUS
  <2>2. Readable(config) /\ GroupTypes
    BY <2>1 DEF GroupInv, GroupTypes
  <2>3. available \in [Member -> Int] /\ \A t \in Member : available[t] <= config.size[t]
        /\ \A s \in Member : config.size[s] \in Nat
    BY <2>2, MemberFacts DEF GroupTypes
  <2>4. CASE SetReadLimits
    BY <2>1, <2>2, <2>4, SetReadLimitsStep
  <2>5. CASE StartRead
    BY <2>1, <2>2, <2>5, StartReadStep
  <2>6. CASE CompleteRead
    BY <2>1, <2>6, CompleteReadStep
  <2>7. CASE Retry
    BY <2>1, <2>7, RetryStep
  <2>8. CASE TakeFrames
    BY <2>1, <2>2, <2>8, TakeFramesStep
  <2>9. CASE EndLoop
    BY <2>1, <2>9, EndLoopStep
  <2>10. ASSUME NEW t \in Member, ReadMember(t) PROVE GroupInv'
    BY <2>1, <2>2, <2>10, ReadMemberStep
  <2>11. ASSUME NEW t \in Member, FailMember(t) PROVE GroupInv'
    BY <2>1, <2>2, <2>11, FailMemberStep
  <2>12. ASSUME NEW t \in Member, Grow(t) PROVE GroupInv'
    <3>1. /\ available[t] < config.size[t]
          /\ available' = [available EXCEPT ![t] = available[t] + 1]
          /\ UNCHANGED <<config, limits, position, frames, mark, current, next, numRead,
                         error, totalRead, taken, abandoned, pc>>
      BY <2>12 DEF Grow
    <3>2. available' \in [Member -> Int] /\ \A u \in Member : available'[u] <= config.size[u]
      BY <3>1, <2>3
    <3> QED BY <3>1, <3>2, <2>1, FilesStep
  <2>13. ASSUME NEW t \in Member, WriteFooter(t) PROVE GroupInv'
    <3>1. UNCHANGED <<config, available, limits, position, frames, mark, current, next,
                      numRead, error, totalRead, taken, abandoned, pc>>
      BY <2>13 DEF WriteFooter
    <3> QED BY <3>1, <2>1, <2>3, FilesStep
  <2>14. CASE UNCHANGED vars
    <3>1. UNCHANGED <<config, available, limits, position, frames, mark, current, next,
                      numRead, error, totalRead, taken, abandoned, pc>>
      BY <2>14 DEF vars
    <3> QED BY <3>1, <2>1, <2>3, FilesStep
  <2> QED BY <2>1, <2>4, <2>5, <2>6, <2>7, <2>8, <2>9, <2>10, <2>11, <2>12, <2>13, <2>14
          DEF Next, Application
<1> QED BY <1>1, <1>2, PTL DEF Spec

(* Between reads every member is at the sample of the application's         *)
(* position, after reads that failed, too, and before the start of a clip.  *)
THEOREM MembersStayInStep ==
  ASSUME \A c \in Configs : Readable(c)
  PROVE  Spec => []MembersInStep
<1>1. GroupInv => MembersInStep
  <2>1. SUFFICES ASSUME GroupInv, pc = "loop", NEW t \in Member
                 PROVE  position[t] = ToEssence(t, SamplesBefore(t, config.start + totalRead))
    BY DEF MembersInStep
  <2>2. InStep(At)
    BY <2>1 DEF GroupInv, PositionInv
  <2> QED BY <2>2 DEF InStep, At
<1> QED BY <1>1, GroupInvariant, PTL

(* The frames taken together are of one position, as long as no member had  *)
(* completed its part of a read that then failed.                           *)
THEOREM FramesStayTogether ==
  ASSUME \A c \in Configs : Readable(c)
  PROVE  Spec => []FramesTogether
<1>1. GroupInv => FramesTogether
  <2>1. SUFFICES ASSUME GroupInv, ~abandoned, NEW t \in Member, NEW u \in Member,
                        taken[t] # NoFrame
                 PROVE  taken[t].position = taken[u].position
    BY DEF FramesTogether
  <2>2. BufferInv(t) /\ BufferInv(u) /\ Clean(t) /\ Clean(u)
    BY <2>1 DEF GroupInv, Clean
  <2>3. taken[u] # NoFrame
    BY <2>1, <2>2 DEF BufferInv, Linked
  <2>4. taken[t].position = At - 1 /\ taken[u].position = At - 1
    BY <2>1, <2>2, <2>3 DEF BufferInv, JustTaken
  <2> QED BY <2>4
<1> QED BY <1>1, GroupInvariant, PTL

(* However often reads fail, the frames taken and those still in a buffer   *)
(* follow one another without a gap, up to the one read last.               *)
THEOREM NoFrameIsSkipped ==
  ASSUME \A c \in Configs : Readable(c)
  PROVE  Spec => []NothingSkipped
<1>1. GroupInv => NothingSkipped
  <2> SUFFICES ASSUME GroupInv, NEW t \in Member
               PROVE  LET queue == IF taken[t] = NoFrame THEN frames[t]
                                   ELSE <<taken[t]>> \o frames[t]
                      IN /\ \A i \in 2 .. Len(queue) :
                              queue[i].position - queue[i-1].position \in {0, 1}
                         /\ pc = "loop" /\ totalRead > 0 =>
                              Last(queue).position - (config.start + totalRead) \in {-1, 0}
    BY DEF NothingSkipped
  <2> DEFINE q == frames[t]
             last == taken[t]
             n == Len(q)
  <2>1. GroupTypes /\ BufferInv(t)
    BY DEF GroupInv
  <2>2. q \in Seq(Frame) /\ last \in Frame \cup {NoFrame} /\ totalRead \in Nat /\ n \in Nat
    BY <2>1 DEF GroupTypes
  <2>3. Linked(q, last, totalRead) /\ (pc = "loop" => LeadsUpTo(q, last, At))
    BY <2>1 DEF BufferInv, IsRead
  <2>4. CASE last = NoFrame
    <3>1. \A i \in 2 .. n : q[i].position - q[i-1].position \in {0, 1}
      <4>1. SUFFICES ASSUME NEW i \in 2 .. n
                     PROVE  q[i].position - q[i-1].position \in {0, 1}
        OBVIOUS
      <4>2. i - 1 \in 1 .. (n - 1) /\ i - 1 + 1 = i
        BY <2>2
      <4>3. q[i - 1 + 1].position - q[i-1].position \in {0, 1}
        BY <4>2, <2>3 DEF Linked
      <4> QED BY <4>2, <4>3
    <3>2. ~(totalRead > 0)
      BY <2>2, <2>3, <2>4 DEF Linked
    <3> QED BY <3>1, <3>2, <2>4
  <2>5. CASE last # NoFrame
    <3> DEFINE r == <<last>> \o q
    <3>1. /\ Len(r) = n + 1 /\ r[1] = last
          /\ \A i \in 1 .. n : r[i + 1] = q[i]
      <4>1. last \in Frame /\ <<last>> \in Seq(Frame) /\ Len(<<last>>) = 1
        BY <2>2, <2>5
      <4> QED BY <4>1, <2>2
    <3> HIDE DEF r
    <3>2. ASSUME NEW i \in 2 .. Len(r)
          PROVE  r[i].position - r[i-1].position \in {0, 1}
      <4>1. CASE i = 2
        <5>1. n > 0 /\ r[2] = q[1] /\ r[2 - 1] = last
          <6>1. 1 \in 1 .. n
            BY <4>1, <3>1, <2>2
          <6> QED BY <6>1, <3>1
        <5> QED BY <4>1, <5>1, <2>3, <2>5 DEF Linked
      <4>2. CASE i # 2
        <5>1. PICK k \in 1 .. (n - 1) : k = i - 2
          BY <4>2, <3>1, <2>2
        <5>2. k \in 1 .. n /\ k + 1 \in 1 .. n /\ i - 1 = k + 1 /\ i = k + 1 + 1
          BY <5>1, <2>2
        <5>3. r[i] = q[k + 1] /\ r[i - 1] = q[k]
          BY <5>2, <3>1
        <5>4. q[k + 1].position - q[k].position \in {0, 1}
          BY <5>1, <2>3 DEF Linked
        <5> QED BY <5>3, <5>4
      <4> QED BY <4>1, <4>2
    <3>3. ASSUME pc = "loop"
          PROVE  Last(r).position - (config.start + totalRead) \in {-1, 0}
      <4>1. LeadsUpTo(q, last, At) /\ Last(r) = r[n + 1]
        BY <3>1, <3>3, <2>3 DEF Last
      <4>2. CASE n > 0
        <5>1. n \in 1 .. n
          BY <4>2, <2>2
        <5>2. r[n + 1] = q[n]
          BY <5>1, <3>1
        <5> QED BY <4>1, <4>2, <5>2 DEF LeadsUpTo, At
      <4>3. CASE ~(n > 0)
        <5>1. n = 0
          BY <4>3, <2>2
        <5>2. last.position = At - 1 /\ r[n + 1] = last
          BY <4>1, <5>1, <3>1, <2>5 DEF LeadsUpTo
        <5>3. At \in Int
          BY <2>1, AtType
        <5>4. Last(r).position - At \in {-1, 0}
          BY <4>1, <5>2, <5>3
        <5> QED BY <5>4 DEF At
      <4> QED BY <4>2, <4>3
    <3> QED BY <3>2, <3>3, <2>5 DEF r
  <2> QED BY <2>4, <2>5
<1> QED BY <1>1, GroupInvariant, PTL
=============================================================================
