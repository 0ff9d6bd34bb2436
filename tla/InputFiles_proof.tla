---------------------------- MODULE InputFiles_proof ----------------------------
(***************************************************************************)
(* Proofs about reading.                                                   *)
(*                                                                         *)
(* Reads of an HTTP file take the bytes from its position on, for every    *)
(* size of file and buffer.  A seek may go back inside the buffer, so what *)
(* is behind buffer_pos counts as well: the whole buffer are the bytes     *)
(* that begin buffer_pos before the position (HTTPFileInv).                *)
(*                                                                         *)
(* Reads of an essence container return the frames of their content        *)
(* packages, for every complete, well formed file and every order of       *)
(* reads.  In the middle of a read the reader is in the content package    *)
(* that follows those it has read, where an item begins, and has taken     *)
(* the essence before; the index and the chunks change but for where their *)
(* next search begins (WholeFileInv).                                      *)
(***************************************************************************)
EXTENDS EssenceReader, MXFHTTPFile, SequenceTheorems, WellFoundedInduction, TLAPS

(***************************************************************************)
(* The HTTP file.                                                          *)
(***************************************************************************)
FileType == [position : Nat, pos : Nat, buffer : Seq(Nat)]

(* The buffer of a file surrounds its position.                             *)
HTTPFileInv(h) ==
  /\ h \in FileType
  /\ h.pos <= h.position /\ h.pos <= Len(h.buffer)
  /\ h.buffer = Bytes(h.position - h.pos, Len(h.buffer))

HTTPInv == HTTPFileInv(http) /\ HTTPReadsTrue

-----------------------------------------------------------------------------
(* The lesser of two numbers.                                               *)
LEMMA MinOfTwo ==
  ASSUME NEW a \in Int, NEW b \in Int
  PROVE  Min({a, b}) = IF a <= b THEN a ELSE b
BY DEF Min

LEMMA MaxOfTwo ==
  ASSUME NEW a \in Int, NEW b \in Int
  PROVE  Max({a, b}) = IF a <= b THEN b ELSE a
BY DEF Max

(* Bytes are a sequence of positions.                                       *)
LEMMA BytesType ==
  ASSUME NEW first \in Nat, NEW count \in Nat
  PROVE  /\ Bytes(first, count) \in Seq(Nat)
         /\ Len(Bytes(first, count)) = count
         /\ \A i \in 1 .. count : Bytes(first, count)[i] = first + i - 1
<1>1. Bytes(first, count) \in Seq(Nat)
  BY DEF Bytes
<1>2. Len(Bytes(first, count)) = count
  BY DEF Bytes
<1> QED BY <1>1, <1>2 DEF Bytes

(* A stretch of bytes is bytes, and bytes that follow bytes are.            *)
LEMMA StretchOfBytes ==
  ASSUME NEW first \in Nat, NEW count \in Nat, NEW from \in Nat, NEW n \in Nat,
         NEW lo \in Nat, NEW hi \in Nat,
         lo + first = from + 1, hi + 1 = lo + n, first <= from, hi <= count
  PROVE  SubSeq(Bytes(first, count), lo, hi) = Bytes(from, n)
<1> DEFINE s == Bytes(first, count)
           t == Bytes(from, n)
           u == SubSeq(s, lo, hi)
<1>1. \A i \in lo .. hi : s[i] \in Nat /\ s[i] = first + i - 1
  <2>1. \A i \in 1 .. count : s[i] = first + i - 1
    BY BytesType
  <2>2. \A i \in lo .. hi : i \in 1 .. count /\ first + i - 1 \in Nat
    OBVIOUS
  <2> QED BY <2>1, <2>2
<1>2. /\ t \in Seq(Nat) /\ Len(t) = n
      /\ \A i \in 1 .. n : t[i] = from + i - 1
  BY BytesType
<1>3. /\ u \in Seq(Nat) /\ Len(u) = n
      /\ \A i \in 1 .. n : u[i] = s[lo + i - 1]
  <2> HIDE DEF s
  <2>1. lo \in Int /\ hi \in Int
    OBVIOUS
  <2>2. /\ u \in Seq(Nat)
        /\ Len(u) = IF lo <= hi THEN hi - lo + 1 ELSE 0
        /\ \A i \in 1 .. hi - lo + 1 : u[i] = s[lo + i - 1]
    BY <1>1, <2>1, SubSeqProperties
  <2> HIDE DEF u
  <2> QED BY <2>2
<1>4. ASSUME NEW i \in 1 .. Len(u) PROVE u[i] = t[i]
  <2>1. i \in 1 .. n /\ lo + i - 1 \in lo .. hi
    BY <1>3
  <2> HIDE DEF s, t, u
  <2>2. u[i] = first + (lo + i - 1) - 1
    BY <1>1, <1>3, <2>1
  <2>3. t[i] = from + i - 1
    BY <1>2, <2>1
  <2> QED BY <2>1, <2>2, <2>3
<1> HIDE DEF s, t, u
<1>5. u = t
  BY <1>2, <1>3, <1>4, SeqEqual
<1> QED BY <1>5 DEF s, t, u

LEMMA ConcatOfBytes ==
  ASSUME NEW first \in Nat, NEW m \in Nat, NEW n \in Nat
  PROVE  Bytes(first, m) \o Bytes(first + m, n) = Bytes(first, m + n)
<1> DEFINE s == Bytes(first, m)
           t == Bytes(first + m, n)
           u == Bytes(first, m + n)
<1>1. /\ s \in Seq(Nat) /\ Len(s) = m /\ \A i \in 1 .. m : s[i] = first + i - 1
      /\ t \in Seq(Nat) /\ Len(t) = n /\ \A i \in 1 .. n : t[i] = first + m + i - 1
      /\ u \in Seq(Nat) /\ Len(u) = m + n /\ \A i \in 1 .. m + n : u[i] = first + i - 1
  <2>1. first + m \in Nat /\ m + n \in Nat
    OBVIOUS
  <2>2. /\ s \in Seq(Nat) /\ Len(s) = m /\ \A i \in 1 .. m : s[i] = first + i - 1
    BY BytesType
  <2>3. /\ t \in Seq(Nat) /\ Len(t) = n /\ \A i \in 1 .. n : t[i] = first + m + i - 1
    BY <2>1, BytesType
  <2>4. /\ u \in Seq(Nat) /\ Len(u) = m + n /\ \A i \in 1 .. m + n : u[i] = first + i - 1
    BY <2>1, BytesType
  <2> QED BY <2>2, <2>3, <2>4
<1> HIDE DEF s, t, u
<1>2. /\ s \o t \in Seq(Nat) /\ Len(s \o t) = m + n
      /\ \A i \in 1 .. m + n : (s \o t)[i] = IF i <= m THEN s[i] ELSE t[i - m]
  BY <1>1, ConcatProperties
<1>3. ASSUME NEW i \in 1 .. m + n PROVE (s \o t)[i] = u[i]
  <2>1. CASE i <= m
    BY <1>1, <1>2, <2>1
  <2>2. CASE ~(i <= m)
    <3>1. i - m \in 1 .. n
      BY <2>2
    <3> QED BY <1>1, <1>2, <2>2, <3>1
  <2> QED BY <2>1, <2>2
<1>4. s \o t = u
  BY <1>1, <1>2, <1>3, SeqEqual
<1> QED BY <1>4 DEF s, t, u

(* The beginning of bytes, and what comes after it.                         *)
LEMMA TakeOfBytes ==
  ASSUME NEW first \in Nat, NEW count \in Nat, NEW n \in Nat
  PROVE  Take(Bytes(first, count), n) = Bytes(first, IF n <= count THEN n ELSE count)
<1>1. PICK k \in Nat : k = IF n <= count THEN n ELSE count
  OBVIOUS
<1>2. Len(Bytes(first, count)) = count
  BY BytesType
<1>3. Min({n, count}) = k
  BY <1>1, MinOfTwo
<1>4. SubSeq(Bytes(first, count), 1, k) = Bytes(first, k)
  BY <1>1, StretchOfBytes
<1>5. Take(Bytes(first, count), n) = SubSeq(Bytes(first, count), 1, k)
  BY ONLY <1>2, <1>3, Zenon DEF Take
<1> QED BY ONLY <1>1, <1>4, <1>5, Zenon

LEMMA DropOfBytes ==
  ASSUME NEW first \in Nat, NEW count \in Nat, NEW n \in Nat
  PROVE  /\ n <= count => Drop(Bytes(first, count), n) = Bytes(first + n, count - n)
         /\ n > count => Drop(Bytes(first, count), n) = <<>>
<1>1. Len(Bytes(first, count)) = count
  BY BytesType
<1>2. CASE n <= count
  <2>1. PICK lo \in Nat, hi \in Nat, from \in Nat, rest \in Nat :
          lo = n + 1 /\ hi = count /\ from = first + n /\ rest = count - n
    BY <1>2
  <2>2. lo + first = from + 1 /\ hi + 1 = lo + rest /\ first <= from /\ hi <= count
    BY <2>1
  <2>3. SubSeq(Bytes(first, count), lo, hi) = Bytes(from, rest)
    BY <2>1, <2>2, StretchOfBytes
  <2> QED BY <1>1, <1>2, <2>1, <2>3 DEF Drop
<1>3. CASE n > count
  <2>1. PICK lo \in Int, hi \in Int : lo = n + 1 /\ hi = count /\ hi < lo
    BY <1>3
  <2>2. SubSeq(Bytes(first, count), lo, hi) = <<>>
    BY ONLY <2>1, SubSeqEmpty
  <2> QED BY <1>1, <1>3, <2>1, <2>2 DEF Drop
<1> QED BY <1>2, <1>3

(* No bytes are the empty sequence.                                         *)
LEMMA BytesEmpty ==
  ASSUME NEW first \in Nat
  PROVE  Bytes(first, 0) = <<>>
BY BytesType, EmptySeq

-----------------------------------------------------------------------------
(* Moving inside the buffer keeps it around the position.                   *)
LEMMA MovedInside ==
  ASSUME NEW h, HTTPFileInv(h), NEW d \in Int,
         -h.pos <= d, d <= Len(h.buffer) - h.pos
  PROVE  HTTPFileInv([h EXCEPT !.pos = @ + d, !.position = @ + d])
<1> DEFINE g == [h EXCEPT !.pos = @ + d, !.position = @ + d]
<1>1. h \in FileType /\ h.pos <= h.position /\ h.pos <= Len(h.buffer)
      /\ h.buffer = Bytes(h.position - h.pos, Len(h.buffer))
  BY DEF HTTPFileInv
<1>2. h.pos \in Nat /\ h.position \in Nat /\ h.buffer \in Seq(Nat) /\ Len(h.buffer) \in Nat
  BY <1>1 DEF FileType
<1>3. g.pos = h.pos + d /\ g.position = h.position + d /\ g.buffer = h.buffer
  BY <1>1 DEF FileType
<1>4. h.pos + d \in Nat /\ h.position + d \in Nat
  BY <1>1, <1>2
<1>5. g \in FileType
  BY <1>1, <1>4 DEF FileType
<1>6. (h.position + d) - (h.pos + d) = h.position - h.pos
      /\ h.pos + d <= h.position + d /\ h.pos + d <= Len(h.buffer)
  BY <1>1, <1>2
<1> HIDE DEF g
<1>7. HTTPFileInv(g)
  BY <1>1, <1>3, <1>5, <1>6 DEF HTTPFileInv
<1> QED BY <1>7 DEF g

(* What is received at the position: the reader takes what it still wants,  *)
(* and the buffer goes on from there (curl_data_cb).                        *)
ReceivedInv(h, c, rem, n) ==
  LET r == Received(h, Bytes(h.position, c), rem)
  IN  /\ HTTPFileInv(r.http)
      /\ r.data = Bytes(h.position, n) /\ Len(r.data) = n
      /\ r.http.position = h.position + n
      /\ c >= rem => n = rem

LEMMA ReceivedFollows ==
  ASSUME NEW h, HTTPFileInv(h), NEW c \in Nat, NEW rem \in Nat
  PROVE  \E n \in 0 .. rem : ReceivedInv(h, c, rem, n)
<1> DEFINE r == Received(h, Bytes(h.position, c), rem)
<1>0. PICK n \in Nat : n = IF rem <= c THEN rem ELSE c
  OBVIOUS
<1> DEFINE data == Bytes(h.position, c)
           rest == Take(Drop(data, rem), BufferAllocSize)
<1>1. h.position \in Nat /\ n \in Nat /\ h.position + n \in Nat
  BY DEF HTTPFileInv, FileType
<1>2. Take(data, rem) = Bytes(h.position, n) /\ Len(Take(data, rem)) = n
  <2>1. Take(data, rem) = Bytes(h.position, n)
    BY <1>0, <1>1, TakeOfBytes
  <2>2. Len(Bytes(h.position, n)) = n
    BY <1>1, BytesType
  <2> QED BY ONLY <2>1, <2>2
<1>3. BufferAllocSize \in Nat
  BY HTTPAssumption
<1>4. \E m \in Nat : rest = Bytes(h.position + n, m)
  <2>1. CASE rem <= c
    <3>1. n = rem /\ c - rem \in Nat
      BY <1>0, <2>1
    <3>2. Drop(data, rem) = Bytes(h.position + rem, c - rem)
      BY <1>1, <2>1, DropOfBytes
    <3>3. Take(Bytes(h.position + rem, c - rem), BufferAllocSize)
            = Bytes(h.position + rem, IF BufferAllocSize <= c - rem THEN BufferAllocSize ELSE c - rem)
      BY <1>1, <1>3, <3>1, TakeOfBytes
    <3>4. (IF BufferAllocSize <= c - rem THEN BufferAllocSize ELSE c - rem) \in Nat
      BY <1>3, <3>1
    <3> QED BY <3>1, <3>2, <3>3, <3>4
  <2>2. CASE rem > c
    <3>1. Drop(data, rem) = <<>>
      <4>1. \A p \in Nat : Drop(Bytes(p, c), rem) = <<>>
        BY <2>2, DropOfBytes
      <4> QED BY <1>1, <4>1
    <3>2. <<>> = Bytes(h.position + n, 0)
      BY <1>1, BytesEmpty
    <3>3. Take(Bytes(h.position + n, 0), BufferAllocSize)
            = Bytes(h.position + n, IF BufferAllocSize <= 0 THEN BufferAllocSize ELSE 0)
      BY <1>1, <1>3, TakeOfBytes
    <3>4. (IF BufferAllocSize <= 0 THEN BufferAllocSize ELSE 0) \in Nat
      BY <1>3
    <3> QED BY <3>1, <3>2, <3>3, <3>4
  <2> QED BY <2>1, <2>2
<1>5. /\ r.http = [position |-> h.position + n, pos |-> 0, buffer |-> rest]
      /\ r.data = Bytes(h.position, n) /\ Len(r.data) = n
  BY <1>2 DEF Received
<1> HIDE DEF rest
<1>6. /\ rest \in Seq(Nat) /\ Len(rest) \in Nat /\ rest = Bytes(h.position + n, Len(rest))
  <2>1. PICK m \in Nat : rest = Bytes(h.position + n, m)
    BY <1>4
  <2>2. rest \in Seq(Nat) /\ Len(rest) = m
    BY <1>1, <2>1, BytesType
  <2> QED BY <2>1, <2>2
<1>7. h.position + n - 0 = h.position + n /\ 0 <= h.position + n /\ 0 <= Len(rest)
  BY <1>1, <1>6
<1>8. HTTPFileInv(r.http)
  BY <1>1, <1>5, <1>6, <1>7 DEF HTTPFileInv, FileType
<1>9. ReceivedInv(h, c, rem, n)
  BY <1>0, <1>5, <1>8 DEF ReceivedInv
<1> QED BY <1>0, <1>9

(* A request brings no more than the file has, and at least nothing; the    *)
(* transfer that fails to be written brings all that was asked for.         *)
LEMMA AnswersType ==
  ASSUME NEW first \in Nat, NEW rem \in Nat, NEW a \in Answers(first, rem)
  PROVE  a.count \in Nat /\ (a.code = "write" => a.count >= rem)
<1>1. HTTPSize \in Nat /\ BufferAllocSize \in Nat
  BY HTTPAssumption
<1>2. \A c \in Nat : RangeSize(c) \in Nat
  BY <1>1 DEF RangeSize
<1>3. Sent(first, rem) \in Nat
  <2>1. Max({0, HTTPSize - first}) \in Nat
    BY <1>1, MaxOfTwo
  <2>2. \A x, y \in Nat : Min({x, y}) \in Nat
    BY MinOfTwo
  <2> QED BY <1>2, <2>1, <2>2 DEF Sent
<1>4. \/ a = [count |-> 0, code |-> "error"]
      \/ a = [count |-> Sent(first, rem),
              code  |-> IF Sent(first, rem) <= rem + BufferAllocSize THEN "ok" ELSE "write"]
      \/ \E n \in 0 .. Min({Sent(first, rem), rem + BufferAllocSize}) :
           \/ a = [count |-> n, code |-> "http2"]
           \/ a = [count |-> n, code |-> "partial"]
  BY Zenon DEF Answers
<1>5. Min({Sent(first, rem), rem + BufferAllocSize}) \in Nat
  BY <1>1, <1>3, MinOfTwo
<1> QED BY <1>1, <1>3, <1>4, <1>5

(* One request of a read: it delivers the bytes from the position, leaves   *)
(* the file behind them and says how many; if the server sent too much they *)
(* are all that was asked for, and none is returned but at the file's start.*)
Delivers(h, count, r, n) ==
  /\ HTTPFileInv(r.http)
  /\ r.http.position = h.position + n
  /\ r.data = Bytes(h.position, n)
  /\ r.code # "write" => r.result = n
  /\ r.code = "write" => n = count /\ (r.result = 0 \/ (h.position = 0 /\ r.result = n))

LEMMA HTTPReadsDeliver ==
  ASSUME NEW h, HTTPFileInv(h), NEW count \in Nat, NEW r \in HTTPReads(h, count)
  PROVE  \E n \in 0 .. count : Delivers(h, count, r, n)
<1> DEFINE ahead == Take(Drop(h.buffer, h.pos), count)
           rem == count - Len(ahead)
           there == [h EXCEPT !.pos = @ + Len(ahead), !.position = @ + Len(ahead)]
<1>1. /\ h.position \in Nat /\ h.pos \in Nat /\ h.buffer \in Seq(Nat) /\ Len(h.buffer) \in Nat
      /\ h.pos <= h.position /\ h.pos <= Len(h.buffer)
      /\ h.buffer = Bytes(h.position - h.pos, Len(h.buffer))
      /\ h \in FileType
  BY DEF HTTPFileInv, FileType
<1>2. PICK k \in Nat : /\ ahead = Bytes(h.position, k) /\ Len(ahead) = k
                       /\ k <= count /\ h.pos + k <= Len(h.buffer)
  <2>1. PICK from \in Nat, left \in Nat :
          from = h.position - h.pos /\ left = Len(h.buffer) - h.pos
    BY <1>1
  <2>2. from + h.pos = h.position /\ Len(h.buffer) - h.pos = left
    BY <1>1, <2>1
  <2>3. Drop(h.buffer, h.pos) = Bytes(h.position, left)
    <3>1. Drop(Bytes(from, Len(h.buffer)), h.pos) = Bytes(from + h.pos, Len(h.buffer) - h.pos)
      BY <1>1, DropOfBytes
    <3> QED BY <1>1, <2>1, <2>2, <3>1
  <2>4. PICK k \in Nat : k = IF count <= left THEN count ELSE left
    OBVIOUS
  <2>5. ahead = Bytes(h.position, k)
    BY <1>1, <2>3, <2>4, TakeOfBytes
  <2>6. Len(ahead) = k
    <3>1. Len(Bytes(h.position, k)) = k
      BY <1>1, BytesType
    <3> QED BY ONLY <2>5, <3>1
  <2>7. k <= count /\ h.pos + k <= Len(h.buffer)
    BY <1>1, <2>1, <2>4
  <2> QED BY <2>5, <2>6, <2>7
<1>3. rem = count - k /\ rem \in Nat
  BY <1>2
<1>4. HTTPFileInv(there) /\ there.position = h.position + k
  <2>1. HTTPFileInv([h EXCEPT !.pos = @ + k, !.position = @ + k])
    <3>1. k \in Int /\ -h.pos <= k /\ k <= Len(h.buffer) - h.pos
      BY <1>1, <1>2
    <3> QED BY <3>1, MovedInside
  <2>2. there = [h EXCEPT !.pos = @ + k, !.position = @ + k]
    BY <1>2
  <2>3. there.position = h.position + k
    BY <1>1, <2>2 DEF FileType
  <2> QED BY <2>1, <2>2, <2>3
<1>5. CASE rem = 0
  <2>1. r = [http |-> there, data |-> ahead, result |-> count, code |-> "ok"]
    BY <1>5 DEF HTTPReads
  <2>2. r.http = there /\ r.data = ahead /\ r.result = count /\ count = k /\ r.code # "write"
    BY <1>2, <1>3, <1>5, <2>1
  <2> HIDE DEF ahead, there
  <2>3. Delivers(h, count, r, k)
    BY <1>2, <1>4, <2>2 DEF Delivers
  <2> QED BY <1>2, <2>3
<1>6. CASE rem # 0
  <2>1. PICK a \in Answers(there.position, rem) :
          LET d == Received(there, Bytes(there.position, a.count), rem)
          IN  r = [http |-> d.http, data |-> ahead \o d.data, code |-> a.code,
                   result |-> IF a.code = "write" /\ there.position # 0 THEN 0
                              ELSE Len(ahead) + Len(d.data)]
    BY <1>6, Zenon DEF HTTPReads
  <2> DEFINE d == Received(there, Bytes(there.position, a.count), rem)
  <2> HIDE DEF ahead, there, d, rem
  <2>2. there.position \in Nat /\ a.count \in Nat /\ (a.code = "write" => a.count >= rem)
    <3>1. there.position \in Nat
      BY <1>1, <1>4
    <3> QED BY <1>3, <3>1, AnswersType
  <2>3. PICK m \in 0 .. rem : ReceivedInv(there, a.count, rem, m)
    BY ONLY <1>3, <1>4, <2>2, ReceivedFollows, Zenon
  <2>4. /\ HTTPFileInv(d.http)
        /\ d.data = Bytes(there.position, m) /\ Len(d.data) = m
        /\ d.http.position = there.position + m
        /\ a.count >= rem => m = rem
    BY <2>3, Zenon DEF d, ReceivedInv
  <2>5. /\ r.http = d.http /\ r.data = ahead \o d.data /\ r.code = a.code
        /\ r.result = IF a.code = "write" /\ there.position # 0 THEN 0 ELSE Len(ahead) + Len(d.data)
    BY <2>1 DEF d
  <2>6. r.data = Bytes(h.position, k + m)
    <3>1. Bytes(h.position, k) \o Bytes(h.position + k, m) = Bytes(h.position, k + m)
      <4>1. h.position \in Nat /\ k \in Nat /\ m \in Nat
        BY <1>1, <1>3
      <4> QED BY ONLY <4>1, ConcatOfBytes, Zenon
    <3> QED BY <1>2, <1>4, <2>4, <2>5, <3>1
  <2>7. k + m \in 0 .. count
    BY <1>2, <1>3, <2>2, <2>3
  <2>8. r.http.position = h.position + (k + m)
    BY <1>1, <1>4, <2>4, <2>5
  <2>9. r.code # "write" => r.result = k + m
    BY <1>2, <2>4, <2>5
  <2>10. ASSUME r.code = "write"
         PROVE  k + m = count /\ (r.result = 0 \/ (h.position = 0 /\ r.result = k + m))
    <3>1. k + m = count
      BY <1>3, <2>2, <2>4, <2>5, <2>10
    <3>2. there.position = 0 => h.position = 0
      BY <1>1, <1>4
    <3> QED BY <1>2, <2>4, <2>5, <2>10, <3>1, <3>2
  <2>11. Delivers(h, count, r, k + m)
    BY <2>4, <2>5, <2>6, <2>8, <2>9, <2>10 DEF Delivers
  <2> QED BY <2>7, <2>11
<1> QED BY <1>5, <1>6

LEMMA HTTPReadsRecord ==
  ASSUME NEW h, NEW count, NEW r \in HTTPReads(h, count)
  PROVE  r = [http |-> r.http, data |-> r.data, result |-> r.result, code |-> r.code]
<1>1. \E a, b, c, d : r = [http |-> a, data |-> b, result |-> c, code |-> d]
  BY Zenon DEF HTTPReads
<1> QED BY <1>1

(* A seek, inside the buffer or not, leaves the file at the position.       *)
LEMMA SoughtInv ==
  ASSUME NEW h, HTTPFileInv(h), NEW to \in Nat
  PROVE  HTTPFileInv(HTTPSought(h, to)) /\ HTTPSought(h, to).position = to
<1>1. /\ h.position \in Nat /\ h.pos \in Nat /\ h.buffer \in Seq(Nat) /\ Len(h.buffer) \in Nat
      /\ h \in FileType
  BY DEF HTTPFileInv, FileType
<1>2. PICK d \in Int : d = to - h.position
  BY <1>1
<1>3. CASE d = 0
  BY <1>1, <1>2, <1>3 DEF HTTPSought
<1>4. CASE d # 0 /\ h.buffer # <<>> /\ -h.pos <= d /\ d < Len(h.buffer) - h.pos
  <2>1. HTTPSought(h, to) = [h EXCEPT !.pos = @ + d, !.position = to]
    BY <1>2, <1>4 DEF HTTPSought
  <2>2. to = h.position + d
    BY <1>1, <1>2
  <2>3. HTTPSought(h, to) = [h EXCEPT !.pos = @ + d, !.position = @ + d]
    BY <2>1, <2>2
  <2>4. -h.pos <= d /\ d <= Len(h.buffer) - h.pos
    BY <1>1, <1>4
  <2>5. HTTPFileInv([h EXCEPT !.pos = @ + d, !.position = @ + d])
    BY <2>4, MovedInside
  <2> QED BY <1>1, <2>1, <2>3, <2>5 DEF FileType
<1>5. CASE d # 0 /\ ~(h.buffer # <<>> /\ -h.pos <= d /\ d < Len(h.buffer) - h.pos)
  <2>1. HTTPSought(h, to) = [position |-> to, pos |-> 0, buffer |-> <<>>]
    BY <1>2, <1>5 DEF HTTPSought
  <2>2. Bytes(to, 0) = <<>> /\ <<>> \in Seq(Nat) /\ Len(<<>>) = 0
    BY BytesEmpty, EmptySeq
  <2>3. to - 0 = to
    OBVIOUS
  <2> QED BY <2>1, <2>2, <2>3 DEF HTTPFileInv, FileType
<1> QED BY <1>3, <1>4, <1>5

(* What the reader gets from the two requests of a read that was retried,   *)
(* the first of which had delivered nothing: what the second delivered.     *)
LEMMA OverNothing ==
  ASSUME NEW data \in Seq(Nat)
  PROVE  Over(data, <<>>) = data
<1>1. Drop(<<>>, Len(data)) = <<>>
  <2>1. PICK lo \in Int, hi \in Int : lo = Len(data) + 1 /\ hi = Len(<<>>) /\ hi < lo
    BY EmptySeq
  <2>2. SubSeq(<<>>, lo, hi) = <<>>
    BY ONLY <2>1, SubSeqEmpty
  <2> QED BY <2>1, <2>2 DEF Drop
<1> QED BY <1>1, ConcatEmptySeq DEF Over

-----------------------------------------------------------------------------
(* A file whose buffer surrounds the position goes on from there.           *)
LEMMA BufferFollows ==
  ASSUME NEW h, HTTPFileInv(h)
  PROVE  Drop(h.buffer, h.pos) = Bytes(h.position, Len(h.buffer) - h.pos)
<1>1. /\ h.position \in Nat /\ h.pos \in Nat /\ h.buffer \in Seq(Nat) /\ Len(h.buffer) \in Nat
      /\ h.pos <= h.position /\ h.pos <= Len(h.buffer)
      /\ h.buffer = Bytes(h.position - h.pos, Len(h.buffer))
  BY DEF HTTPFileInv, FileType
<1>2. PICK from \in Nat : from = h.position - h.pos
  BY <1>1
<1>3. Drop(Bytes(from, Len(h.buffer)), h.pos) = Bytes(from + h.pos, Len(h.buffer) - h.pos)
  BY <1>1, DropOfBytes
<1>4. from + h.pos = h.position
  BY <1>1, <1>2
<1> QED BY <1>1, <1>2, <1>3, <1>4

LEMMA HTTPReadKeepsInv ==
  ASSUME HTTPInv, HTTPRead
  PROVE  HTTPInv'
<1> USE DEF HTTPInv
<1>0. PICK count \in HTTPCounts : \E first \in HTTPReads(http, count) :
        LET again == first.result < count /\ first.code = "http2"
        IN  \E r \in (IF again THEN Retries(first, count) ELSE {first}) :
              /\ http' = r.http
              /\ httpRead' = [from |-> http.position, count |-> count,
                              before |-> IF again THEN first.result ELSE 0,
                              result |-> r.result, data |-> r.data, code |-> r.code]
  BY DEF HTTPRead
<1>1. PICK first \in HTTPReads(http, count) :
        LET again == first.result < count /\ first.code = "http2"
        IN  \E r \in (IF again THEN Retries(first, count) ELSE {first}) :
              /\ http' = r.http
              /\ httpRead' = [from |-> http.position, count |-> count,
                              before |-> IF again THEN first.result ELSE 0,
                              result |-> r.result, data |-> r.data, code |-> r.code]
  BY <1>0
<1>2. count \in Nat
  BY HTTPAssumption
<1>3. PICK n \in 0 .. count : Delivers(http, count, first, n)
  BY <1>2, HTTPReadsDeliver
<1>4. http.position \in Nat /\ n \in Nat
  BY <1>3 DEF HTTPFileInv, FileType
<1> DEFINE again == first.result < count /\ first.code = "http2"
           received == http'.position - http.position
<1>5. CASE ~again
  <2>1. /\ http' = first.http
        /\ httpRead'.from = http.position /\ httpRead'.count = count /\ httpRead'.before = 0
        /\ httpRead'.result = first.result
        /\ httpRead'.data = first.data /\ httpRead'.code = first.code
    BY <1>1, <1>5
  <2>2. HTTPFileInv(http)'
    BY <1>3, <2>1 DEF Delivers, HTTPFileInv
  <2>3. received = n
    BY <1>3, <1>4, <2>1 DEF Delivers
  <2>4. first.data = Bytes(http.position, received)
    BY <1>3, <2>3 DEF Delivers
  <2>5. /\ first.code # "write" => first.result = received
        /\ first.code = "write" =>
             received = count /\ (first.result = 0 \/ (http.position = 0 /\ first.result = count))
    BY <1>3, <2>3 DEF Delivers
  <2>6. HTTPReadsTrue'
    BY <2>1, <2>2, <2>4, <2>5, BufferFollows DEF HTTPReadsTrue
  <2> QED BY <2>2, <2>6
<1>6. CASE again
  <2>1. PICK s \in HTTPReads(first.http, count - first.result) :
          /\ http' = s.http
          /\ httpRead'.from = http.position /\ httpRead'.count = count
          /\ httpRead'.before = first.result /\ httpRead'.result = s.result + first.result
          /\ httpRead'.data = Over(s.data, first.data) /\ httpRead'.code = s.code
    <3>1. PICK r \in Retries(first, count) :
            /\ http' = r.http
            /\ httpRead' = [from |-> http.position, count |-> count, before |-> first.result,
                            result |-> r.result, data |-> r.data, code |-> r.code]
      BY <1>1, <1>6
    <3>2. PICK s \in HTTPReads(first.http, count - first.result) :
            r = [s EXCEPT !.data = Over(@, first.data), !.result = @ + first.result]
      BY Zenon DEF Retries
    <3>3. s = [http |-> s.http, data |-> s.data, result |-> s.result, code |-> s.code]
      BY HTTPReadsRecord, Zenon
    <3>4. /\ r.http = s.http /\ r.data = Over(s.data, first.data)
          /\ r.result = s.result + first.result /\ r.code = s.code
      BY <3>2, <3>3
    <3> QED BY <3>1, <3>4
  <2>2. first.result = n /\ count - first.result \in Nat
    <3>1. first.result = n
      BY <1>3, <1>6 DEF Delivers
    <3> QED BY <1>2, <1>4, <3>1
  <2>3. /\ HTTPFileInv(first.http) /\ first.http.position = http.position + n
        /\ first.data = Bytes(http.position, n)
    BY <1>3 DEF Delivers
  <2>4. PICK m \in 0 .. (count - first.result) : Delivers(first.http, count - first.result, s, m)
    BY ONLY s \in HTTPReads(first.http, count - first.result), <2>2, <2>3, HTTPReadsDeliver, Zenon
  <2>5. m \in Nat /\ received = n + m /\ s.data = Bytes(http.position + n, m)
    BY <1>4, <2>1, <2>2, <2>3, <2>4 DEF Delivers
  <2>6. HTTPFileInv(http)'
    BY <2>1, <2>4 DEF Delivers, HTTPFileInv
  <2>7. n = 0 => Over(s.data, first.data) = Bytes(http.position, received)
    <3>1. ASSUME n = 0
          PROVE  Over(s.data, first.data) = Bytes(http.position, received)
      <4>1. first.data = <<>>
        BY <1>4, <2>3, <3>1, BytesEmpty
      <4>2. s.data = Bytes(http.position, received) /\ received \in Nat
        BY <1>4, <2>5, <3>1
      <4>3. s.data \in Seq(Nat)
        BY <1>4, <4>2, BytesType
      <4> QED BY <4>1, <4>2, <4>3, OverNothing
    <3> QED BY <3>1
  <2>8. Over(s.data, first.data) = Over(Bytes(http.position + n, received - n), Bytes(http.position, n))
    <3>1. received - n = m
      BY <1>4, <2>5
    <3> QED BY <2>3, <2>5, <3>1
  <2>9. s.code # "write" => s.result + first.result = received
    BY <1>4, <2>2, <2>4, <2>5 DEF Delivers
  <2>10. ASSUME s.code = "write"
         PROVE  /\ received = count
                /\ \/ s.result + first.result = first.result
                   \/ http.position = 0 /\ s.result + first.result = count
    <3>1. /\ m = count - n
          /\ s.result = 0 \/ (first.http.position = 0 /\ s.result = m)
      BY <2>2, <2>4, <2>10 DEF Delivers
    <3>2. received = count
      BY <1>2, <1>4, <2>5, <3>1
    <3>3. CASE s.result = 0
      BY <1>4, <2>2, <3>2, <3>3
    <3>4. CASE first.http.position = 0 /\ s.result = m
      BY <1>4, <2>2, <2>3, <2>5, <3>2, <3>4
    <3> QED BY <3>1, <3>3, <3>4
  <2>11. HTTPReadsTrue'
    <3> HIDE DEF received
    <3>1. received = http'.position - httpRead'.from
      BY <2>1 DEF received
    <3>2. /\ httpRead'.before = 0 => httpRead'.data = Bytes(httpRead'.from, received)
          /\ httpRead'.data = Over(Bytes(httpRead'.from + httpRead'.before,
                                         received - httpRead'.before),
                                   Bytes(httpRead'.from, httpRead'.before))
      BY <2>1, <2>2, <2>7, <2>8
    <3>3. /\ httpRead'.code # "write" => httpRead'.result = received
          /\ httpRead'.code = "write" =>
               /\ received = httpRead'.count
               /\ \/ httpRead'.result = httpRead'.before
                  \/ httpRead'.from = 0 /\ httpRead'.result = httpRead'.count
      BY <2>1, <2>9, <2>10
    <3>4. Drop(http'.buffer, http'.pos) = Bytes(http'.position, Len(http'.buffer) - http'.pos)
      BY <2>1, <2>4, BufferFollows DEF Delivers
    <3> QED BY <3>1, <3>2, <3>3, <3>4 DEF HTTPReadsTrue
  <2> QED BY <2>6, <2>11
<1> QED BY <1>5, <1>6

(* No read since the position was sought.                                   *)
LEMMA NoReadTrue ==
  ASSUME NEW to \in Nat
  PROVE  /\ NoRead(to).data = Bytes(to, 0) /\ NoRead(to).from = to
         /\ NoRead(to).before = 0 /\ NoRead(to).result = 0 /\ NoRead(to).code = "ok"
BY BytesEmpty DEF NoRead

LEMMA HTTPSeekKeepsInv ==
  ASSUME HTTPInv, HTTPSeek
  PROVE  HTTPInv'
<1>1. PICK to \in 0 .. HTTPSize :
        /\ http' = HTTPSought(http, to)
        /\ httpRead' = NoRead(to)
  BY DEF HTTPSeek
<1>2. to \in Nat
  BY HTTPAssumption
<1>3. HTTPFileInv(http)' /\ http'.position = to
  <2>1. HTTPFileInv(HTTPSought(http, to)) /\ HTTPSought(http, to).position = to
    BY <1>2, SoughtInv DEF HTTPInv
  <2> QED BY <1>1, <2>1 DEF HTTPFileInv
<1>4. http'.position - to = 0
  BY <1>2, <1>3
<1>5. HTTPReadsTrue'
  BY <1>1, <1>2, <1>3, <1>4, NoReadTrue, BufferFollows DEF HTTPReadsTrue
<1> QED BY <1>3, <1>5 DEF HTTPInv

LEMMA HTTPInitInv ==
  ASSUME HTTPInit
  PROVE  HTTPInv
<1>1. http = NoBytes /\ httpRead = NoRead(0)
  BY DEF HTTPInit
<1>2. Bytes(0, 0) = <<>> /\ <<>> \in Seq(Nat) /\ Len(<<>>) = 0 /\ 0 - 0 = 0
  BY BytesEmpty, EmptySeq
<1>3. HTTPFileInv(http)
  BY <1>1, <1>2 DEF HTTPFileInv, FileType, NoBytes
<1>4. http.position - 0 = 0
  BY <1>1 DEF NoBytes
<1>5. HTTPReadsTrue
  BY <1>1, <1>3, <1>4, NoReadTrue, BufferFollows DEF HTTPReadsTrue
<1> QED BY <1>3, <1>5 DEF HTTPInv

(* Wherever the reader seeks, the position is behind the bytes received,    *)
(* and a read returns them, but that what comes after an HTTP/2 error lies  *)
(* over the start of what came before it, and that a server that sends too  *)
(* much is answered as HTTPReadsTrue says: for a file, a buffer and reads   *)
(* of any size (http_file_read, http_file_seek and curl_data_cb).           *)
THEOREM HTTPFileReadsTrue == HTTPSpec => []HTTPReadsTrue
<1>1. HTTPInit => HTTPInv
  BY HTTPInitInv
<1>2. HTTPInv /\ [HTTPNext]_httpVars => HTTPInv'
  <2>1. ASSUME HTTPInv, UNCHANGED httpVars PROVE HTTPInv'
    BY <2>1 DEF HTTPInv, HTTPFileInv, HTTPReadsTrue, httpVars
  <2> QED BY <2>1, HTTPReadKeepsInv, HTTPSeekKeepsInv DEF HTTPNext
<1>3. HTTPInv => HTTPReadsTrue
  BY DEF HTTPInv
<1> QED BY <1>1, <1>2, <1>3, PTL DEF HTTPSpec

(***************************************************************************)
(* The essence reader.                                                     *)
(***************************************************************************)
(* What the theorems suppose: the complete files are well formed.           *)
CompleteFiles == \A f \in Files : f.complete => WellFormed(f)

(* What never changes for a complete file.                                  *)
TablesInv ==
  /\ file \in Files /\ file.complete /\ available = file.length
  /\ chunks = [CreateEssenceChunkIndex(file) EXCEPT !.last = chunks.last]
  /\ index = [Opened(file) EXCEPT !.last = index.last]
  /\ chunks.last \in Nat /\ (chunks.chunks # <<>> => chunks.last \in DOMAIN chunks.chunks)
  /\ index.last \in Nat /\ (index.segments # <<>> => index.last \in DOMAIN index.segments)
  /\ limits = [start |-> 0, duration |-> file.packages]

KnownType == [base : Int, pos : Int]
ReaderType ==
  [position : Nat, base : Int, filePosition : Int, nextKey : Nat, atStart : BOOLEAN,
   startKey : BOOLEAN, known : KnownType, haveFooter : BOOLEAN, complete : BOOLEAN,
   readError : BOOLEAN]

(* The reader is at the start of a package only to read it, and never has   *)
(* met the next one already.                                                *)
ReaderInv ==
  /\ reader \in ReaderType
  /\ reader.complete /\ reader.haveFooter /\ reader.nextKey = 0 /\ ~reader.readError
  /\ reader.known.base >= 0 =>
       reader.known.base < file.packages /\ reader.known.pos = file.starts[reader.known.base + 1]
  /\ reader.atStart <=> call.pc \in {"open", "first"}
  /\ reader.atStart =>
       /\ reader.base = reader.position /\ reader.filePosition = pos
       /\ pos = file.starts[reader.base + 1]

(* Nothing is kept.                                                         *)
NoFrames(b) == b = [start |-> b.start, frames |-> <<>>, current |-> 0, keep |-> FALSE]
OneFrame(b, n) == b = [start |-> b.start, frames |-> <<NewFrame(n)>>, current |-> 0, keep |-> FALSE]
BufferInv == IF At("idle") THEN NoFrames(buffer) ELSE OneFrame(buffer, call.requested)

CallType ==
  [pc : {"idle", "seek", "open", "first", "rest", "ended", "done"}, mode : {"none", "read"}, start : Nat,
   requested : Nat, count : Nat, read : Nat, from : Int, base : Int, taken : Nat, size : Nat,
   content : Seq(DOMAIN file.items)]

(* k items of the essence of package p are before a position in the file.   *)
Passed(p, k, at) ==
  \A j \in DOMAIN file.content[p] : j <= k <=> file.items[file.content[p][j]].at < at

(* The content of the packages that were read.                              *)
PackagesRead == PackagesFrom(call.start, call.read)

CallInv ==
  /\ call \in CallType
  /\ At("idle") => call = NoCall
  /\ ~At("idle") =>
       /\ call.requested >= 1 /\ call.start < file.packages
       /\ call.count = Min({call.requested, file.packages - call.start})
       /\ reader.position = call.start + call.read
       /\ PackagesRead \in Seq(DOMAIN file.items)
  /\ call.pc \in {"seek", "open", "first", "done"} => call.content = PackagesRead
  /\ At("done") => call.read = call.count
  /\ call.pc \in {"seek", "open", "first", "rest", "ended"} => call.read < call.count

(* In a package, the reader is where an item begins, or at its end, and has *)
(* taken the essence before.                                                *)
PackageInv ==
  /\ call.pc \in {"first", "rest", "ended"} =>
       /\ call.mode = "read" /\ call.size = PackageSize(file, reader.position + 1)
       /\ pos = file.starts[reader.position + 1] + call.taken
       /\ call.taken <= call.size
       /\ At("first") <=> call.taken = 0
       /\ At("ended") => call.taken = call.size
       /\ call.taken < call.size => file.itemAt[pos] \in DOMAIN file.items
       /\ \E k \in 0 .. Len(file.content[reader.position + 1]) :
            /\ Passed(reader.position + 1, k, pos)
            /\ call.content = PackagesRead \o SubSeq(file.content[reader.position + 1], 1, k)

(* No read has failed.                                                      *)
ResultInv == result.ok = TRUE /\ FramesFromTheirPosition

WholeFileInv == TablesInv /\ ReaderInv /\ BufferInv /\ CallInv /\ PackageInv /\ ResultInv

-----------------------------------------------------------------------------
(* A set of numbers that is not empty has a least one.                      *)
LEMMA LeastNumber ==
  ASSUME NEW T \in SUBSET Nat, T # {}
  PROVE  \E m \in T : \A k \in T : m <= k
<1> DEFINE R == OpToRel(<, Nat)
<1>1. IsWellFoundedOn(R, Nat)
  BY NatLessThanWellFounded
<1>2. \A k, m \in Nat : k < m => <<k, m>> \in R
  BY DEF OpToRel
<1> HIDE DEF R
<1>3. PICK m \in T : \A k \in T : ~ (<<k, m>> \in R)
  BY <1>1, WFMin
<1>4. \A k \in T : ~(k < m)
  BY <1>2, <1>3
<1> QED BY <1>4

Joined(a, b) == a \o b

(* f[i] is what the first i lists of s hold, one after the other.           *)
Flattens(f, s, n) ==
  f = [i \in 1 .. n |-> IF i = 1 THEN s[i] ELSE Joined(f[i - 1], s[i])]

(* From one list to the next.                                               *)
LEMMA FlattensAt ==
  ASSUME NEW f, NEW s, NEW n \in Nat, Flattens(f, s, n)
  PROVE  /\ n > 0 => f[1] = s[1]
         /\ \A i \in 2 .. n : f[i] = Joined(f[i - 1], s[i])
  BY DEF Flattens

(* There is such a function for every n.                                    *)
LEMMA FlattensMore ==
  ASSUME NEW f, NEW s, NEW n \in Nat, Flattens(f, s, n)
  PROVE  \E g : Flattens(g, s, n + 1)
<1> DEFINE x == IF n = 0 THEN s[1] ELSE Joined(f[n], s[n + 1])
           g == [i \in 1 .. n + 1 |-> IF i <= n THEN f[i] ELSE x]
           h == [i \in 1 .. n + 1 |-> IF i = 1 THEN s[i] ELSE Joined(g[i - 1], s[i])]
<1>1. ASSUME NEW i \in 1 .. n + 1 PROVE g[i] = IF i = 1 THEN s[i] ELSE Joined(g[i - 1], s[i])
  <2>1. CASE i <= n
    <3>1. g[i] = f[i] /\ (i # 1 => g[i - 1] = f[i - 1])
      BY <2>1
    <3>2. i # 1 => i \in 2 .. n
      BY <2>1
    <3> QED BY <2>1, <3>1, <3>2, FlattensAt
  <2>2. CASE i = n + 1
    <3>1. g[i] = x /\ (i # 1 => g[i - 1] = f[n] /\ n # 0)
      BY <2>2
    <3> QED BY <2>2, <3>1
  <2> QED BY <2>1, <2>2
<1>2. g = h
  BY <1>1
<1> HIDE DEF x
<1>3. Flattens(g, s, n + 1)
  BY <1>2 DEF Flattens
<1> QED BY <1>3

LEMMA FlattensSome ==
  ASSUME NEW s, NEW n \in Nat
  PROVE  \E f : Flattens(f, s, n)
<1> DEFINE T == {k \in Nat : ~\E f : Flattens(f, s, k)}
<1>1. SUFFICES ASSUME T # {} PROVE FALSE
  OBVIOUS
<1>2. PICK m \in T : \A k \in T : m <= k
  BY <1>1, LeastNumber
<1>3. CASE m = 0
  <2>1. PICK f : f = [i \in 1 .. 0 |-> 0]
    OBVIOUS
  <2>2. f = [i \in 1 .. 0 |-> IF i = 1 THEN s[i] ELSE Joined(f[i - 1], s[i])]
    BY <2>1
  <2> QED BY <1>2, <1>3, <2>2 DEF Flattens
<1>4. CASE m # 0
  <2>1. PICK k \in Nat : m = k + 1
    <3>1. m \in Nat /\ m - 1 \in Nat /\ m = (m - 1) + 1
      BY <1>2, <1>4
    <3> QED BY <3>1
  <2>2. k \notin T
    BY <1>2, <2>1
  <2>3. PICK f : Flattens(f, s, k)
    BY <2>2
  <2>4. \E g : Flattens(g, s, k + 1)
    BY <2>3, FlattensMore
  <2> QED BY <1>2, <2>1, <2>4
<1> QED BY <1>3, <1>4

(* FlattenSeq is its last value.                                            *)
LEMMA FlattenSeqIs ==
  ASSUME NEW s, Len(s) \in Nat \ {0}
  PROVE  \E f : Flattens(f, s, Len(s)) /\ FlattenSeq(s) = f[Len(s)]
<1> DEFINE f == CHOOSE g : Flattens(g, s, Len(s))
<1>1. Flattens(f, s, Len(s))
  BY FlattensSome
<1>2. FlattenSeq(s) = f[Len(s)]
  BY DEF FlattenSeq, Flattens, Joined
<1> QED BY <1>1, <1>2

(* It depends on the lists joined so far only.                              *)
LEMMA FlattensSame ==
  ASSUME NEW f, NEW s, NEW n \in Nat, Flattens(f, s, n), NEW g, NEW t, NEW m \in Nat,
         Flattens(g, t, m), n <= m, \A i \in 1 .. n : t[i] = s[i]
  PROVE  \A i \in 1 .. n : g[i] = f[i]
<1> DEFINE T == {k \in 1 .. n : g[k] # f[k]}
<1>1. SUFFICES ASSUME T # {} PROVE FALSE
  OBVIOUS
<1>2. PICK k \in T : \A j \in T : k <= j
  <2>1. T \in SUBSET Nat
    OBVIOUS
  <2> QED BY <1>1, <2>1, LeastNumber
<1>3. CASE k = 1
  <2>1. f[1] = s[1] /\ g[1] = t[1]
    BY <1>3, FlattensAt
  <2> QED BY <1>2, <1>3, <2>1
<1>4. CASE k # 1
  <2>1. k \in 2 .. n /\ k \in 2 .. m /\ k - 1 \in 1 .. n /\ k - 1 < k
    BY <1>2, <1>4
  <2>2. f[k] = Joined(f[k - 1], s[k]) /\ g[k] = Joined(g[k - 1], t[k])
    BY <2>1, FlattensAt
  <2>3. g[k - 1] = f[k - 1]
    <3> SUFFICES ASSUME k - 1 \in T PROVE FALSE
      BY <2>1
    <3>1. k <= k - 1
      BY <1>2
    <3> QED BY <2>1, <3>1
  <2>4. t[k] = s[k]
    BY <2>1
  <2>5. g[k] # f[k]
    BY <1>2
  <2> QED BY <2>2, <2>3, <2>4, <2>5
<1> QED BY <1>3, <1>4

(* A list with one more.                                                    *)
LEMMA FlattenMore ==
  ASSUME NEW s, NEW t, NEW n \in Nat \ {0}, Len(s) = n, Len(t) = n + 1,
         \A i \in 1 .. n : t[i] = s[i]
  PROVE  FlattenSeq(t) = FlattenSeq(s) \o t[n + 1]
<1>1. PICK f : Flattens(f, s, n) /\ FlattenSeq(s) = f[n]
  BY FlattenSeqIs
<1>2. PICK g : Flattens(g, t, n + 1) /\ FlattenSeq(t) = g[n + 1]
  BY FlattenSeqIs
<1>3. \A i \in 1 .. n : g[i] = f[i]
  BY <1>1, <1>2, FlattensSame
<1>4. g[n + 1] = Joined(g[n], t[n + 1])
  BY <1>2, FlattensAt
<1>5. FlattenSeq(t) = Joined(FlattenSeq(s), t[n + 1])
  BY <1>1, <1>2, <1>3, <1>4
<1> QED BY ONLY <1>5, Zenon DEF Joined

-----------------------------------------------------------------------------
(* The chunk that holds a place is found from whichever was found last.     *)
LEMMA SoughtFinds ==
  ASSUME NEW h, ChunksInOrder(h), h.last \in DOMAIN h.chunks, NEW by \in {"offset", "position"},
         NEW v \in Int, NEW i \in DOMAIN h.chunks, h.chunks[i][by] <= v, v < ChunkEnd(h, by, i)
  PROVE  Sought(h, by, v) = [h EXCEPT !.last = i]
<1> DEFINE n == Len(h.chunks)
           Start(j) == h.chunks[j][by]
           End(j) == ChunkEnd(h, by, j)
<1>1. n \in Nat /\ DOMAIN h.chunks = 1 .. n
  BY DEF ChunksInOrder
<1>2. \A j \in 1 .. n : Start(j) \in Int /\ End(j) \in Int /\ Start(j) < End(j)
  <2>1. TAKE j \in 1 .. n
  <2>2. h.chunks[j] \in Chunk
    <3>1. h.chunks \in Seq(Chunk)
      BY DEF ChunksInOrder
    <3> QED BY <3>1
  <2>3. /\ h.chunks[j]["offset"] \in Nat /\ h.chunks[j]["position"] \in Nat
        /\ h.chunks[j].size \in Nat \ {0}
    BY <2>2 DEF Chunk
  <2>4. CASE by = "offset"
    BY <2>3, <2>4 DEF ChunkEnd
  <2>5. CASE by = "position"
    BY <2>3, <2>5 DEF ChunkEnd
  <2> QED BY <2>4, <2>5
<1>3. \A j, k \in 1 .. n : j < k => End(j) <= Start(k)
  <2>1. TAKE j, k \in 1 .. n
  <2>2. HAVE j < k
  <2>3. k \in j + 1 .. Len(h.chunks)
    BY <1>1, <2>2
  <2>4. /\ ChunkEnd(h, "offset", j) <= h.chunks[k]["offset"]
        /\ ChunkEnd(h, "position", j) <= h.chunks[k]["position"]
    BY <1>1, <2>3 DEF ChunksInOrder
  <2>5. CASE by = "offset"
    BY <2>4, <2>5
  <2>6. CASE by = "position"
    BY <2>4, <2>6
  <2> QED BY <2>5, <2>6
<1>4. i \in 1 .. n /\ h.last \in 1 .. n /\ Start(i) <= v /\ v < End(i)
  BY <1>1
<1> DEFINE before == {j \in 1 .. h.last - 1 : Start(j) <= v}
           after == {j \in h.last + 1 .. n : End(j) > v}
           found == IF Start(h.last) > v THEN Max(before \cup {0})
                    ELSE IF End(h.last) <= v /\ after # {} THEN Min(after)
                    ELSE h.last
<1>5. Sought(h, by, v) = [h EXCEPT !.last = IF found = 0 THEN @ ELSE found]
  BY DEF Sought
<1> HIDE DEF Start, End
<1>6. CASE Start(h.last) > v
  <2>1. i < h.last
    BY <1>2, <1>3, <1>4, <1>6
  <2>2. i \in before /\ \A j \in before : j <= i
    <3>1. i \in 1 .. h.last - 1 /\ 1 .. h.last - 1 \subseteq 1 .. n
      BY <1>1, <1>4, <2>1
    <3>2. ASSUME NEW j \in before PROVE j <= i
      <4>1. j \in 1 .. n /\ Start(j) <= v
        BY <3>1
      <4> QED BY <1>2, <1>3, <1>4, <4>1
    <3> QED BY <1>4, <3>1, <3>2
  <2>3. Max(before \cup {0}) = i
    BY <1>4, <2>2 DEF Max
  <2> QED BY <1>4, <1>5, <1>6, <2>3
<1>7. CASE End(h.last) <= v
  <2>1. h.last < i
    BY <1>2, <1>3, <1>4, <1>7
  <2>2. i \in after /\ \A j \in after : i <= j
    BY <1>2, <1>3, <1>4, <2>1
  <2>3. Min(after) = i
    BY <1>4, <2>2 DEF Min
  <2>4. ~(Start(h.last) > v)
    BY <1>2, <1>4, <1>7
  <2> QED BY <1>4, <1>5, <1>7, <2>2, <2>3, <2>4
<1>8. CASE ~(Start(h.last) > v) /\ ~(End(h.last) <= v)
  <2>1. h.last = i
    BY <1>2, <1>3, <1>4, <1>8
  <2> QED BY <1>4, <1>5, <1>8, <2>1
<1> QED BY <1>6, <1>7, <1>8

(* A package of a complete file.                                            *)
LEMMA PackageFacts ==
  ASSUME CompleteFiles, NEW f \in Files, f.complete, NEW p \in 1 .. f.packages
  PROVE  /\ f.packages \in Nat /\ f.length \in Nat /\ f.seekable /\ f.complete
         /\ PackageWellFormed(f, p)
         /\ PackageInChunk(f, CreateEssenceChunkIndex(f), p)
         /\ PackageIndexed(f, Opened(f), p)
         /\ f.offsets[p] \in Nat
<1>1. WellFormed(f) /\ f.packages \in Nat /\ f.length \in Nat /\ (f.complete => f.seekable)
  BY FilesAssumption DEF CompleteFiles
<1> QED BY <1>1 DEF WellFormed

(* The table and the chunks are those of the opening, but for where the     *)
(* searches begin.                                                          *)
LEMMA TablesAre ==
  ASSUME CompleteFiles, TablesInv
  PROVE  /\ file.complete /\ file.packages \in Nat
         /\ ChunksInOrder(chunks) /\ chunks.chunks = CreateEssenceChunkIndex(file).chunks
         /\ IndexInOrder(index)
         /\ index.segments = Opened(file).segments /\ index.unit = Opened(file).unit
         /\ index.dataSize = Opened(file).dataSize /\ index.duration = Opened(file).duration
         /\ index.duration = file.packages
<1> DEFINE h == CreateEssenceChunkIndex(file)
           x == Opened(file)
<1>1. WellFormed(file) /\ file.packages \in Nat
  BY FilesAssumption DEF CompleteFiles, TablesInv
<1>2. ChunksInOrder(h) /\ IndexInOrder(x) /\ x.duration = file.packages /\ file.complete
  BY <1>1 DEF WellFormed
<1>3. chunks = [h EXCEPT !.last = chunks.last] /\ index = [x EXCEPT !.last = index.last]
  BY DEF TablesInv
<1> HIDE DEF h, x
<1>4. h = [chunks |-> h.chunks, last |-> h.last, partitions |-> h.partitions, complete |-> TRUE]
  BY <1>2 DEF ChunksInOrder
<1>5. chunks = [chunks |-> h.chunks, last |-> chunks.last, partitions |-> h.partitions,
                complete |-> TRUE]
  BY <1>3, <1>4
<1>6. chunks.chunks = h.chunks /\ chunks.partitions = h.partitions
  BY <1>5
<1>7. ChunksInOrder(chunks)
  BY <1>2, <1>5, <1>6 DEF ChunksInOrder, ChunkEnd
<1>8. x = [segments |-> x.segments, last |-> x.last, unit |-> x.unit, dataSize |-> x.dataSize,
           duration |-> x.duration, complete |-> TRUE]
  BY <1>2 DEF IndexInOrder
<1>9. index = [segments |-> x.segments, last |-> index.last, unit |-> x.unit,
               dataSize |-> x.dataSize, duration |-> x.duration, complete |-> TRUE]
  BY <1>3, <1>8
<1>10. /\ index.segments = x.segments /\ index.unit = x.unit /\ index.dataSize = x.dataSize
       /\ index.duration = x.duration
  BY <1>9
<1>11. IndexInOrder(index)
  BY <1>2, <1>9, <1>10 DEF IndexInOrder
<1> QED BY <1>1, <1>2, <1>6, <1>7, <1>10, <1>11 DEF h, x

(* What the table says of a package: where it is, and its size.             *)
LEMMA Indexed ==
  ASSUME CompleteFiles, TablesInv, NEW p \in Nat, p < file.packages
  PROVE  /\ index.segments # <<>> /\ SearchStarts(index)
         /\ HaveEditUnit(index, p) /\ HaveEditUnitOffset(index, p) /\ HaveEditUnitSize(index, p)
         /\ GetEditUnitOffset(index, p) = file.offsets[p + 1]
         /\ GetEditUnitSize(index, p) = PackageSize(file, p + 1)
         /\ SegmentOf(index, p) \in DOMAIN index.segments
<1> DEFINE x == Opened(file)
<1>1. p + 1 \in 1 .. file.packages /\ (p + 1) - 1 = p /\ file \in Files /\ file.complete
  BY TablesAre DEF TablesInv
<1>2. PackageIndexed(file, x, p + 1)
  BY <1>1, PackageFacts
<1>3. /\ IndexInOrder(index) /\ index.segments = x.segments /\ index.unit = x.unit
      /\ index.dataSize = x.dataSize /\ index.duration = x.duration
      /\ index.duration = file.packages
  BY TablesAre
<1>4. \A q : SegmentOf(index, q) = SegmentOf(x, q)
  BY <1>3, Zenon DEF SegmentOf
<1> HIDE DEF x
<1>5. \A q : GetEditUnitOffset(index, q) = GetEditUnitOffset(x, q)
  BY <1>3, <1>4, Zenon DEF GetEditUnitOffset
<1>6. GetEditUnitSize(index, p) = GetEditUnitSize(x, p)
  <2>1. index.unit = x.unit /\ index.duration = x.duration /\ index.dataSize = x.dataSize
    BY <1>3
  <2>2. /\ GetEditUnitOffset(index, p) = GetEditUnitOffset(x, p)
        /\ GetEditUnitOffset(index, p + 1) = GetEditUnitOffset(x, p + 1)
    BY <1>5
  <2> QED BY ONLY <2>1, <2>2 DEF GetEditUnitSize, SizeFromNext
<1>7. \A q : HaveEditUnitOffset(index, q) <=> HaveEditUnitOffset(x, q)
  BY <1>3, Zenon DEF HaveEditUnitOffset, HaveEditUnit
<1>8. HaveEditUnitSize(index, p)
  BY <1>1, <1>2, <1>3, <1>7, Zenon DEF HaveEditUnitSize, PackageIndexed
<1>9. PICK i \in DOMAIN index.segments :
        /\ index.segments[i].start <= p
        /\ \/ p < SegmentEnd(index.segments[i])
           \/ index.segments[i].duration = 0 /\ x.unit > 0
  BY <1>1, <1>2, <1>3 DEF PackageIndexed
<1>10. index.segments # <<>>
  BY <1>9
<1>11. SearchStarts(index)
  <2>1. index.last \in DOMAIN index.segments /\ index.segments = x.segments
    BY <1>3, <1>10 DEF TablesInv
  <2>2. index.last <= Len(index.segments)
    BY <1>3, <2>1 DEF IndexInOrder
  <2> QED BY <2>2 DEF SearchStarts
<1>12. HaveEditUnit(index, p) /\ HaveEditUnitOffset(index, p)
  BY <1>3, <1>10 DEF HaveEditUnit, HaveEditUnitOffset
<1>13. SegmentOf(index, p) \in DOMAIN index.segments
  BY <1>9 DEF SegmentOf
<1>14. GetEditUnitOffset(x, p) = file.offsets[p + 1] /\ GetEditUnitSize(x, p) = PackageSize(file, p + 1)
  BY <1>1, <1>2 DEF PackageIndexed
<1> QED BY <1>5, <1>6, <1>8, <1>10, <1>11, <1>12, <1>13, <1>14

(* The chunks lead to a package, from its offset and from its place in the  *)
(* file.                                                                    *)
LEMMA InChunk ==
  ASSUME CompleteFiles, TablesInv, NEW p \in Nat, p < file.packages
  PROVE  \E c \in DOMAIN chunks.chunks :
           /\ chunks.chunks # <<>>
           /\ Sought(chunks, "offset", file.offsets[p + 1]) = [chunks EXCEPT !.last = c]
           /\ HaveFilePosition(chunks, file.offsets[p + 1])
           /\ GetFilePosition(chunks, file.offsets[p + 1]) = file.starts[p + 1]
           /\ HaveEditUnitPosition(chunks, file.offsets[p + 1], PackageSize(file, p + 1))
           /\ Holds(chunks, "position", file.starts[p + 1])
           /\ GetEssenceOffset(chunks, file.starts[p + 1]) = file.offsets[p + 1]
<1> DEFINE offset == file.offsets[p + 1]
           start == file.starts[p + 1]
           size == PackageSize(file, p + 1)
<1>1. p + 1 \in 1 .. file.packages /\ file \in Files /\ file.complete
  BY TablesAre DEF TablesInv
<1>2. offset \in Nat /\ start \in Nat /\ size \in Nat \ {0}
  BY <1>1, PackageFacts DEF PackageWellFormed
<1>3. ChunksInOrder(chunks) /\ chunks.chunks = CreateEssenceChunkIndex(file).chunks
  BY TablesAre
<1>4. PICK c \in DOMAIN chunks.chunks :
        /\ chunks.chunks[c].offset <= offset
        /\ offset + size <= ChunkEnd(chunks, "offset", c)
        /\ start - chunks.chunks[c].position = offset - chunks.chunks[c].offset
  BY <1>1, <1>3, PackageFacts DEF PackageInChunk, ChunkEnd
<1>5. chunks.chunks # <<>> /\ chunks.last \in DOMAIN chunks.chunks
  BY <1>4 DEF TablesInv
<1>6. chunks.chunks[c] \in Chunk
  <2>1. chunks.chunks \in Seq(Chunk)
    BY <1>3 DEF ChunksInOrder
  <2> QED BY <1>4, <2>1
<1>7. PICK o \in Nat, q \in Nat, n \in Nat \ {0} :
        /\ chunks.chunks[c]["offset"] = o /\ chunks.chunks[c]["position"] = q
        /\ chunks.chunks[c]["size"] = n
  BY <1>6 DEF Chunk
<1>8. ChunkEnd(chunks, "offset", c) = o + n /\ ChunkEnd(chunks, "position", c) = q + n
  BY <1>7 DEF ChunkEnd
<1>9. o <= offset /\ offset + size <= o + n /\ start - q = offset - o
  BY <1>4, <1>7, <1>8
<1> HIDE DEF offset, start, size
<1>10. offset < o + n /\ q <= start /\ start < q + n
  BY <1>2, <1>9
<1>11. Sought(chunks, "offset", offset) = [chunks EXCEPT !.last = c]
  <2>1. /\ ChunksInOrder(chunks) /\ chunks.last \in DOMAIN chunks.chunks
        /\ "offset" \in {"offset", "position"} /\ offset \in Int
        /\ chunks.chunks[c]["offset"] <= offset /\ offset < ChunkEnd(chunks, "offset", c)
    BY <1>2, <1>3, <1>5, <1>7, <1>8, <1>9, <1>10
  <2> QED BY ONLY <2>1, SoughtFinds
<1>12. Sought(chunks, "position", start) = [chunks EXCEPT !.last = c]
  <2>1. /\ ChunksInOrder(chunks) /\ chunks.last \in DOMAIN chunks.chunks
        /\ "position" \in {"offset", "position"} /\ start \in Int
        /\ chunks.chunks[c]["position"] <= start /\ start < ChunkEnd(chunks, "position", c)
    BY <1>2, <1>3, <1>5, <1>7, <1>8, <1>10
  <2> QED BY ONLY <2>1, SoughtFinds
<1> DEFINE s == [chunks EXCEPT !.last = c]
<1>13. /\ s.chunks = chunks.chunks /\ s.last = c
       /\ Sought(chunks, "offset", offset) = s /\ Sought(chunks, "position", start) = s
  BY <1>3, <1>11, <1>12 DEF ChunksInOrder
<1>14. ChunkEnd(s, "offset", c) = o + n /\ ChunkEnd(s, "position", c) = q + n
  BY <1>8, <1>13 DEF ChunkEnd
<1> HIDE DEF s
<1>15. Holds(chunks, "offset", offset)
  BY <1>2, <1>5, <1>7, <1>9, <1>10, <1>13, <1>14 DEF Holds
<1>16. Holds(chunks, "position", start)
  BY <1>2, <1>5, <1>7, <1>9, <1>10, <1>13, <1>14 DEF Holds
<1>17. GetFilePosition(chunks, offset) = start
  BY <1>2, <1>7, <1>9, <1>13 DEF GetFilePosition
<1>18. GetEssenceOffset(chunks, start) = offset
  BY <1>2, <1>7, <1>9, <1>13 DEF GetEssenceOffset
<1>19. HaveEditUnitPosition(chunks, offset, size)
  BY <1>9, <1>13, <1>14, <1>15 DEF HaveEditUnitPosition
<1> QED BY <1>4, <1>5, <1>11, <1>15, <1>16, <1>17, <1>18, <1>19 DEF HaveFilePosition, offset, start, size

-----------------------------------------------------------------------------
(* The content of one more package.                                         *)
LEMMA NoPackages ==
  ASSUME NEW s
  PROVE  PackagesFrom(s, 0) = <<>>
<1> DEFINE none == [i \in 1 .. 0 |-> file.content[s + i]]
<1>1. none = <<>> /\ Len(none) = 0
  OBVIOUS
<1> HIDE DEF none
<1>2. FlattenSeq(none) = none
  BY <1>1 DEF FlattenSeq
<1> QED BY <1>1, <1>2 DEF PackagesFrom, none

LEMMA OnePackageMore ==
  ASSUME NEW s \in Nat, NEW n \in Nat, NEW S, file.content[s + n + 1] \in Seq(S)
  PROVE  PackagesFrom(s, n + 1) = PackagesFrom(s, n) \o file.content[s + n + 1]
<1> DEFINE a == [i \in 1 .. n |-> file.content[s + i]]
           b == [i \in 1 .. n + 1 |-> file.content[s + i]]
           c == file.content[s + n + 1]
<1>1. Len(a) = n /\ Len(b) = n + 1 /\ (\A i \in 1 .. n : b[i] = a[i]) /\ b[n + 1] = c
  <2>1. s + (n + 1) = s + n + 1
    OBVIOUS
  <2> QED BY <2>1
<1>2. PackagesFrom(s, n) = FlattenSeq(a) /\ PackagesFrom(s, n + 1) = FlattenSeq(b)
  BY DEF PackagesFrom
<1> HIDE DEF a, b
<1>3. CASE n # 0
  <2>1. FlattenSeq(b) = FlattenSeq(a) \o b[n + 1]
    <3>1. n \in Nat \ {0} /\ Len(a) = n /\ Len(b) = n + 1 /\ \A i \in 1 .. n : b[i] = a[i]
      BY <1>1, <1>3
    <3> QED BY ONLY <3>1, FlattenMore, Zenon
  <2> QED BY <1>1, <1>2, <2>1
<1>4. CASE n = 0
  <2>1. PICK f : Flattens(f, b, 1) /\ FlattenSeq(b) = f[1]
    <3>1. Len(b) = 1 /\ 1 \in Nat \ {0}
      BY <1>1, <1>4
    <3>2. Len(b) \in Nat \ {0}
      BY <3>1
    <3>3. \E f : Flattens(f, b, Len(b)) /\ FlattenSeq(b) = f[Len(b)]
      BY ONLY <3>2, FlattenSeqIs, Zenon
    <3> QED BY <3>1, <3>3
  <2>2. f[1] = b[1]
    BY <2>1, FlattensAt
  <2>3. FlattenSeq(b) = c
    BY <1>1, <1>4, <2>1, <2>2
  <2>4. <<>> \o c = c
    BY ConcatEmptySeq
  <2> QED BY <1>2, <1>4, <2>3, <2>4, NoPackages
<1> QED BY <1>3, <1>4

-----------------------------------------------------------------------------
(* The items of a package.                                                  *)
Begin(p) == file.starts[p + 1]
End(p) == Begin(p) + PackageSize(file, p + 1)
IsItem(i) == i \in DOMAIN file.items

(* A package lies in the file, and an item begins where it does.            *)
LEMMA PackageBegins ==
  ASSUME CompleteFiles, TablesInv, NEW p \in Nat, p < file.packages
  PROVE  /\ Begin(p) \in Nat /\ PackageSize(file, p + 1) \in Nat \ {0}
         /\ End(p) \in Nat /\ End(p) <= available /\ file.length \in Nat
         /\ file.content[p + 1] \in Seq(DOMAIN file.items)
         /\ IsItem(file.itemAt[Begin(p)])
<1>1. /\ p + 1 \in 1 .. file.packages /\ file \in Files /\ file.complete
      /\ available = file.length
  BY TablesAre DEF TablesInv
<1>2. PackageWellFormed(file, p + 1) /\ file.length \in Nat
  BY <1>1, PackageFacts
<1>3. WellFormed(file)
  BY <1>1 DEF CompleteFiles
<1>4. file.content[p + 1] \in Seq(DOMAIN file.items)
  <2>1. file.content \in Seq(Seq(DOMAIN file.items)) /\ Len(file.content) = file.packages
    BY <1>3 DEF WellFormed
  <2> QED BY <1>1, <2>1
<1> QED BY <1>1, <1>2, <1>4 DEF PackageWellFormed, Begin, End, IsItem

(* An item of a package is followed by another, or by its end.              *)
LEMMA ItemInPackage ==
  ASSUME CompleteFiles, TablesInv, NEW p \in Nat, p < file.packages,
         NEW at \in Nat, Begin(p) <= at, at < End(p), NEW i, i = file.itemAt[at], IsItem(i)
  PROVE  /\ Item(i).at = at /\ i # 0 /\ at < file.length
         /\ Item(i).size \in Nat \ {0} /\ AfterItem(i) = at + Item(i).size
         /\ Item(i).kind # "partition" /\ (Item(i).kind = "start" <=> at = Begin(p))
         /\ AfterItem(i) <= End(p)
         /\ AfterItem(i) < End(p) => IsItem(file.itemAt[AfterItem(i)])
         /\ \A j \in DOMAIN file.content[p + 1] :
              LET e == file.content[p + 1][j]
              IN  Item(e).at \in Nat /\ (Item(e).at > at => Item(e).at >= AfterItem(i))
<1> DEFINE end == file.starts[p + 1] + PackageSize(file, p + 1)
           inside == {j \in DOMAIN file.items : file.items[j].at \in file.starts[p + 1] .. end - 1}
<1>1. p + 1 \in 1 .. file.packages /\ file \in Files /\ file.complete
  BY TablesAre DEF TablesInv
<1>2. /\ Begin(p) \in Nat /\ End(p) \in Nat /\ End(p) <= file.length /\ file.length \in Nat
      /\ file.content[p + 1] \in Seq(DOMAIN file.items)
  BY PackageBegins DEF TablesInv
<1>3. /\ \A j \in DOMAIN file.items : file.items[j].size >= 1
      /\ DOMAIN file.itemAt = 0 .. file.length - 1
      /\ \A q \in DOMAIN file.itemAt :
           file.itemAt[q] # 0 => file.itemAt[q] \in DOMAIN file.items /\ file.items[file.itemAt[q]].at = q
      /\ \A j \in DOMAIN file.items : file.itemAt[file.items[j].at] = j
  BY <1>1, FilesAssumption
<1>4. at \in DOMAIN file.itemAt /\ at < file.length
  BY <1>2, <1>3
<1>5. i \in 1 .. Len(file.items) /\ i # 0 /\ file.items[i].at = at /\ file.items[i].size >= 1
  BY <1>1, <1>3, <1>4, FilesAssumption DEF IsItem
<1>6. i \in inside
  BY <1>2, <1>4, <1>5 DEF IsItem, Begin, End
<1>7. PackageWellFormed(file, p + 1)
  BY <1>1, PackageFacts
<1>8. /\ \A j \in inside :
           /\ file.items[j].at \in Nat /\ file.items[j].size \in Nat /\ file.items[j].kind # "partition"
           /\ file.items[j].kind = "start" <=> file.items[j].at = file.starts[p + 1]
           /\ ItemEnd(file, j) <= end
           /\ ItemEnd(file, j) < end => file.itemAt[ItemEnd(file, j)] \in inside
           /\ \A k \in inside : file.items[j].at < file.items[k].at => ItemEnd(file, j) <= file.items[k].at
      /\ ToSet(file.content[p + 1]) = {j \in inside : file.items[j].kind \in {"start", "element"}}
  BY <1>7 DEF PackageWellFormed
<1>9. end = End(p) /\ inside \subseteq DOMAIN file.items
  <2>1. end = End(p)
    BY Zenon DEF End, Begin
  <2> QED BY <2>1
<1> HIDE DEF inside, end
<1>10. AfterItem(i) = ItemEnd(file, i) /\ AfterItem(i) = at + Item(i).size
  BY <1>5 DEF AfterItem, ItemEnd, Item
<1>11. /\ Item(i).size \in Nat \ {0} /\ Item(i).kind # "partition"
       /\ Item(i).kind = "start" <=> at = Begin(p)
  <2>1. /\ file.items[i].size \in Nat /\ file.items[i].kind # "partition"
        /\ file.items[i].kind = "start" <=> file.items[i].at = file.starts[p + 1]
    BY ONLY <1>6, <1>8
  <2>2. file.items[i].size >= 1 /\ file.items[i].at = at
    BY <1>5
  <2>3. file.items[i].size \in Nat \ {0}
    BY ONLY <2>1, <2>2
  <2> QED BY ONLY <2>1, <2>2, <2>3, Zenon DEF Item, Begin
<1>12. AfterItem(i) <= End(p) /\ (AfterItem(i) < End(p) => IsItem(file.itemAt[AfterItem(i)]))
  BY <1>6, <1>8, <1>9, <1>10 DEF IsItem
<1>13. ASSUME NEW j \in DOMAIN file.content[p + 1]
       PROVE  LET e == file.content[p + 1][j]
              IN  Item(e).at \in Nat /\ (Item(e).at > at => Item(e).at >= AfterItem(i))
  <2>1. file.content[p + 1][j] \in inside
    BY <1>8 DEF ToSet
  <2>2. PICK e \in inside : e = file.content[p + 1][j]
    BY <2>1
  <2>3. file.items[e].at \in Nat /\ (at < file.items[e].at => ItemEnd(file, i) <= file.items[e].at)
    BY <1>5, <1>6, <1>8
  <2>4. AfterItem(i) \in Nat
    BY <1>10, <1>11
  <2> QED BY <1>10, <2>2, <2>3, <2>4 DEF Item
<1>14. Item(i).at = at
  BY <1>5 DEF Item
<1> QED BY <1>4, <1>5, <1>10, <1>11, <1>12, <1>13, <1>14, Zenon

(* An item adds itself to what has been passed if it is essence.            *)
ContentHas(p, i) == i \in ToSet(file.content[p + 1])

LEMMA ContentIs ==
  ASSUME CompleteFiles, TablesInv, NEW p \in Nat, p < file.packages,
         NEW at \in Nat, Begin(p) <= at, at < End(p), NEW i, i = file.itemAt[at], IsItem(i)
  PROVE  /\ ContentHas(p, i) <=> Item(i).kind \in {"start", "element"}
         /\ \A j \in DOMAIN file.content[p + 1] :
              LET e == file.content[p + 1][j]
              IN  /\ Begin(p) <= Item(e).at /\ Item(e).at < End(p) /\ Item(e).at \in Nat
                  /\ Item(e).at = at => e = i
         /\ \A j, k \in DOMAIN file.content[p + 1] :
              j < k => Item(file.content[p + 1][j]).at < Item(file.content[p + 1][k]).at
<1> DEFINE end == file.starts[p + 1] + PackageSize(file, p + 1)
           inside == {j \in DOMAIN file.items : file.items[j].at \in file.starts[p + 1] .. end - 1}
           c == file.content[p + 1]
<1>1. p + 1 \in 1 .. file.packages /\ file \in Files /\ file.complete
  BY TablesAre DEF TablesInv
<1>2. PackageWellFormed(file, p + 1)
  BY <1>1, PackageFacts
<1>3. /\ ToSet(c) = {j \in inside : file.items[j].kind \in {"start", "element"}}
      /\ \A j, k \in DOMAIN c : j < k => file.items[c[j]].at < file.items[c[k]].at
  BY <1>2 DEF PackageWellFormed
<1>4. Begin(p) = file.starts[p + 1] /\ Begin(p) \in Nat /\ End(p) \in Nat /\ end = End(p)
  BY PackageBegins DEF Begin, End
<1>5. Item(i).at = at /\ i \in DOMAIN file.items
  BY ItemInPackage DEF IsItem
<1>6. i \in inside
  BY <1>4, <1>5 DEF Item
<1>7. ContentHas(p, i) <=> Item(i).kind \in {"start", "element"}
  BY <1>3, <1>6 DEF ContentHas, Item
<1>8. ASSUME NEW j \in DOMAIN c
      PROVE  /\ Begin(p) <= Item(c[j]).at /\ Item(c[j]).at < End(p) /\ Item(c[j]).at \in Nat
             /\ Item(c[j]).at = at => c[j] = i
  <2>1. c[j] \in ToSet(c)
    BY DEF ToSet
  <2>2. c[j] \in DOMAIN file.items /\ file.items[c[j]].at \in Begin(p) .. End(p) - 1
    BY <1>3, <1>4, <2>1
  <2>3. file.itemAt[file.items[c[j]].at] = c[j]
    BY <1>1, <2>2, FilesAssumption
  <2> QED BY <1>4, <2>2, <2>3 DEF Item
<1> QED BY <1>3, <1>7, <1>8 DEF Item

Taken(p, k, i) ==
  SubSeq(file.content[p + 1], 1, k + 1) = Append(SubSeq(file.content[p + 1], 1, k), i)

(* When an item is passed, one more of the essence is, or none.             *)
LEMMA PassesItem ==
  ASSUME CompleteFiles, TablesInv, NEW p \in Nat, p < file.packages,
         NEW at \in Nat, Begin(p) <= at, at < End(p), NEW i, i = file.itemAt[at], IsItem(i),
         NEW k \in 0 .. Len(file.content[p + 1]), Passed(p + 1, k, at)
  PROVE  IF Item(i).kind \in {"start", "element"}
         THEN k + 1 \in 0 .. Len(file.content[p + 1]) /\ Passed(p + 1, k + 1, AfterItem(i)) /\ Taken(p, k, i)
         ELSE Passed(p + 1, k, AfterItem(i))
<1>1. PICK c \in Seq(DOMAIN file.items) : c = file.content[p + 1]
  BY PackageBegins
<1>2. DOMAIN c = 1 .. Len(c) /\ Len(c) \in Nat /\ k \in 0 .. Len(c)
  BY <1>1
<1> DEFINE A(j) == Item(c[j]).at
<1>3. PICK after \in Nat : after = AfterItem(i) /\ at < after
  BY ItemInPackage
<1>4. \A j \in 1 .. Len(c) : A(j) \in Nat /\ (A(j) > at => A(j) >= after)
  BY <1>1, <1>2, <1>3, ItemInPackage
<1>5. \A j \in 1 .. Len(c) : A(j) = at => c[j] = i
  <2>1. \A j \in DOMAIN file.content[p + 1] :
          Item(file.content[p + 1][j]).at = at => file.content[p + 1][j] = i
    BY ContentIs
  <2> QED BY <1>1, <1>2, <2>1
<1>6. \A j, m \in 1 .. Len(c) : j < m => A(j) < A(m)
  BY <1>1, <1>2, ContentIs
<1>7. \A j \in 1 .. Len(c) : j <= k <=> A(j) < at
  BY <1>1, <1>2 DEF Passed, Item
<1>8. Item(i).at = at
  BY ItemInPackage
<1>9. ContentHas(p, i) <=> Item(i).kind \in {"start", "element"}
  BY ContentIs
<1>10. CASE Item(i).kind \in {"start", "element"}
  <2>1. PICK m \in 1 .. Len(c) : c[m] = i
    BY <1>1, <1>2, <1>9, <1>10 DEF ContentHas, ToSet
  <2>2. A(m) = at
    BY <1>8, <2>1
  <2> HIDE DEF A
  <2>3. m > k
    BY <1>2, <1>4, <1>7, <2>2
  <2>4. m = k + 1
    <3>1. SUFFICES ASSUME k + 1 < m PROVE FALSE
      BY <1>2, <2>3
    <3>2. k + 1 \in 1 .. Len(c) /\ ~(k + 1 <= k)
      BY <1>2, <3>1
    <3>3. A(k + 1) < A(m) /\ ~(A(k + 1) < at)
      BY <1>6, <1>7, <3>1, <3>2
    <3> QED BY <2>2, <3>3
  <2>5. k + 1 \in 1 .. Len(c) /\ c[k + 1] = i
    BY <2>1, <2>4
  <2>6. ASSUME NEW j \in 1 .. Len(c) PROVE j <= k + 1 <=> A(j) < after
    <3>1. CASE j <= k
      BY <1>2, <1>3, <1>4, <1>7, <3>1
    <3>2. CASE j = k + 1
      BY <1>2, <1>3, <1>4, <2>2, <2>4, <3>2
    <3>3. CASE j > k + 1
      <4>1. A(m) < A(j)
        BY <1>2, <1>6, <2>4, <3>3
      <4>2. A(j) >= after
        BY <1>4, <2>2, <4>1
      <4> QED BY <1>2, <1>3, <1>4, <3>3, <4>2
    <3> QED BY <1>2, <3>1, <3>2, <3>3
  <2>7. Passed(p + 1, k + 1, AfterItem(i))
    BY <1>1, <1>2, <1>3, <2>6 DEF Passed, A, Item
  <2>8. SubSeq(c, 1, k + 1) = Append(SubSeq(c, 1, k), c[k + 1])
    BY <1>2, <2>5
  <2>9. Taken(p, k, i)
    BY <1>1, <2>5, <2>8 DEF Taken
  <2> QED BY <1>1, <1>2, <1>10, <2>5, <2>7, <2>9
<1>11. CASE Item(i).kind \notin {"start", "element"}
  <2>1. \A j \in 1 .. Len(c) : A(j) # at
    <3>1. SUFFICES ASSUME NEW j \in 1 .. Len(c), A(j) = at PROVE FALSE
      OBVIOUS
    <3>2. c[j] = i
      BY <1>5, <3>1
    <3>3. ContentHas(p, i)
      BY <1>1, <1>2, <3>2 DEF ContentHas, ToSet
    <3> QED BY <1>9, <1>11, <3>3
  <2> HIDE DEF A
  <2>2. ASSUME NEW j \in 1 .. Len(c) PROVE j <= k <=> A(j) < after
    <3>1. A(j) \in Nat /\ (A(j) > at => A(j) >= after) /\ A(j) # at
      BY <1>4, <2>1
    <3>2. j <= k <=> A(j) < at
      BY <1>7
    <3> QED BY <1>3, <3>1, <3>2
  <2>3. Passed(p + 1, k, AfterItem(i))
    BY <1>1, <1>2, <1>3, <2>2 DEF Passed, A, Item
  <2> QED BY <1>11, <2>3
<1> QED BY <1>10, <1>11

(* Nothing is passed where the package begins, everything where it ends.    *)
LEMMA PassedAtEnds ==
  ASSUME CompleteFiles, TablesInv, NEW p \in Nat, p < file.packages
  PROVE  /\ 0 \in 0 .. Len(file.content[p + 1]) /\ Passed(p + 1, 0, Begin(p))
         /\ \A k \in 0 .. Len(file.content[p + 1]) :
              Passed(p + 1, k, End(p)) => k = Len(file.content[p + 1])
<1>1. PICK c \in Seq(DOMAIN file.items) : c = file.content[p + 1]
  BY PackageBegins
<1>2. DOMAIN c = 1 .. Len(c) /\ Len(c) \in Nat
  OBVIOUS
<1>3. /\ Begin(p) \in Nat /\ End(p) \in Nat /\ Begin(p) < End(p)
      /\ IsItem(file.itemAt[Begin(p)])
  BY PackageBegins DEF End
<1>4. \A j \in 1 .. Len(c) :
        Begin(p) <= Item(c[j]).at /\ Item(c[j]).at < End(p) /\ Item(c[j]).at \in Nat
  BY <1>1, <1>2, <1>3, ContentIs
<1>5. \A j \in 1 .. Len(c) : j <= 0 <=> Item(c[j]).at < Begin(p)
  BY <1>2, <1>3, <1>4
<1>6. Passed(p + 1, 0, Begin(p))
  BY <1>1, <1>2, <1>5 DEF Passed, Item
<1>7. ASSUME NEW k \in 0 .. Len(c), Passed(p + 1, k, End(p)) PROVE k = Len(c)
  <2>1. \A j \in 1 .. Len(c) : j <= k
    BY <1>1, <1>2, <1>4, <1>7 DEF Passed, Item
  <2>2. k \in 0 .. Len(c) /\ (Len(c) # 0 => Len(c) \in 1 .. Len(c))
    BY <1>1, <1>2
  <2>3. Len(c) # 0 => Len(c) <= k
    BY <2>1, <2>2
  <2>4. PICK n \in Nat : n = Len(c)
    BY <1>2
  <2>5. k \in 0 .. n /\ (n # 0 => n <= k)
    BY ONLY <2>2, <2>3, <2>4, Zenon
  <2>6. k = n
    BY ONLY <2>4, <2>5
  <2> QED BY ONLY <2>4, <2>6
<1> QED BY <1>1, <1>2, <1>6, <1>7

-----------------------------------------------------------------------------
(* The steps.  What they leave to the application: nothing, but for the     *)
(* last one of a read.                                                      *)
Quiet ==
  /\ UNCHANGED <<file, available, result>>
  /\ call'.start = call.start /\ call'.requested = call.requested

SameTables ==
  /\ UNCHANGED <<file, available, limits>>
  /\ chunks' = chunks \/ \E c \in DOMAIN chunks.chunks : chunks' = [chunks EXCEPT !.last = c]
  /\ index' = index \/ \E s \in DOMAIN index.segments : index' = [index EXCEPT !.last = s]

(* A step that changes no more than where the searches begin.               *)
LEMMA TablesStay ==
  ASSUME CompleteFiles, TablesInv, SameTables
  PROVE  TablesInv'
<1> DEFINE h == CreateEssenceChunkIndex(file)
           x == Opened(file)
<1>1. ChunksInOrder(chunks) /\ IndexInOrder(index) /\ file \in Files /\ file.complete
  BY TablesAre DEF TablesInv
<1>2. /\ chunks = [chunks |-> chunks.chunks, last |-> chunks.last, partitions |-> chunks.partitions,
                   complete |-> TRUE]
      /\ chunks.chunks \in Seq(Chunk)
  BY <1>1 DEF ChunksInOrder
<1>3. /\ index = [segments |-> index.segments, last |-> index.last, unit |-> index.unit,
                  dataSize |-> index.dataSize, duration |-> index.duration, complete |-> TRUE]
      /\ DOMAIN index.segments = 1 .. Len(index.segments) /\ Len(index.segments) \in Nat
  BY <1>1 DEF IndexInOrder
<1>4. ChunksInOrder(h) /\ IndexInOrder(x)
  BY <1>1 DEF CompleteFiles, WellFormed
<1>5. chunks = [h EXCEPT !.last = chunks.last] /\ index = [x EXCEPT !.last = index.last]
  BY DEF TablesInv
<1>6. /\ h = [chunks |-> h.chunks, last |-> h.last, partitions |-> h.partitions, complete |-> TRUE]
      /\ x = [segments |-> x.segments, last |-> x.last, unit |-> x.unit,
              dataSize |-> x.dataSize, duration |-> x.duration, complete |-> TRUE]
  BY <1>4 DEF ChunksInOrder, IndexInOrder
<1> HIDE DEF h, x
<1>7. /\ chunks' = [h EXCEPT !.last = chunks'.last]
      /\ chunks'.last \in Nat /\ (chunks'.chunks # <<>> => chunks'.last \in DOMAIN chunks'.chunks)
  <2>1. CASE chunks' = chunks
    BY <1>5, <2>1 DEF TablesInv
  <2>2. CASE \E c \in DOMAIN chunks.chunks : chunks' = [chunks EXCEPT !.last = c]
    <3>1. PICK c \in DOMAIN chunks.chunks : chunks' = [chunks EXCEPT !.last = c]
      BY <2>2
    <3>2. c \in Nat
      BY <1>2, <3>1
    <3>3. chunks' = [h EXCEPT !.last = c]
      BY <1>5, <1>6, <3>1
    <3>4. chunks'.last = c /\ chunks'.chunks = chunks.chunks
      BY <1>2, <3>1
    <3> QED BY <3>1, <3>2, <3>3, <3>4
  <2> QED BY <2>1, <2>2 DEF SameTables
<1>8. /\ index' = [x EXCEPT !.last = index'.last]
      /\ index'.last \in Nat /\ (index'.segments # <<>> => index'.last \in DOMAIN index'.segments)
  <2>1. CASE index' = index
    BY <1>5, <2>1 DEF TablesInv
  <2>2. CASE \E s \in DOMAIN index.segments : index' = [index EXCEPT !.last = s]
    <3>1. PICK s \in DOMAIN index.segments : index' = [index EXCEPT !.last = s]
      BY <2>2
    <3>2. s \in Nat
      BY <1>3, <3>1
    <3>3. index' = [x EXCEPT !.last = s]
      BY <1>5, <1>6, <3>1
    <3>4. index'.last = s /\ index'.segments = index.segments
      BY <1>3, <3>1
    <3> QED BY <3>1, <3>2, <3>3, <3>4
  <2> QED BY <2>1, <2>2 DEF SameTables
<1> QED BY <1>7, <1>8 DEF TablesInv, SameTables, h, x

(* Nothing is in the buffer between reads, so a read is never answered from *)
(* it.                                                                      *)
LEMMA NothingBuffered ==
  ASSUME BufferInv, At("idle"), NEW p, NEW n \in Nat \ {0}
  PROVE  /\ ~IsBuffered(buffer, p, n)
         /\ OneFrame(PrepareRead(buffer, p, n), n)
<1>1. PICK k : k = FALSE
  OBVIOUS
<1>2. PICK s : buffer = [start |-> s, frames |-> <<>>, current |-> 0, keep |-> k]
  BY <1>1, Zenon DEF BufferInv, NoFrames
<1>3. buffer.frames = <<>> /\ buffer.keep = FALSE
  BY <1>1, <1>2
<1>4. BufferOffsets(buffer, p) = {}
  BY <1>3 DEF BufferOffsets
<1>5. SubSeq(<<>>, 1, 0) \o <<NewFrame(n)>> = <<NewFrame(n)>>
  <2>1. SubSeq(<<>>, 1, 0) = <<>>
    OBVIOUS
  <2>2. \A e : <<>> \o <<e>> = <<e>>
    OBVIOUS
  <2> QED BY ONLY <2>1, <2>2, Zenon
<1>6. PICK q : q = PrepareRead(buffer, p, n)
  OBVIOUS
<1>7. q = [buffer EXCEPT !.frames = <<NewFrame(n)>>, !.current = 0, !.start = p]
  BY <1>3, <1>5, <1>6 DEF PrepareRead
<1>8. q = [start |-> p, frames |-> <<NewFrame(n)>>, current |-> 0, keep |-> k]
  BY ONLY <1>2, <1>7
<1>9. q.start = p
  BY ONLY <1>8
<1>10. OneFrame(q, n)
  BY ONLY <1>1, <1>8, <1>9, Zenon DEF OneFrame
<1> QED BY <1>4, <1>6, <1>10 DEF IsBuffered

(* A frame that is handed out leaves the buffer.                            *)
LEMMA Pushed ==
  ASSUME NEW b, NEW n, OneFrame(b, n), NEW r, NEW c
  PROVE  NoFrames(PushFrames(b, r, c))
<1> DEFINE t == PositionAfter(b, b.current + 1)
<1>1. PICK k : k = FALSE
  OBVIOUS
<1>2. PICK fr, s : b = [start |-> s, frames |-> <<fr>>, current |-> 0, keep |-> k]
  BY <1>1, Zenon DEF OneFrame
<1>3. b.keep = FALSE /\ b.current + 1 + 1 = 2 /\ b.frames = <<fr>>
  BY <1>1, <1>2
<1>4. SubSeq(<<fr>>, 2, Len(<<fr>>)) = <<>>
  OBVIOUS
<1> HIDE DEF t
<1>5. PICK q : q = ClearBeforeFrames(b, b.current + 1)
  OBVIOUS
<1>6. q = [b EXCEPT !.start = t, !.frames = SubSeq(b.frames, b.current + 1 + 1, Len(b.frames))]
  BY <1>5 DEF ClearBeforeFrames, t
<1>7. q = [b EXCEPT !.start = t, !.frames = <<>>]
  BY ONLY <1>3, <1>4, <1>6, Zenon
<1>8. q = [start |-> t, frames |-> <<>>, current |-> 0, keep |-> k]
  BY ONLY <1>2, <1>7
<1>9. Len(q.frames) = 0
  BY ONLY <1>8
<1>10. PushFrames(b, r, c) = [q EXCEPT !.current = Len(q.frames)]
  BY ONLY <1>3, <1>5, Zenon DEF PushFrames
<1>11. [q EXCEPT !.current = 0] = [start |-> t, frames |-> <<>>, current |-> 0, keep |-> k]
  BY ONLY <1>8
<1>12. PICK u : u = PushFrames(b, r, c)
  OBVIOUS
<1>13. u = [start |-> t, frames |-> <<>>, current |-> 0, keep |-> k]
  BY ONLY <1>9, <1>10, <1>11, <1>12, Zenon
<1>14. u.start = t
  BY ONLY <1>13
<1> QED BY ONLY <1>1, <1>12, <1>13, <1>14, Zenon DEF NoFrames

(* A read begins, or is answered at once where there is nothing.            *)
Begins(p, n) ==
  /\ call'.pc = "seek" /\ call'.start = p /\ call'.requested = n
  /\ p < file.packages /\ UNCHANGED result
AnsweredAtOnce(p, n) ==
  /\ UNCHANGED call
  /\ result'.ok = TRUE /\ result'.content = <<>>

LEMMA ReadStep ==
  ASSUME CompleteFiles, WholeFileInv, NEW p \in Nat, NEW n \in Nat \ {0}, Read(p, n)
  PROVE  /\ WholeFileInv' /\ UNCHANGED <<file, available>>
         /\ Begins(p, n) \/ AnsweredAtOnce(p, n)
<1>1. TablesInv /\ ReaderInv /\ BufferInv /\ CallInv /\ PackageInv /\ ResultInv
  BY DEF WholeFileInv
<1>2. /\ At("idle") /\ call = NoCall /\ call.pc = "idle" /\ ~reader.atStart
      /\ limits.start = 0 /\ limits.duration = file.packages /\ file.packages \in Nat
  BY <1>1, TablesAre DEF Read, CallInv, ReaderInv, At, TablesInv
<1>3. UNCHANGED <<file, available, pos, partitions, limits, chunks, index, phase>>
  BY DEF Read, fileVars
<1>4. ~IsBuffered(buffer, p, n) /\ OneFrame(PrepareRead(buffer, p, n), n)
  BY <1>1, <1>2, NothingBuffered
<1>5. TablesInv'
  BY <1>1, <1>3, TablesStay DEF SameTables
<1>6. CASE limits.duration > 0 /\ p < limits.start + limits.duration
  <2>1. p < file.packages
    BY <1>2, <1>6
  <2>2. /\ buffer' = PrepareRead(buffer, p, n)
        /\ call' = [NoCall EXCEPT !.pc = "seek", !.start = p, !.requested = n,
                                  !.count = Min({n, (limits.start + limits.duration) - p})]
        /\ reader' = [reader EXCEPT !.position = p]
        /\ result' = result
    <3>1. buffer' = PrepareRead(buffer, p, n)
      BY <1>4, <1>6, Zenon DEF Read
    <3>2. reader' = [reader EXCEPT !.position = p]
      BY <1>4, <1>6, Zenon DEF Read
    <3>3. result' = result
      BY <1>4, <1>6, Zenon DEF Read
    <3>4. call' = [NoCall EXCEPT !.pc = "seek", !.start = p, !.requested = n,
                                  !.count = Min({n, (limits.start + limits.duration) - p})]
      BY <1>4, <1>6, Zenon DEF Read
    <3> QED BY <3>1, <3>2, <3>3, <3>4
  <2>3. (limits.start + limits.duration) - p = file.packages - p
    BY <1>2
  <2>4. PICK m \in Nat : m = Min({n, file.packages - p}) /\ m > 0
    <3>1. Min({n, file.packages - p}) = IF n <= file.packages - p THEN n ELSE file.packages - p
      BY <1>2, MinOfTwo
    <3> QED BY <1>2, <2>1, <3>1
  <2>5. call' = [pc |-> "seek", mode |-> "none", start |-> p, requested |-> n, count |-> m,
                 read |-> 0, from |-> 0, base |-> 0, taken |-> 0, size |-> 0, content |-> <<>>]
    BY <2>2, <2>3, <2>4 DEF NoCall
  <2>6. PackagesFrom(p, 0)' = <<>>
    BY <1>3, NoPackages DEF PackagesFrom
  <2>7. PackagesRead' = <<>>
    BY <1>3, <2>5, <2>6 DEF PackagesRead, PackagesFrom
  <2>8. ReaderInv'
    BY <1>1, <1>2, <1>3, <2>2, <2>5 DEF ReaderInv, ReaderType, KnownType
  <2>9. BufferInv'
    <3>1. OneFrame(buffer', n)
      BY ONLY <1>4, <2>2, Zenon
    <3>2. call'.pc # "idle" /\ call'.requested = n
      BY ONLY <2>5
    <3> QED BY ONLY <3>1, <3>2, Zenon DEF BufferInv, At, OneFrame
  <2>10. CallInv'
    <3>1. call' \in CallType'
      <4>1. <<>> \in Seq(DOMAIN file'.items)
        BY EmptySeq
      <4> QED BY <2>5, <4>1 DEF CallType
    <3>2. reader'.position = p
      BY <1>1, <2>2 DEF ReaderInv, ReaderType
    <3> QED BY <1>3, <2>1, <2>4, <2>5, <2>7, <3>1, <3>2 DEF CallInv, At
  <2>11. PackageInv'
    BY <2>5 DEF PackageInv
  <2>12. ResultInv'
    BY <1>1, <1>3, <2>2 DEF ResultInv, FramesFromTheirPosition, PackagesFrom
  <2>13. Begins(p, n)
    BY <2>1, <2>2, <2>5 DEF Begins
  <2> QED BY <1>3, <1>5, <2>8, <2>9, <2>10, <2>11, <2>12, <2>13 DEF WholeFileInv
<1>7. CASE ~(limits.duration > 0 /\ p < limits.start + limits.duration)
  <2>1. /\ buffer' = PushFrames(PrepareRead(buffer, p, n), 0, <<>>)
        /\ call' = call
        /\ reader' = [reader EXCEPT !.position = p + n]
        /\ result' = [NoResult EXCEPT !.position = p, !.requested = n, !.read = 0, !.content = <<>>]
    BY <1>4, <1>7 DEF Read
  <2>2. NoFrames(buffer')
    BY ONLY <1>4, <2>1, Pushed
  <2>3. result'.ok = TRUE /\ result'.read = 0 /\ result'.content = <<>>
    BY <2>1 DEF NoResult
  <2>4. ReaderInv'
    BY <1>1, <1>2, <1>3, <2>1 DEF ReaderInv, ReaderType, KnownType
  <2>5. BufferInv'
    BY ONLY <1>2, <2>1, <2>2, Zenon DEF BufferInv, At, NoFrames
  <2>6. CallInv'
    BY <1>1, <1>2, <1>3, <2>1 DEF CallInv, At, CallType, PackagesRead, PackagesFrom
  <2>7. PackageInv'
    BY <1>2, <2>1 DEF PackageInv
  <2>8. ResultInv'
    BY <2>3 DEF ResultInv, FramesFromTheirPosition
  <2>9. AnsweredAtOnce(p, n)
    BY <2>1, <2>3 DEF AnsweredAtOnce
  <2> QED BY <1>3, <1>5, <2>4, <2>5, <2>6, <2>7, <2>8, <2>9 DEF WholeFileInv
<1> QED BY <1>6, <1>7

(* What a step within a read leaves alone.                                  *)
LEMMA BufferStays ==
  ASSUME BufferInv, call.pc # "idle", call'.pc # "idle", call'.requested = call.requested,
         buffer' = buffer
  PROVE  BufferInv'
<1>1. OneFrame(buffer, call.requested)
  BY Zenon DEF BufferInv, At
<1>2. OneFrame(buffer', call'.requested)
  BY <1>1, Zenon
<1> QED BY <1>2, Zenon DEF BufferInv, At, OneFrame

LEMMA ResultStays ==
  ASSUME ResultInv, result' = result, file' = file
  PROVE  ResultInv'
BY DEF ResultInv, FramesFromTheirPosition, PackagesFrom

(* The content package that is sought and read.                             *)
LEMMA AtPackage ==
  ASSUME CompleteFiles, WholeFileInv, call.pc \in {"seek", "open", "first", "rest", "ended"}
  PROVE  /\ reader.position \in Nat /\ reader.position < file.packages
         /\ reader.position = call.start + call.read
         /\ call.start \in Nat /\ call.read \in Nat /\ call.count \in Nat /\ call.read < call.count
         /\ call.requested \in Nat
         /\ PackagesRead \in Seq(DOMAIN file.items)
<1>1. TablesInv /\ ReaderInv /\ CallInv
  BY DEF WholeFileInv
<1>2. file.packages \in Nat
  BY <1>1, TablesAre
<1>3. /\ call.start \in Nat /\ call.read \in Nat /\ call.count \in Nat /\ call.requested \in Nat
  BY <1>1 DEF CallInv, CallType
<1>4. /\ call.requested >= 1 /\ call.start < file.packages /\ call.read < call.count
      /\ call.count = Min({call.requested, file.packages - call.start})
      /\ reader.position = call.start + call.read
      /\ PackagesRead \in Seq(DOMAIN file.items)
  BY <1>1, Zenon DEF CallInv, At
<1>5. call.count <= file.packages - call.start
  BY <1>2, <1>3, <1>4, MinOfTwo
<1> QED BY <1>2, <1>3, <1>4, <1>5

(* The package is known or indexed: the reader goes there.                  *)
LEMMA SeekStep ==
  ASSUME CompleteFiles, WholeFileInv, SeekEssence
  PROVE  WholeFileInv' /\ Quiet
<1>1. TablesInv /\ ReaderInv /\ BufferInv /\ CallInv /\ PackageInv /\ ResultInv
  BY DEF WholeFileInv
<1>2. At("seek") /\ call.pc = "seek"
  BY DEF SeekEssence, At
<1>3. PICK p \in Nat : p = reader.position /\ p < file.packages
  BY <1>2, AtPackage
<1>4. Position = p /\ ~reader.atStart /\ ~AtPosition
  BY <1>1, <1>2, <1>3 DEF Position, AtPosition, ReaderInv
<1>5. /\ index.segments # <<>> /\ SearchStarts(index) /\ HaveEditUnitOffset(index, p)
      /\ GetEditUnitOffset(index, p) = file.offsets[p + 1]
      /\ SegmentOf(index, p) \in DOMAIN index.segments
  BY <1>1, <1>3, Indexed
<1>6. PICK c \in DOMAIN chunks.chunks :
        /\ Sought(chunks, "offset", file.offsets[p + 1]) = [chunks EXCEPT !.last = c]
        /\ HaveFilePosition(chunks, file.offsets[p + 1])
        /\ GetFilePosition(chunks, file.offsets[p + 1]) = file.starts[p + 1]
  BY <1>1, <1>3, InChunk
<1>7. IndexedOffset = file.offsets[p + 1] /\ ~IndexUnusable
  BY <1>4, <1>5 DEF IndexedOffset, IndexUnusable
<1>8. IsKnown /\ KnownPosition = file.starts[p + 1]
  <2>1. CASE reader.known.base = p
    <3>1. reader.known.pos = file.starts[p + 1]
      BY <1>1, <1>3, <2>1 DEF ReaderInv
    <3> QED BY <1>4, <2>1, <3>1 DEF IsKnown, KnownPosition
  <2>2. CASE reader.known.base # p
    <3>1. AsksIndex
      BY <1>4, <1>5, <2>2 DEF AsksIndex
    <3> QED BY <1>4, <1>6, <1>7, <2>2, <3>1 DEF IsKnown, KnownPosition
  <2> QED BY <2>1, <2>2
<1>9. ~SeekFails(KnownPosition)
  <2>1. /\ file \in Files /\ file.complete /\ file.packages # 0
        /\ p + 1 \in 1 .. file.packages
    BY <1>1, <1>3, TablesAre DEF TablesInv
  <2>2. file.seekable
    BY <2>1, PackageFacts
  <2> QED BY <2>2 DEF SeekFails
<1>10. /\ index' = AskedIndex /\ UNCHANGED <<buffer, file, available, partitions, limits, phase>>
       /\ pos' = file.starts[p + 1] /\ result' = result
       /\ SetContentPackageStart(p, file.starts[p + 1], 0, AskedChunks) /\ GoTo("open")
  BY <1>4, <1>7, <1>8, <1>9, Zenon DEF SeekEssence, fileVars
<1>11. call' = [call EXCEPT !.pc = "open"]
  BY <1>10 DEF GoTo
<1>12. AskedIndex = index \/ \E s \in DOMAIN index.segments : AskedIndex = [index EXCEPT !.last = s]
  BY <1>4, <1>5 DEF AskedIndex, Found
<1>13. AskedChunks = chunks \/ AskedChunks = [chunks EXCEPT !.last = c]
  BY <1>6, <1>7 DEF AskedChunks
<1>14. chunks' = AskedChunks
  <2>1. chunks.complete
    BY <1>1, TablesAre DEF ChunksInOrder
  <2>2. AskedChunks.complete
    <3>1. ChunksInOrder(chunks)
      BY <1>1, TablesAre
    <3> QED BY <1>13, <2>1, <3>1 DEF ChunksInOrder
  <2> QED BY <1>10, <2>2 DEF SetContentPackageStart
<1>15. reader' = [reader EXCEPT
         !.base = p, !.filePosition = file.starts[p + 1], !.nextKey = 0, !.atStart = TRUE,
         !.startKey = @ \/ 0 # 0, !.readError = FALSE,
         !.known = IF p > @.base THEN [base |-> p, pos |-> file.starts[p + 1]] ELSE @]
  BY <1>10 DEF SetContentPackageStart
<1>16. file.starts[p + 1] \in Nat
  BY <1>1, <1>3, PackageBegins DEF Begin
<1>17. TablesInv'
  <2>1. SameTables
    BY <1>10, <1>12, <1>13, <1>14 DEF SameTables
  <2> QED BY <1>1, <2>1, TablesStay
<1>18. /\ call'.pc = "open" /\ call'.start = call.start /\ call'.requested = call.requested
       /\ call'.count = call.count /\ call'.read = call.read /\ call'.content = call.content
       /\ call' \in CallType
  BY <1>1, <1>11 DEF CallInv, CallType
<1>19. ReaderInv'
  <2>1. PICK q \in Nat : q = file.starts[p + 1]
    BY <1>16
  <2>2. PICK k : k = IF p > reader.known.base THEN [base |-> p, pos |-> q] ELSE reader.known
    OBVIOUS
  <2>3. /\ k \in KnownType
        /\ k.base >= 0 => k.base < file.packages /\ k.pos = file.starts[k.base + 1]
    BY <1>1, <1>3, <2>1, <2>2 DEF ReaderInv, ReaderType, KnownType
  <2>4. reader' = [reader EXCEPT !.base = p, !.filePosition = q, !.nextKey = 0, !.atStart = TRUE,
                     !.startKey = reader.startKey, !.readError = FALSE, !.known = k]
    BY <1>1, <1>15, <2>1, <2>2 DEF ReaderInv, ReaderType
  <2>5. /\ reader' \in ReaderType /\ reader'.known = k /\ reader'.position = p
        /\ reader'.base = p /\ reader'.filePosition = q /\ reader'.nextKey = 0
        /\ reader'.atStart /\ ~reader'.readError /\ reader'.complete /\ reader'.haveFooter
    <3>1. /\ reader \in ReaderType /\ reader.complete /\ reader.haveFooter
          /\ reader.position = p /\ p \in Int /\ q \in Int /\ k \in KnownType
      BY <1>1, <1>3, <2>3 DEF ReaderInv
    <3>2. reader' \in ReaderType
      BY ONLY <2>4, <3>1 DEF ReaderType
    <3>3. /\ reader'.known = k /\ reader'.position = p /\ reader'.base = p
          /\ reader'.filePosition = q /\ reader'.nextKey = 0
      BY ONLY <2>4, <3>1 DEF ReaderType
    <3>4. /\ reader'.atStart = TRUE /\ reader'.readError = FALSE
          /\ reader'.complete = reader.complete /\ reader'.haveFooter = reader.haveFooter
      BY ONLY <2>4, <3>1 DEF ReaderType
    <3> QED BY <3>1, <3>2, <3>3, <3>4
  <2> QED BY <1>10, <1>18, <2>1, <2>3, <2>5 DEF ReaderInv
<1>20. reader'.position = reader.position
  BY <1>1, <1>15 DEF ReaderInv, ReaderType
<1>21. PackagesRead' = PackagesRead
  BY <1>10, <1>18 DEF PackagesRead, PackagesFrom
<1>22. CallInv'
  BY <1>1, <1>2, <1>10, <1>18, <1>20, <1>21, Zenon DEF CallInv, At, CallType
<1>23. BufferInv' /\ ResultInv'
  BY <1>1, <1>2, <1>10, <1>18, BufferStays, ResultStays
<1>24. PackageInv'
  BY <1>18 DEF PackageInv
<1> QED BY <1>10, <1>17, <1>18, <1>19, <1>22, <1>23, <1>24 DEF WholeFileInv, Quiet

(* The reader is where the index says, and learns the size.                 *)
LEMMA OpenStep ==
  ASSUME CompleteFiles, WholeFileInv, OpenPackage
  PROVE  WholeFileInv' /\ Quiet
<1>1. TablesInv /\ ReaderInv /\ BufferInv /\ CallInv /\ PackageInv /\ ResultInv
  BY DEF WholeFileInv
<1>2. At("open") /\ call.pc = "open"
  BY DEF OpenPackage, At
<1>3. PICK p \in Nat : p = reader.position /\ p < file.packages
  BY <1>2, AtPackage
<1>4. /\ Position = p /\ reader.filePosition = pos /\ pos = file.starts[p + 1]
      /\ reader.filePosition \in Int
  BY <1>1, <1>2, <1>3 DEF Position, ReaderInv, ReaderType
<1>5. /\ index.segments # <<>> /\ SearchStarts(index) /\ HaveEditUnitOffset(index, p)
      /\ HaveEditUnit(index, p) /\ HaveEditUnitSize(index, p)
      /\ GetEditUnitOffset(index, p) = file.offsets[p + 1]
      /\ GetEditUnitSize(index, p) = PackageSize(file, p + 1)
      /\ SegmentOf(index, p) \in DOMAIN index.segments
  BY <1>1, <1>3, Indexed
<1>6. PICK c \in DOMAIN chunks.chunks :
        /\ Sought(chunks, "offset", file.offsets[p + 1]) = [chunks EXCEPT !.last = c]
        /\ HaveEditUnitPosition(chunks, file.offsets[p + 1], PackageSize(file, p + 1))
        /\ GetFilePosition(chunks, file.offsets[p + 1]) = file.starts[p + 1]
  BY <1>1, <1>3, InChunk
<1>7. Sized /\ Offset = file.offsets[p + 1] /\ Size = PackageSize(file, p + 1)
  BY <1>4, <1>5 DEF Sized, Offset, Size
<1>8. PICK n \in Nat \ {0} : n = PackageSize(file, p + 1)
  BY <1>1, <1>3, PackageBegins
<1>9. ~OpenUndefined /\ ~OpenElsewhere
  BY <1>4, <1>5, <1>6, <1>7 DEF OpenUndefined, OpenElsewhere
<1>10. ~OpenBeyond /\ ~OpenFails
  <2>1. ~(Position >= index.duration)
    <3>1. index.duration = file.packages /\ file.packages \in Nat
      BY <1>1, TablesAre
    <3> QED BY <1>3, <1>4, <3>1
  <2> QED BY <1>6, <1>7, <1>8, <2>1 DEF OpenFails, OpenBeyond
<1>11. /\ call' = [call EXCEPT !.pc = "first", !.mode = "read", !.from = reader.filePosition,
                     !.base = Position, !.taken = 0, !.size = IF Sized THEN Size ELSE 0]
       /\ chunks' = OpenedChunks /\ index' = FoundWithSize(index, Position)
       /\ reader' = reader /\ result' = result
       /\ UNCHANGED <<file, available, pos, partitions, limits, buffer, phase>>
  BY <1>7, <1>9, <1>10, Zenon DEF OpenPackage, OpenedIndex, fileVars
<1>12. TablesInv'
  <2>1. \E s \in DOMAIN index.segments : index' = [index EXCEPT !.last = s]
    <3>1. PICK q \in Nat : /\ q = IF SizeFromNext(index, p) THEN p + 1 ELSE p
                           /\ q < file.packages
      <4>1. index.duration = file.packages /\ file.packages \in Nat
        BY <1>1, TablesAre
      <4> QED BY <1>3, <4>1 DEF SizeFromNext
    <3>2. SegmentOf(index, q) \in DOMAIN index.segments
      BY <1>1, <3>1, Indexed
    <3> QED BY <1>4, <1>11, <3>1, <3>2 DEF FoundWithSize, Found
  <2>2. chunks' = chunks \/ \E i \in DOMAIN chunks.chunks : chunks' = [chunks EXCEPT !.last = i]
    BY <1>6, <1>7, <1>11 DEF OpenedChunks
  <2>3. SameTables
    BY <1>11, <2>1, <2>2 DEF SameTables
  <2> QED BY <1>1, <2>3, TablesStay
<1>13. call' = [call EXCEPT !.pc = "first", !.mode = "read", !.from = reader.filePosition,
                  !.base = p, !.taken = 0, !.size = n]
  BY <1>4, <1>7, <1>8, <1>11
<1>14. call \in CallType
  BY <1>1 DEF CallInv
<1>15. /\ call'.pc = "first" /\ call'.start = call.start /\ call'.requested = call.requested
       /\ call'.count = call.count /\ call'.read = call.read /\ call'.content = call.content
       /\ call'.mode = "read" /\ call'.taken = 0 /\ call'.size = n /\ call' \in CallType
  <2>1. reader.filePosition \in Int /\ p \in Int /\ n \in Nat
    BY <1>4, <1>8
  <2>2. call' \in CallType
    BY ONLY <1>13, <1>14, <2>1 DEF CallType
  <2>3. /\ call'.pc = "first" /\ call'.start = call.start /\ call'.requested = call.requested
        /\ call'.count = call.count /\ call'.read = call.read /\ call'.content = call.content
    BY ONLY <1>13, <1>14 DEF CallType
  <2>4. call'.mode = "read" /\ call'.taken = 0 /\ call'.size = n
    BY ONLY <1>13, <1>14 DEF CallType
  <2> QED BY <2>2, <2>3, <2>4
<1>16. ReaderInv'
  BY <1>1, <1>2, <1>11, <1>15 DEF ReaderInv
<1>17. PackagesRead' = PackagesRead
  BY <1>11, <1>15 DEF PackagesRead, PackagesFrom
<1>18. CallInv'
  BY <1>1, <1>2, <1>11, <1>15, <1>17, Zenon DEF CallInv, At, CallType
<1>19. BufferInv' /\ ResultInv'
  BY <1>1, <1>2, <1>11, <1>15, BufferStays, ResultStays
<1>20. PackageInv'
  <2>1. /\ Begin(p) \in Nat /\ IsItem(file.itemAt[Begin(p)])
        /\ Passed(p + 1, 0, Begin(p)) /\ 0 \in 0 .. Len(file.content[p + 1])
    BY <1>1, <1>3, PackageBegins, PassedAtEnds
  <2>2. pos = file.starts[p + 1] + 0 /\ Begin(p) = pos
    BY <1>4, <2>1 DEF Begin
  <2>3. call.content = PackagesRead /\ PackagesRead \in Seq(DOMAIN file.items)
    BY <1>1, <1>2, AtPackage DEF CallInv
  <2>4. PackagesRead \o SubSeq(file.content[p + 1], 1, 0) = PackagesRead
    <3>1. SubSeq(file.content[p + 1], 1, 0) = <<>>
      OBVIOUS
    <3> QED BY <2>3, <3>1, ConcatEmptySeq
  <2>5. Passed(p + 1, 0, pos)' /\ file'.content[p + 1] = file.content[p + 1]
    BY <1>11, <2>1, <2>2 DEF Passed
  <2>6. /\ reader'.position = p /\ pos' = file'.starts[p + 1] + call'.taken
        /\ file'.itemAt[pos'] \in DOMAIN file'.items
        /\ call'.size = PackageSize(file, p + 1)'
    BY <1>3, <1>8, <1>11, <1>15, <2>1, <2>2 DEF PackageSize, IsItem
  <2>7. call'.content = PackagesRead' \o SubSeq(file'.content[p + 1], 1, 0)
    BY <1>15, <1>17, <2>3, <2>4, <2>5
  <2> QED BY <1>15, <2>1, <2>5, <2>6, <2>7 DEF PackageInv, At
<1> QED BY <1>11, <1>12, <1>15, <1>16, <1>18, <1>19, <1>20 DEF WholeFileInv, Quiet

(* In a package, the next item is there.                                    *)
LEMMA InPackage ==
  ASSUME CompleteFiles, WholeFileInv, call.pc \in {"first", "rest"},
         call.pc = "first" \/ call.taken < call.size
  PROVE  \E p \in Nat :
           /\ p = reader.position /\ p < file.packages
           /\ pos \in Nat /\ Begin(p) <= pos /\ pos < End(p)
           /\ call.size = PackageSize(file, p + 1) /\ pos = Begin(p) + call.taken
           /\ call.mode = "read" /\ call.taken \in Nat /\ call.size \in Nat \ {0}
           /\ (call.pc = "first" <=> pos = Begin(p))
           /\ ItemHere = file.itemAt[pos] /\ IsItem(ItemHere) /\ ~KLFails
<1>1. TablesInv /\ ReaderInv /\ CallInv /\ PackageInv
  BY DEF WholeFileInv
<1>2. PICK p \in Nat : p = reader.position /\ p < file.packages
  BY AtPackage
<1>3. /\ call.mode = "read" /\ call.size = PackageSize(file, p + 1)
      /\ pos = file.starts[p + 1] + call.taken /\ (call.pc = "first" <=> call.taken = 0)
      /\ call.taken < call.size => file.itemAt[pos] \in DOMAIN file.items
  BY <1>1, <1>2 DEF PackageInv, At
<1>4. /\ Begin(p) \in Nat /\ PackageSize(file, p + 1) \in Nat \ {0}
      /\ End(p) \in Nat /\ End(p) <= available /\ file.length \in Nat
  BY <1>1, <1>2, PackageBegins
<1>5. call.taken \in Nat
  BY <1>1 DEF CallInv, CallType
<1>6. call.taken < call.size
  BY <1>3, <1>4, <1>5
<1>7. pos \in Nat /\ Begin(p) <= pos /\ pos < End(p) /\ (pos = Begin(p) <=> call.taken = 0)
  <2>1. pos = Begin(p) + call.taken /\ End(p) = Begin(p) + call.size
    BY <1>3 DEF Begin, End
  <2> QED BY <1>3, <1>4, <1>5, <1>6, <2>1
<1>8. available = file.length
  BY <1>1 DEF TablesInv
<1>9. pos < file.length
  BY <1>4, <1>7, <1>8
<1>10. ItemHere = file.itemAt[pos] /\ IsItem(ItemHere)
  BY <1>3, <1>6, <1>9 DEF ItemHere, IsItem
<1>11. ItemHere # 0
  BY <1>1, <1>2, <1>7, <1>10, ItemInPackage
<1>12. ~KLFails
  BY <1>4, <1>7, <1>8, <1>9, <1>11 DEF KLFails
<1>13. pos = Begin(p) + call.taken
  BY <1>3 DEF Begin
<1> QED BY <1>2, <1>3, <1>4, <1>5, <1>7, <1>10, <1>12, <1>13

(* The item is passed, and its value taken if it is essence.                *)
Advances(i) ==
  /\ UNCHANGED <<file, available, result>>
  /\ reader'.position = reader.position
  /\ pos' = AfterItem(i)
  /\ call'.pc = "rest" /\ call'.taken = call.taken + Item(i).size
  /\ call'.content = IF Item(i).kind \in {"start", "element"} THEN Append(call.content, i)
                     ELSE call.content
  /\ call'.start = call.start /\ call'.requested = call.requested /\ call'.count = call.count
  /\ call'.read = call.read /\ call'.mode = call.mode /\ call'.size = call.size

LEMMA AdvanceInPackage ==
  ASSUME CompleteFiles, WholeFileInv, call.pc \in {"first", "rest"},
         call.pc = "first" \/ call.taken < call.size, Advances(ItemHere)
  PROVE  PackageInv' /\ PackagesRead' = PackagesRead
<1>1. TablesInv /\ PackageInv /\ PackagesRead \in Seq(DOMAIN file.items)
  BY AtPackage DEF WholeFileInv
<1>2. PICK p \in Nat :
        /\ p = reader.position /\ p < file.packages
        /\ pos \in Nat /\ Begin(p) <= pos /\ pos < End(p)
        /\ call.size = PackageSize(file, p + 1) /\ pos = Begin(p) + call.taken
        /\ call.mode = "read" /\ call.taken \in Nat /\ call.size \in Nat \ {0}
        /\ ItemHere = file.itemAt[pos] /\ IsItem(ItemHere)
  BY InPackage
<1>3. PICK i : i = ItemHere
  OBVIOUS
<1>4. /\ Item(i).size \in Nat \ {0} /\ AfterItem(i) = pos + Item(i).size
      /\ AfterItem(i) <= End(p) /\ (AfterItem(i) < End(p) => IsItem(file.itemAt[AfterItem(i)]))
  BY <1>1, <1>2, <1>3, ItemInPackage
<1>5. PICK k \in 0 .. Len(file.content[p + 1]) :
        /\ Passed(p + 1, k, pos)
        /\ call.content = PackagesRead \o SubSeq(file.content[p + 1], 1, k)
  BY <1>1, <1>2 DEF PackageInv
<1>6. IF Item(i).kind \in {"start", "element"}
      THEN k + 1 \in 0 .. Len(file.content[p + 1]) /\ Passed(p + 1, k + 1, AfterItem(i)) /\ Taken(p, k, i)
      ELSE Passed(p + 1, k, AfterItem(i))
  BY <1>1, <1>2, <1>3, <1>5, PassesItem
<1>7. file' = file /\ PackagesRead' = PackagesRead
  BY DEF Advances, PackagesRead, PackagesFrom
<1>8. PICK c \in Seq(DOMAIN file.items) : c = file.content[p + 1]
  BY <1>1, <1>2, PackageBegins
<1>9. \E m \in 0 .. Len(file.content[p + 1]) :
        /\ Passed(p + 1, m, AfterItem(i))
        /\ call'.content = PackagesRead \o SubSeq(file.content[p + 1], 1, m)
  <2>1. CASE Item(i).kind \in {"start", "element"}
    <3>1. call'.content = Append(call.content, i)
      BY <1>3, <2>1 DEF Advances
    <3>2. SubSeq(c, 1, k + 1) = Append(SubSeq(c, 1, k), i)
      BY <1>6, <1>8, <2>1 DEF Taken
    <3>3. PICK s \in Seq(DOMAIN file.items) : s = SubSeq(c, 1, k)
      <4>1. PICK S : S = DOMAIN file.items
        OBVIOUS
      <4>2. c \in Seq(S) /\ k \in 0 .. Len(c)
        BY <1>5, <1>8, <4>1
      <4>3. \A j \in 1 .. k : c[j] \in S
        BY ONLY <4>2
      <4>4. SubSeq(c, 1, k) \in Seq(S)
        BY ONLY <4>2, <4>3, SubSeqProperties
      <4> QED BY <4>1, <4>4
    <3>4. PICK r \in Seq(DOMAIN file.items) : r = PackagesRead
      BY <1>1
    <3>5. i \in DOMAIN file.items
      BY <1>2, <1>3 DEF IsItem
    <3>6. Append(r \o s, i) = r \o Append(s, i)
      <4>1. PICK S : S = DOMAIN file.items
        OBVIOUS
      <4>2. r \in Seq(S) /\ s \in Seq(S) /\ i \in S
        BY <3>3, <3>4, <3>5, <4>1
      <4>3. r \o s \in Seq(S) /\ <<i>> \in Seq(S)
        BY ONLY <4>2
      <4>4. Append(r \o s, i) = (r \o s) \o <<i>> /\ Append(s, i) = s \o <<i>>
        BY ONLY <4>2, <4>3, AppendIsConcat
      <4>5. (r \o s) \o <<i>> = r \o (s \o <<i>>)
        BY ONLY <4>2, <4>3, ConcatAssociative
      <4> QED BY ONLY <4>4, <4>5
    <3>7. call.content = r \o s
      BY <1>5, <1>8, <3>3, <3>4
    <3>8. call'.content = PackagesRead \o SubSeq(file.content[p + 1], 1, k + 1)
      BY <1>8, <3>1, <3>2, <3>3, <3>4, <3>6, <3>7
    <3> QED BY <1>6, <2>1, <3>8
  <2>2. CASE Item(i).kind \notin {"start", "element"}
    BY <1>3, <1>5, <1>6, <2>2 DEF Advances
  <2> QED BY <2>1, <2>2
<1>10. PICK m \in 0 .. Len(file.content[p + 1]) :
        /\ Passed(p + 1, m, AfterItem(i))
        /\ call'.content = PackagesRead \o SubSeq(file.content[p + 1], 1, m)
  BY <1>9
<1>11. /\ reader'.position = p /\ pos' = AfterItem(i) /\ call'.pc = "rest"
       /\ call'.taken = call.taken + Item(i).size /\ call'.size = call.size /\ call'.mode = "read"
  BY <1>2, <1>3 DEF Advances
<1>12. Passed(p + 1, m, pos)' /\ call'.size = PackageSize(file, p + 1)'
  BY <1>2, <1>7, <1>10, <1>11 DEF Passed, PackageSize
<1>13. /\ pos' = file'.starts[p + 1] + call'.taken
       /\ call'.taken <= call'.size /\ call'.taken # 0
       /\ call'.taken < call'.size => file'.itemAt[pos'] \in DOMAIN file'.items
  <2>1. PICK b \in Nat : b = file.starts[p + 1] /\ b = Begin(p) /\ End(p) = b + call.size
    BY <1>1, <1>2, PackageBegins DEF Begin, End
  <2>2. PICK n \in Nat \ {0} : n = Item(i).size
    BY <1>4
  <2>3. /\ call'.taken = call.taken + n /\ call'.size = call.size
        /\ pos' = pos + n /\ pos = b + call.taken /\ pos + n <= b + call.size
        /\ pos + n < b + call.size => IsItem(file.itemAt[pos + n])
    BY <1>2, <1>4, <1>11, <2>1, <2>2
  <2>4. /\ call.taken \in Nat /\ call.size \in Nat
    BY <1>2
  <2>5. pos' = b + call'.taken /\ call'.taken <= call'.size /\ call'.taken # 0
    <3>1. PICK t \in Nat, z \in Nat : t = call.taken /\ z = call.size
      BY <2>4
    <3>2. (b + t) + n <= b + z
      BY <2>3, <3>1
    <3>3. t + n <= z /\ (b + t) + n = b + (t + n) /\ t + n # 0
      BY ONLY <3>2
    <3>4. call'.taken = t + n /\ call'.size = z /\ pos' = (b + t) + n
      BY <2>3, <3>1
    <3> QED BY ONLY <3>3, <3>4, Zenon
  <2>6. call'.taken < call'.size => IsItem(file.itemAt[pos'])
    BY ONLY <2>1, <2>2, <2>3, <2>4
  <2> QED BY <1>7, <2>1, <2>5, <2>6 DEF IsItem
<1>14. PackageInv'
  BY <1>7, <1>10, <1>11, <1>12, <1>13, Zenon DEF PackageInv, At
<1> QED BY <1>7, <1>14

LEMMA AdvanceStep ==
  ASSUME CompleteFiles, WholeFileInv, call.pc \in {"first", "rest"},
         call.pc = "first" \/ call.taken < call.size, Advances(ItemHere), ReaderInv', call' \in CallType,
         UNCHANGED <<limits, chunks, index, buffer>>
  PROVE  WholeFileInv' /\ Quiet
<1>1. TablesInv /\ ReaderInv /\ BufferInv /\ CallInv /\ ResultInv
  BY DEF WholeFileInv
<1>2. PackageInv' /\ PackagesRead' = PackagesRead
  BY AdvanceInPackage
<1>3. /\ UNCHANGED <<file, available, result>> /\ reader'.position = reader.position
      /\ call'.pc = "rest" /\ call'.start = call.start /\ call'.requested = call.requested
      /\ call'.count = call.count /\ call'.read = call.read
  BY DEF Advances
<1>4. TablesInv'
  BY <1>1, <1>3, TablesStay DEF SameTables
<1>5. BufferInv' /\ ResultInv'
  BY <1>1, <1>3, BufferStays, ResultStays
<1>6. CallInv'
  BY <1>1, <1>2, <1>3, Zenon DEF CallInv, At, CallType
<1> QED BY <1>2, <1>3, <1>4, <1>5, <1>6 DEF WholeFileInv, Quiet

(* An essence element is read, which is all there.                          *)
LEMMA ValueRead ==
  ASSUME CompleteFiles, WholeFileInv, call.pc \in {"first", "rest"},
         call.pc = "first" \/ call.taken < call.size, NEW r, ReadValue(ItemHere, r),
         r.position = reader.position,
         Item(ItemHere).kind \in {"start", "element"}, UNCHANGED <<file, available>>
  PROVE  Advances(ItemHere) /\ reader' = r /\ call' \in CallType
<1>1. TablesInv /\ CallInv
  BY DEF WholeFileInv
<1>2. PICK p \in Nat :
        /\ p = reader.position /\ p < file.packages
        /\ pos \in Nat /\ Begin(p) <= pos /\ pos < End(p)
        /\ ItemHere = file.itemAt[pos] /\ IsItem(ItemHere)
  BY InPackage
<1>3. PICK i : i = ItemHere
  OBVIOUS
<1>4. PICK n \in Nat : n = Item(i).size /\ AfterItem(i) = pos + n /\ AfterItem(i) <= End(p)
  BY <1>1, <1>2, <1>3, ItemInPackage
<1>5. End(p) <= available /\ End(p) \in Nat /\ available \in Nat
  BY <1>1, <1>2, PackageBegins DEF TablesInv
<1>6. AfterItem(i) <= available
  BY <1>2, <1>4, <1>5
<1>7. /\ pos' = AfterItem(i) /\ reader' = r /\ result' = result
      /\ call' = [call EXCEPT !.pc = "rest", !.taken = call.taken + n,
                              !.content = Append(call.content, i)]
  BY <1>3, <1>4, <1>6 DEF ReadValue
<1>8. call \in CallType /\ i \in DOMAIN file.items
  BY <1>1, <1>2, <1>3 DEF CallInv, IsItem
<1>9. PICK c : c = Append(call.content, i)
  OBVIOUS
<1>10. c \in Seq(DOMAIN file.items)
  <2>1. call.content \in Seq(DOMAIN file.items)
    BY <1>8 DEF CallType
  <2>2. PICK S, s : S = DOMAIN file.items /\ s = call.content
    OBVIOUS
  <2>3. s \in Seq(S) /\ i \in S /\ c = Append(s, i)
    BY <1>8, <1>9, <2>1, <2>2
  <2>4. c \in Seq(S)
    BY ONLY <2>3
  <2> QED BY <2>2, <2>4
<1>11. PICK t \in Nat : t = call.taken + n
  BY <1>8 DEF CallType
<1>12. call' = [call EXCEPT !.pc = "rest", !.taken = t, !.content = c]
  BY <1>7, <1>9, <1>11
<1>13. call' \in CallType
  BY ONLY <1>8, <1>10, <1>11, <1>12 DEF CallType
<1>14. /\ call'.pc = "rest" /\ call'.taken = t /\ call'.content = c
       /\ call'.start = call.start /\ call'.requested = call.requested /\ call'.count = call.count
       /\ call'.read = call.read /\ call'.mode = call.mode /\ call'.size = call.size
  BY ONLY <1>8, <1>12 DEF CallType
<1> QED BY <1>3, <1>4, <1>7, <1>9, <1>11, <1>13, <1>14 DEF Advances

(* The first element of a package, which starts it.                         *)
LEMMA FirstStep ==
  ASSUME CompleteFiles, WholeFileInv, FirstElement
  PROVE  WholeFileInv' /\ Quiet
<1>1. TablesInv /\ ReaderInv /\ CallInv
  BY DEF WholeFileInv
<1>2. call.pc = "first" /\ UNCHANGED <<file, available, limits, chunks, index, buffer>>
  BY DEF FirstElement, At, fileVars
<1>3. PICK p \in Nat :
        /\ p = reader.position /\ p < file.packages
        /\ pos \in Nat /\ Begin(p) <= pos /\ pos < End(p) /\ pos = Begin(p)
        /\ ItemHere = file.itemAt[pos] /\ IsItem(ItemHere) /\ ~KLFails
  BY <1>2, InPackage
<1>4. Item(ItemHere).kind = "start"
  BY <1>1, <1>3, ItemInPackage
<1>5. reader.nextKey = 0 /\ reader \in ReaderType
  BY <1>1 DEF ReaderInv
<1>6. ~FirstKLFails /\ FirstItem = ItemHere
  BY <1>3, <1>4, <1>5 DEF FirstKLFails, FirstItem
<1>7. PICK r : r = [ResetState(reader) EXCEPT !.startKey = TRUE]
  OBVIOUS
<1>8. ReadValue(ItemHere, r)
  BY <1>6, <1>7, Zenon DEF FirstElement
<1>9. r = [reader EXCEPT !.nextKey = 0, !.atStart = FALSE, !.startKey = TRUE]
  BY <1>5, <1>7 DEF ResetState, ReaderType
<1>10. /\ r \in ReaderType /\ r.position = reader.position /\ r.nextKey = 0 /\ r.atStart = FALSE
       /\ r.known = reader.known /\ r.readError = reader.readError
       /\ r.complete = reader.complete /\ r.haveFooter = reader.haveFooter
  <2>1. r \in ReaderType
    BY ONLY <1>5, <1>9 DEF ReaderType
  <2>2. r.position = reader.position /\ r.nextKey = 0 /\ r.known = reader.known
    BY ONLY <1>5, <1>9 DEF ReaderType
  <2>3. r.atStart = FALSE /\ r.readError = reader.readError
    BY ONLY <1>5, <1>9 DEF ReaderType
  <2>4. r.complete = reader.complete /\ r.haveFooter = reader.haveFooter
    BY ONLY <1>5, <1>9 DEF ReaderType
  <2> QED BY <2>1, <2>2, <2>3, <2>4
<1>11. Advances(ItemHere) /\ reader' = r /\ call' \in CallType
  BY <1>2, <1>4, <1>8, <1>10, ValueRead
<1>12. call'.pc = "rest"
  BY <1>11 DEF Advances
<1>13. ReaderInv'
  BY <1>1, <1>2, <1>10, <1>11, <1>12 DEF ReaderInv
<1> QED BY <1>2, <1>11, <1>13, AdvanceStep

RestStepOf == RestEnough \/ RestFails \/ RestAtStart \/ RestAtPartition \/ RestAtOther

(* The items after the first, up to the size of the package.                *)
LEMMA RestStep ==
  ASSUME CompleteFiles, WholeFileInv, RestStepOf
  PROVE  WholeFileInv' /\ Quiet
<1>1. TablesInv /\ ReaderInv /\ BufferInv /\ CallInv /\ PackageInv /\ ResultInv
  BY DEF WholeFileInv
<1>2. call.pc = "rest"
  BY DEF RestStepOf, RestEnough, RestFails, RestAtStart, RestAtPartition, RestAtOther, Rest, At
<1>3. PICK p \in Nat : p = reader.position /\ p < file.packages
  BY <1>2, AtPackage
<1>4. /\ call.mode = "read" /\ call.size = PackageSize(file, p + 1) /\ call.taken <= call.size
      /\ call.taken # 0 /\ pos = Begin(p) + call.taken
  BY <1>1, <1>2, <1>3 DEF PackageInv, At, Begin
<1>5. call.size \in Nat \ {0} /\ call.taken \in Nat /\ call \in CallType
  BY <1>1, <1>3, <1>4, PackageBegins DEF CallInv, CallType
<1>6. CASE Enough
  <2>1. RestEnough
    BY <1>6 DEF RestStepOf, RestFails, RestAtStart, RestAtPartition, RestAtOther, Rest
  <2>2. call.taken = call.size
    BY <1>4, <1>5, <1>6 DEF Enough
  <2>3. /\ call' = [call EXCEPT !.pc = "ended"]
        /\ UNCHANGED <<file, available, pos, partitions, reader, limits, chunks, index, buffer,
                       result>>
    BY <2>1 DEF RestEnough, GoTo, fileVars
  <2>4. /\ call'.pc = "ended" /\ call'.start = call.start /\ call'.requested = call.requested
        /\ call'.count = call.count /\ call'.read = call.read /\ call'.mode = call.mode
        /\ call'.content = call.content /\ call'.taken = call.taken /\ call'.size = call.size
        /\ call' \in CallType
    BY ONLY <1>5, <2>3 DEF CallType
  <2>5. TablesInv'
    BY <1>1, <2>3, TablesStay DEF SameTables
  <2>6. BufferInv' /\ ResultInv'
    BY <1>1, <1>2, <2>3, <2>4, BufferStays, ResultStays
  <2>7. PackagesRead' = PackagesRead
    BY <2>3, <2>4 DEF PackagesRead, PackagesFrom
  <2>8. CallInv'
    BY <1>1, <1>2, <2>3, <2>4, <2>7, Zenon DEF CallInv, At, CallType
  <2>9. ReaderInv'
    BY <1>1, <1>2, <2>3, <2>4 DEF ReaderInv
  <2>10. PackageInv'
    <3>1. PICK k \in 0 .. Len(file.content[p + 1]) :
            /\ Passed(p + 1, k, pos)
            /\ call.content = PackagesRead \o SubSeq(file.content[p + 1], 1, k)
      BY <1>1, <1>2, <1>3 DEF PackageInv
    <3>2. Passed(p + 1, k, pos)' /\ call'.size = PackageSize(file, p + 1)'
      BY <1>4, <2>3, <2>4, <3>1 DEF Passed, PackageSize
    <3>3. call'.content = PackagesRead' \o SubSeq(file'.content[p + 1], 1, k)
      BY <2>3, <2>4, <2>7, <3>1
    <3>4. pos' = file'.starts[p + 1] + call'.taken /\ reader'.position = p
      BY <1>3, <1>4, <2>3, <2>4 DEF Begin
    <3>5. k \in 0 .. Len(file'.content[p + 1])
      BY <2>3, <3>1
    <3>6. call'.taken # 0 /\ call'.taken <= call'.size /\ ~(call'.taken < call'.size)
          /\ call'.taken = call'.size /\ call'.mode = "read"
      BY <1>4, <1>5, <2>2, <2>4
    <3> QED BY <2>4, <3>2, <3>3, <3>4, <3>5, <3>6, Zenon DEF PackageInv, At
  <2> QED BY <2>3, <2>4, <2>5, <2>6, <2>8, <2>9, <2>10 DEF WholeFileInv, Quiet
<1>7. CASE ~Enough
  <2>1. call.taken < call.size
    BY <1>4, <1>5, <1>7 DEF Enough
  <2>2. /\ pos \in Nat /\ Begin(p) <= pos /\ pos < End(p) /\ pos # Begin(p)
        /\ ItemHere = file.itemAt[pos] /\ IsItem(ItemHere) /\ ~KLFails
    BY <1>2, <1>3, <2>1, InPackage
  <2>3. /\ Item(ItemHere).kind \notin {"start", "partition"}
        /\ Item(ItemHere).size \in Nat
    BY <1>1, <1>3, <2>2, ItemInPackage
  <2>4. RestAtOther
    BY <1>7, <2>2, <2>3 DEF RestStepOf, RestEnough, RestFails, RestAtStart, RestAtPartition
  <2>5. UNCHANGED <<file, available, limits, chunks, index, buffer>>
    BY <2>4 DEF RestAtOther, fileVars
  <2>6. Advances(ItemHere) /\ reader' = reader /\ call' \in CallType
    <3>1. CASE Item(ItemHere).kind = "element"
      <4>1. ReadValue(ItemHere, reader)
        BY <1>4, <2>4, <3>1 DEF RestAtOther
      <4> QED BY <1>2, <2>1, <2>5, <3>1, <4>1, ValueRead
    <3>2. CASE Item(ItemHere).kind # "element"
      <4>1. /\ pos' = AfterItem(ItemHere) /\ reader' = reader /\ result' = result
            /\ call' = [call EXCEPT !.taken = @ + Item(ItemHere).size]
        BY <2>4, <3>2 DEF RestAtOther
      <4>2. PICK n \in Nat : n = Item(ItemHere).size
        BY <2>3
      <4>3. PICK t \in Nat : t = call.taken + n
        BY <1>5
      <4>4. call' = [call EXCEPT !.taken = t]
        BY <4>1, <4>2, <4>3
      <4>5. /\ call'.pc = call.pc /\ call'.taken = t /\ call'.content = call.content
            /\ call'.start = call.start /\ call'.requested = call.requested
            /\ call'.count = call.count /\ call'.read = call.read
            /\ call'.mode = call.mode /\ call'.size = call.size /\ call' \in CallType
        BY ONLY <1>5, <4>4 DEF CallType
      <4> QED BY <1>2, <2>3, <2>5, <3>2, <4>1, <4>2, <4>3, <4>5 DEF Advances
    <3> QED BY <3>1, <3>2
  <2>7. call'.pc = "rest"
    BY <2>6 DEF Advances
  <2>8. ReaderInv'
    BY <1>1, <1>2, <2>5, <2>6, <2>7 DEF ReaderInv
  <2> QED BY <1>2, <2>1, <2>5, <2>6, <2>8, AdvanceStep
<1> QED BY <1>6, <1>7

(* A package has been read.                                                 *)
LEMMA EndPackageStep ==
  ASSUME CompleteFiles, WholeFileInv, EndPackage \/ EndPackageFails
  PROVE  WholeFileInv' /\ Quiet
<1>1. TablesInv /\ ReaderInv /\ BufferInv /\ CallInv /\ PackageInv /\ ResultInv
  BY DEF WholeFileInv
<1>2. call.pc = "ended"
  BY DEF EndPackage, EndPackageFails, At
<1>3. PICK p \in Nat :
        /\ p = reader.position /\ p < file.packages /\ p = call.start + call.read
        /\ call.start \in Nat /\ call.read \in Nat /\ call.count \in Nat /\ call.read < call.count
        /\ PackagesRead \in Seq(DOMAIN file.items)
  BY <1>2, AtPackage
<1>4. /\ call.mode = "read" /\ call.size = PackageSize(file, p + 1) /\ call.taken = call.size
      /\ pos = Begin(p) + call.taken
  BY <1>1, <1>2, <1>3 DEF PackageInv, At, Begin
<1>5. call.size \in Nat \ {0} /\ End(p) = pos /\ call \in CallType
  BY <1>1, <1>3, <1>4, PackageBegins DEF CallInv, CallType, End
<1>6. EndPackage
  BY <1>4, <1>5 DEF EndPackageFails, EndFails
<1>7. /\ UNCHANGED <<file, available, pos, partitions, limits, chunks, index, buffer, result>>
      /\ reader' = [reader EXCEPT !.position = @ + 1]
      /\ call' = [call EXCEPT !.pc = IF call.read + 1 = call.count THEN "done" ELSE "seek",
                              !.read = @ + 1]
  BY <1>4, <1>5, <1>6 DEF EndPackage, fileVars
<1>8. PICK w \in {"done", "seek"} : w = IF call.read + 1 = call.count THEN "done" ELSE "seek"
  OBVIOUS
<1>9. PICK n \in Nat : n = call.read + 1
  BY <1>3
<1>10. call' = [call EXCEPT !.pc = w, !.read = n]
  BY <1>7, <1>8, <1>9
<1>11. /\ call'.pc = w /\ call'.start = call.start /\ call'.requested = call.requested
       /\ call'.count = call.count /\ call'.read = n
       /\ call'.content = call.content /\ call' \in CallType
  BY ONLY <1>5, <1>10 DEF CallType
<1>12. TablesInv'
  BY <1>1, <1>7, TablesStay DEF SameTables
<1>13. BufferInv' /\ ResultInv'
  BY <1>1, <1>2, <1>7, <1>8, <1>11, BufferStays, ResultStays
<1>14. reader' = [reader EXCEPT !.position = p + 1]
  BY <1>1, <1>3, <1>7
<1>15. /\ reader' \in ReaderType /\ reader'.position = p + 1
       /\ reader'.complete = reader.complete /\ reader'.haveFooter = reader.haveFooter
       /\ reader'.nextKey = reader.nextKey /\ reader'.readError = reader.readError
       /\ reader'.known = reader.known /\ reader'.atStart = reader.atStart
  <2>1. reader \in ReaderType /\ p + 1 \in Nat
    BY <1>1, <1>3 DEF ReaderInv
  <2> QED BY ONLY <1>14, <2>1 DEF ReaderType
<1>16. ReaderInv'
  BY <1>1, <1>2, <1>7, <1>8, <1>11, <1>15 DEF ReaderInv
<1>17. PackageInv'
  BY <1>8, <1>11 DEF PackageInv
<1>18. call'.content = PackagesRead' /\ PackagesRead' \in Seq(DOMAIN file.items)
  <2>1. PICK k \in 0 .. Len(file.content[p + 1]) :
          /\ Passed(p + 1, k, pos)
          /\ call.content = PackagesRead \o SubSeq(file.content[p + 1], 1, k)
    BY <1>1, <1>2, <1>3 DEF PackageInv
  <2>2. k = Len(file.content[p + 1])
    BY <1>1, <1>3, <1>5, <2>1, PassedAtEnds
  <2>3. PICK S, c : S = DOMAIN file.items /\ c = file.content[p + 1] /\ c \in Seq(S)
    BY <1>1, <1>3, PackageBegins
  <2>4. SubSeq(c, 1, Len(c)) = c
    BY ONLY <2>3, SubSeqFull
  <2>5. PICK r \in Seq(S) : r = PackagesRead
    BY <1>3, <2>3
  <2>6. call.content = r \o c
    BY <2>1, <2>2, <2>3, <2>4, <2>5
  <2>7. PICK s \in Nat, m \in Nat : s = call.start /\ m = call.read
    BY <1>3
  <2>8. p + 1 = s + m + 1
    BY <1>3, <2>7
  <2>9. file.content[s + m + 1] \in Seq(S) /\ c = file.content[s + m + 1]
    BY <2>3, <2>8
  <2>10. PackagesFrom(s, m + 1) = PackagesFrom(s, m) \o file.content[s + m + 1]
    BY ONLY <2>9, OnePackageMore
  <2>11. PackagesRead' = PackagesFrom(s, m + 1)
    BY <1>7, <1>9, <1>11, <2>7 DEF PackagesRead, PackagesFrom
  <2>12. r = PackagesFrom(s, m)
    BY <2>5, <2>7 DEF PackagesRead
  <2>13. r \o c \in Seq(S)
    <3>1. c \in Seq(S)
      BY <2>3
    <3> QED BY ONLY <3>1
  <2> QED BY <1>7, <1>11, <2>3, <2>6, <2>9, <2>10, <2>11, <2>12, <2>13
<1>19. CallInv'
  <2>1. call.requested >= 1 /\ call.start < file.packages
        /\ call.count = Min({call.requested, file.packages - call.start})
    BY <1>1, <1>2, Zenon DEF CallInv, At
  <2>2. reader'.position = call'.start + call'.read
    <3>1. PICK s \in Nat, m \in Nat : s = call.start /\ m = call.read
      BY <1>3
    <3>2. p + 1 = s + (m + 1) /\ call'.start = s /\ call'.read = m + 1
      BY <1>3, <1>9, <1>11, <3>1
    <3> QED BY <1>15, <3>2
  <2>3. w = "done" => call'.read = call'.count
    BY <1>8, <1>9, <1>11
  <2>4. w = "seek" => call'.read < call'.count
    BY <1>3, <1>8, <1>9, <1>11
  <2>5. call'.pc # "idle" /\ call'.pc \notin {"open", "first", "rest", "ended"}
    BY <1>8, <1>11
  <2>6. call' \in CallType'
    BY <1>7, <1>11 DEF CallType
  <2> QED BY <1>7, <1>11, <1>18, <2>1, <2>2, <2>3, <2>4, <2>5, <2>6, Zenon DEF CallInv, At
<1> QED BY <1>7, <1>11, <1>12, <1>13, <1>16, <1>17, <1>19 DEF WholeFileInv, Quiet

(* A read is answered.                                                      *)
ReadAnswered ==
  /\ UNCHANGED <<file, available>> /\ call' = NoCall
  /\ result'.ok = TRUE /\ result'.content = PackagesFrom(call.start, call.count)

LEMMA EndReadStep ==
  ASSUME CompleteFiles, WholeFileInv, EndRead
  PROVE  WholeFileInv' /\ ReadAnswered
<1>1. TablesInv /\ ReaderInv /\ BufferInv /\ CallInv /\ PackageInv /\ ResultInv
  BY DEF WholeFileInv
<1>2. call.pc = "done"
  BY DEF EndRead, At
<1>3. /\ call.requested >= 1 /\ call.start < file.packages /\ call.read = call.count
      /\ call.content = PackagesRead /\ call \in CallType
  BY <1>1, <1>2, Zenon DEF CallInv, At
<1>4. PICK s \in Nat, n \in Nat : s = call.start /\ n = call.requested
  BY <1>3 DEF CallType
<1>5. /\ SearchStarts(index) /\ HaveEditUnit(index, s)
      /\ SegmentOf(index, s) \in DOMAIN index.segments
  BY <1>1, <1>3, <1>4, Indexed
<1>6. /\ index' = Found(index, s) /\ buffer' = PushFrames(buffer, call.read, call.content)
      /\ reader' = [reader EXCEPT !.position = s + n] /\ call' = NoCall
      /\ result' = [ok |-> TRUE, why |-> "none", position |-> s, requested |-> n,
                    read |-> call.read, content |-> call.content]
      /\ UNCHANGED <<file, available, pos, partitions, limits, chunks, phase>>
  BY <1>4, <1>5, Zenon DEF EndRead, fileVars
<1>7. TablesInv'
  <2>1. index' = [index EXCEPT !.last = SegmentOf(index, s)]
    BY <1>6 DEF Found
  <2>2. SameTables
    BY <1>5, <1>6, <2>1 DEF SameTables
  <2> QED BY <1>1, <2>2, TablesStay
<1>8. call'.pc = "idle"
  BY <1>6 DEF NoCall
<1>9. BufferInv'
  <2>1. OneFrame(buffer, call.requested)
    BY <1>1, <1>2, Zenon DEF BufferInv, At
  <2>2. NoFrames(PushFrames(buffer, call.read, call.content))
    BY ONLY <2>1, Pushed
  <2>3. NoFrames(buffer')
    BY ONLY <1>6, <2>2, Zenon
  <2> QED BY ONLY <1>8, <2>3, Zenon DEF BufferInv, At, NoFrames
<1>10. ReaderInv'
  <2>1. reader \in ReaderType /\ s + n \in Nat
    BY <1>1, <1>4 DEF ReaderInv
  <2>2. /\ reader' \in ReaderType
        /\ reader'.complete = reader.complete /\ reader'.haveFooter = reader.haveFooter
        /\ reader'.nextKey = reader.nextKey /\ reader'.readError = reader.readError
        /\ reader'.known = reader.known /\ reader'.atStart = reader.atStart
    BY ONLY <1>6, <2>1 DEF ReaderType
  <2> QED BY <1>1, <1>2, <1>6, <1>8, <2>2 DEF ReaderInv
<1>11. CallInv'
  <2>1. call' \in CallType'
    <3>1. <<>> \in Seq(DOMAIN file'.items)
      BY EmptySeq
    <3>2. call' = [pc |-> "idle", mode |-> "none", start |-> 0, requested |-> 0, count |-> 0,
                   read |-> 0, from |-> 0, base |-> 0, taken |-> 0, size |-> 0, content |-> <<>>]
      BY <1>6 DEF NoCall
    <3> QED BY <3>1, <3>2 DEF CallType
  <2>2. call' = NoCall'
    BY <1>6 DEF NoCall
  <2> QED BY <1>8, <2>1, <2>2 DEF CallInv, At
<1>12. PackageInv'
  BY <1>8 DEF PackageInv, At
<1>13. /\ result'.ok = TRUE /\ result'.read = call.read /\ result'.position = s
       /\ result'.content = PackagesFrom(s, call.read)
  BY <1>3, <1>4, <1>6 DEF PackagesRead
<1>14. ResultInv'
  BY <1>6, <1>13 DEF ResultInv, FramesFromTheirPosition, PackagesFrom
<1>15. ReadAnswered
  BY <1>3, <1>4, <1>6, <1>13 DEF ReadAnswered
<1> QED BY <1>7, <1>9, <1>10, <1>11, <1>12, <1>14, <1>15 DEF WholeFileInv

(* The application begins afresh.                                           *)
Forgets ==
  /\ UNCHANGED <<file, available, call>>
  /\ At("idle") /\ result' = NoResult

LEMMA AfreshStep ==
  ASSUME CompleteFiles, WholeFileInv, StartExtract \/ EndExtract
  PROVE  WholeFileInv' /\ Forgets
<1>1. TablesInv /\ ReaderInv /\ BufferInv /\ CallInv
  BY DEF WholeFileInv
<1>2. At("idle") /\ call.pc = "idle"
  BY DEF StartExtract, EndExtract, At
<1>3. PICK k : k = FALSE
  OBVIOUS
<1>4. file.seekable /\ file.seekable \in BOOLEAN
  <2>1. file \in Files /\ WellFormed(file)
    BY <1>1 DEF CompleteFiles, TablesInv
  <2> QED BY <2>1, FilesAssumption DEF WellFormed
<1>5. (~file.seekable) = k
  BY <1>3, <1>4
<1>6. /\ UNCHANGED <<file, available, pos, partitions, limits, chunks, index, call>>
      /\ reader' = [reader EXCEPT !.position = 0] /\ result' = NoResult
      /\ buffer' = [buffer EXCEPT !.keep = k]
  BY <1>3, <1>5 DEF StartExtract, EndExtract, fileVars
<1>7. TablesInv'
  BY <1>1, <1>6, TablesStay DEF SameTables
<1>8. BufferInv'
  <2>1. PICK s : buffer = [start |-> s, frames |-> <<>>, current |-> 0, keep |-> k]
    BY <1>1, <1>2, <1>3, Zenon DEF BufferInv, NoFrames
  <2>2. buffer' = [start |-> s, frames |-> <<>>, current |-> 0, keep |-> k]
    BY ONLY <1>6, <2>1
  <2>3. buffer'.start = s
    BY ONLY <2>2
  <2>4. NoFrames(buffer')
    BY ONLY <1>3, <2>2, <2>3, Zenon DEF NoFrames
  <2>5. call'.pc = "idle"
    BY <1>2, <1>6
  <2> QED BY ONLY <2>4, <2>5, Zenon DEF BufferInv, At, NoFrames
<1>9. ReaderInv'
  <2>1. reader \in ReaderType
    BY <1>1 DEF ReaderInv
  <2>2. /\ reader' \in ReaderType
        /\ reader'.complete = reader.complete /\ reader'.haveFooter = reader.haveFooter
        /\ reader'.nextKey = reader.nextKey /\ reader'.readError = reader.readError
        /\ reader'.known = reader.known /\ reader'.atStart = reader.atStart
    BY ONLY <1>6, <2>1 DEF ReaderType
  <2> QED BY <1>1, <1>2, <1>6, <2>2 DEF ReaderInv
<1>10. CallInv'
  BY <1>1, <1>2, <1>6 DEF CallInv, At, CallType, NoCall
<1>11. PackageInv'
  BY <1>2, <1>6 DEF PackageInv, At
<1>12. ResultInv'
  BY <1>6 DEF ResultInv, FramesFromTheirPosition, NoResult
<1> QED BY <1>2, <1>6, <1>7, <1>8, <1>9, <1>10, <1>11, <1>12 DEF WholeFileInv, Forgets

(* What a step means to the application.                                    *)
Told ==
  \/ Quiet
  \/ /\ At("idle") /\ UNCHANGED <<file, available>>
     /\ \E p \in Nat, n \in Nat \ {0} : Begins(p, n) \/ AnsweredAtOnce(p, n)
  \/ call.pc = "done" /\ ReadAnswered
  \/ Forgets

(* Every step of a reader of complete files is one of these.                *)
LEMMA NextOfWhole ==
  ASSUME CompleteFiles, WholeFileInv, Next
  PROVE  WholeFileInv' /\ Told
<1>1. TablesInv /\ ReaderInv /\ CallInv
  BY DEF WholeFileInv
<1>2. call.pc \in {"idle", "seek", "open", "first", "rest", "ended", "done"}
  BY <1>1 DEF CallInv, CallType
<1>3. ~Grow
  <2>1. available = file.length /\ file \in Files
    BY <1>1 DEF TablesInv
  <2>2. file.length \in Nat
    BY <2>1, FilesAssumption
  <2> QED BY <2>1, <2>2 DEF Grow
<1>4. ASSUME NEW p \in Nat, NEW n \in Nat \ {0}, Read(p, n) PROVE WholeFileInv' /\ Told
  <2>1. /\ WholeFileInv' /\ UNCHANGED <<file, available>>
        /\ Begins(p, n) \/ AnsweredAtOnce(p, n)
    BY <1>4, ReadStep
  <2>2. At("idle")
    BY <1>4 DEF Read
  <2> QED BY <2>1, <2>2 DEF Told
<1>5. CASE ReadAny
  <2>1. file.packages \in Nat /\ MaxSamples \in Nat
    BY <1>1, TablesAre, MaxSamplesAssumption
  <2>2. PICK p \in 0 .. file.packages, n \in 1 .. MaxSamples : Read(p, n)
    BY <1>5 DEF ReadAny
  <2>3. p \in Nat /\ n \in Nat \ {0}
    BY <2>1
  <2> QED BY <1>4, <2>2, <2>3
<1>6. CASE Extract
  <2>1. reader.position \in Nat /\ 1 \in Nat \ {0}
    BY <1>1 DEF ReaderInv, ReaderType
  <2> QED BY <1>4, <1>6, <2>1 DEF Extract
<1>7. CASE StartExtract \/ EndExtract
  BY <1>7, AfreshStep DEF Told
<1>8. CASE Step
  <2>1. /\ ~LocatePackage /\ ~ScanPackage /\ ~FindAtPartition /\ ~FindNothing /\ ~FindFails
        /\ ~FindPartition /\ ~FindRIP /\ ~FindIndex /\ ~FindStart /\ ~FindOther
    BY <1>2 DEF LocatePackage, ScanPackage, FindAtPartition, FindNothing, FindFails, FindPartition,
                FindRIP, FindIndex, FindStart, FindOther, Finds, Finding, At
  <2>2. CASE SeekEssence
    BY <2>2, SeekStep DEF Told
  <2>3. CASE OpenPackage
    BY <2>3, OpenStep DEF Told
  <2>4. CASE FirstElement
    BY <2>4, FirstStep DEF Told
  <2>5. CASE RestStepOf
    BY <2>5, RestStep DEF Told
  <2>6. CASE EndPackage \/ EndPackageFails
    BY <2>6, EndPackageStep DEF Told
  <2>7. CASE EndRead
    <3>1. call.pc = "done"
      BY <2>7 DEF EndRead, At
    <3> QED BY <2>7, <3>1, EndReadStep DEF Told
  <2> QED BY <1>8, <2>1, <2>2, <2>3, <2>4, <2>5, <2>6, <2>7 DEF Step, RestStepOf
<1> QED BY <1>3, <1>5, <1>6, <1>7, <1>8 DEF Next

LEMMA StutterOfWhole ==
  ASSUME WholeFileInv, UNCHANGED vars
  PROVE  WholeFileInv'
<1>1. UNCHANGED <<file, available, pos, reader, limits, chunks, index, buffer, call, result>>
  BY DEF vars
<1>2. TablesInv'
  BY <1>1 DEF WholeFileInv, TablesInv
<1>3. ReaderInv'
  BY <1>1 DEF WholeFileInv, ReaderInv
<1>4. BufferInv'
  BY <1>1, Zenon DEF WholeFileInv, BufferInv, At, NoFrames, OneFrame
<1>5. PackagesRead' = PackagesRead
  BY <1>1 DEF PackagesRead, PackagesFrom
<1>6. CallInv'
  BY <1>1, <1>5, Zenon DEF WholeFileInv, CallInv, CallType, At
<1>7. PackageInv'
  BY <1>1, <1>5, Zenon DEF WholeFileInv, PackageInv, At, Passed, PackageSize
<1>8. ResultInv'
  BY <1>1 DEF WholeFileInv, ResultInv, FramesFromTheirPosition, PackagesFrom
<1> QED BY <1>2, <1>3, <1>4, <1>6, <1>7, <1>8 DEF WholeFileInv

(* A complete file has been indexed when it has been opened.                *)
LEMMA InitWholeFile ==
  ASSUME CompleteFiles, Init, file.complete
  PROVE  WholeFileInv
<1> DEFINE h == CreateEssenceChunkIndex(file)
           x == Opened(file)
<1>1. file \in Files /\ WellFormed(file)
  BY DEF Init, CompleteFiles
<1>2. /\ file.complete /\ {file.seekable, file.complete} \subseteq BOOLEAN
      /\ file.ends = {file.length} /\ file.packages \in Nat /\ file.length \in Nat
  BY <1>1, FilesAssumption DEF WellFormed
<1>3. /\ h.last = 1 /\ x.last \in {1} \cup DOMAIN x.segments /\ ChunksInOrder(h) /\ IndexInOrder(x)
      /\ x.duration = file.packages
  BY <1>1 DEF WellFormed
<1>4. chunks = h /\ index = x /\ available = Min(file.ends)
  BY <1>2 DEF Init
<1> HIDE DEF h, x
<1>5. available = file.length
  <2>1. Min({file.length}) = file.length
    BY <1>2 DEF Min
  <2> QED BY <1>2, <1>4, <2>1
<1>6. /\ h = [chunks |-> h.chunks, last |-> h.last, partitions |-> h.partitions, complete |-> TRUE]
      /\ h.chunks \in Seq(Chunk)
  BY <1>3 DEF ChunksInOrder
<1>7. /\ x = [segments |-> x.segments, last |-> x.last, unit |-> x.unit,
              dataSize |-> x.dataSize, duration |-> x.duration, complete |-> TRUE]
      /\ x.segments \in Seq(ToSet(x.segments))
  BY <1>3 DEF IndexInOrder
<1>8. limits = [start |-> 0, duration |-> file.packages]
  <2>1. index.complete /\ index.duration = file.packages
    BY <1>3, <1>4, <1>7
  <2> QED BY <2>1 DEF Init
<1>9. TablesInv
  <2>1. chunks = [h EXCEPT !.last = chunks.last] /\ chunks.last = 1
    BY <1>3, <1>4, <1>6
  <2>2. index = [x EXCEPT !.last = index.last] /\ index.last \in {1} \cup DOMAIN index.segments
    BY <1>3, <1>4, <1>7
  <2>3. chunks.chunks # <<>> => 1 \in DOMAIN chunks.chunks
    BY <1>4, <1>6
  <2>4. /\ index.last \in Nat
        /\ index.segments # <<>> => index.last \in DOMAIN index.segments
    <3>1. DOMAIN index.segments = 1 .. Len(index.segments) /\ Len(index.segments) \in Nat
      BY <1>4, <1>7
    <3>2. index.segments # <<>> => 1 \in DOMAIN index.segments
      BY <1>4, <1>7
    <3> QED BY <2>2, <3>1, <3>2
  <2> QED BY <1>1, <1>5, <1>8, <2>1, <2>2, <2>3, <2>4 DEF TablesInv, h, x
<1>10. call = NoCall /\ call.pc = "idle" /\ buffer = NoBuffer /\ result = NoResult
       /\ reader = NewReader(file.complete)
  BY DEF Init, NoCall
<1>11. ReaderInv
  <2>1. PICK k : k = file.complete
    OBVIOUS
  <2>2. k \in BOOLEAN /\ k
    BY <1>2, <2>1
  <2>3. PICK e \in BOOLEAN : e = FALSE
    OBVIOUS
  <2>4. reader = [position |-> 0, base |-> -1, filePosition |-> -1, nextKey |-> 0, atStart |-> e,
                  startKey |-> e, known |-> [base |-> -1, pos |-> -1], haveFooter |-> k,
                  complete |-> k, readError |-> e]
    BY <1>10, <2>1, <2>3, Zenon DEF NewReader
  <2>5. reader \in ReaderType
    BY ONLY <2>2, <2>3, <2>4 DEF ReaderType, KnownType
  <2>6. /\ reader.complete = k /\ reader.haveFooter = k /\ reader.nextKey = 0
        /\ reader.readError = e /\ reader.atStart = e /\ reader.known.base = -1
    BY ONLY <2>4
  <2>7. call.pc \notin {"open", "first"} /\ ~(reader.known.base >= 0)
    BY ONLY <1>10, <2>6
  <2> QED BY ONLY <2>2, <2>3, <2>5, <2>6, <2>7 DEF ReaderInv
<1>12. BufferInv
  <2>1. buffer.start = 0
    BY <1>10 DEF NoBuffer
  <2> QED BY <1>10, <2>1, Zenon DEF BufferInv, At, NoFrames, NoBuffer
<1>13. CallInv
  <2>1. <<>> \in Seq(DOMAIN file.items)
    BY EmptySeq
  <2>2. call = [pc |-> "idle", mode |-> "none", start |-> 0, requested |-> 0, count |-> 0,
                read |-> 0, from |-> 0, base |-> 0, taken |-> 0, size |-> 0, content |-> <<>>]
    BY <1>10 DEF NoCall
  <2>3. call \in CallType
    BY <2>1, <2>2 DEF CallType
  <2> QED BY <1>10, <2>3 DEF CallInv, At
<1>14. PackageInv
  BY <1>10 DEF PackageInv, At
<1>15. ResultInv
  BY <1>10 DEF ResultInv, NoResult, FramesFromTheirPosition
<1> QED BY <1>9, <1>11, <1>12, <1>13, <1>14, <1>15 DEF WholeFileInv

(* The inductive invariant holds.                                           *)
LEMMA WholeFileAlways ==
  ASSUME CompleteFiles
  PROVE  Spec /\ file.complete => []WholeFileInv
<1>1. Init /\ file.complete => WholeFileInv
  BY InitWholeFile
<1>2. WholeFileInv /\ [Next]_vars => WholeFileInv'
  BY NextOfWhole, StutterOfWhole
<1> QED BY <1>1, <1>2, PTL DEF Spec

-----------------------------------------------------------------------------
(* What follows.                                                            *)
LEMMA WholeFileLookups ==
  ASSUME CompleteFiles, WholeFileInv
  PROVE  LookupsTrue
<1>1. TablesInv /\ ReaderInv
  BY DEF WholeFileInv
<1>2. /\ file \in Files /\ file.complete /\ file.packages \in Nat
      /\ index.duration = file.packages
  BY <1>1, TablesAre DEF TablesInv
<1>3. ASSUME index.unit = 0, NEW p \in 1 .. index.duration - 1
      PROVE  /\ \E i \in DOMAIN index.segments :
                  index.segments[i].start <= p /\ p < SegmentEnd(index.segments[i])
             /\ GetEditUnitOffset(index, p) = file.offsets[p + 1]
  <2>1. p \in Nat /\ p < file.packages /\ p + 1 \in 1 .. file.packages /\ (p + 1) - 1 = p
    BY <1>2, <1>3
  <2>2. GetEditUnitOffset(index, p) = file.offsets[p + 1]
    BY <1>1, <2>1, Indexed
  <2>3. PackageIndexed(file, Opened(file), p + 1)
    BY <1>2, <2>1, PackageFacts
  <2>4. index.segments = Opened(file).segments /\ index.unit = Opened(file).unit
    BY <1>1, TablesAre
  <2>5. PICK i \in DOMAIN index.segments :
          LET s == index.segments[i]
          IN  s.start <= p /\ (p < SegmentEnd(s) \/ (s.duration = 0 /\ index.unit > 0))
    BY <2>1, <2>3, <2>4 DEF PackageIndexed
  <2>6. ~(index.unit > 0)
    BY <1>3
  <2> QED BY <2>2, <2>5, <2>6
<1>4. ASSUME NEW p \in 1 .. reader.known.base
      PROVE  /\ HaveFilePosition(chunks, file.offsets[p])
             /\ GetFilePosition(chunks, file.offsets[p]) = file.starts[p]
             /\ Holds(chunks, "position", file.starts[p])
             /\ GetEssenceOffset(chunks, file.starts[p]) = file.offsets[p]
  <2>1. reader.known.base \in Int
    BY <1>1 DEF ReaderInv, ReaderType, KnownType
  <2>2. reader.known.base >= 0
    BY <2>1
  <2>3. reader.known.base < file.packages
    BY <1>1, <2>2 DEF ReaderInv
  <2>4. PICK q \in Nat : q = p - 1 /\ q < file.packages /\ q + 1 = p
    <3>1. p - 1 \in Nat /\ p - 1 < file.packages /\ (p - 1) + 1 = p
      BY <1>2, <2>1, <2>3
    <3> QED BY <3>1
  <2> QED BY <1>1, <2>4, InChunk
<1> QED BY <1>3, <1>4 DEF LookupsTrue, IndexTrue, ChunksTrue

LEMMA WholeFileKnown ==
  ASSUME CompleteFiles, WholeFileInv
  PROVE  KnowsWhereItIs /\ CompleteWhenAllIsKnown
<1>1. TablesInv /\ ReaderInv
  BY DEF WholeFileInv
<1>2. index.complete = TRUE /\ chunks.complete = TRUE /\ index.duration = file.packages
  <2>1. IndexInOrder(index) /\ ChunksInOrder(chunks) /\ index.duration = file.packages
    BY <1>1, TablesAre
  <2>2. index.complete = TRUE
    BY <2>1 DEF IndexInOrder
  <2>3. chunks.complete = TRUE
    BY <2>1 DEF ChunksInOrder
  <2> QED BY <2>1, <2>2, <2>3
<1>3. reader.haveFooter /\ limits = [start |-> 0, duration |-> file.packages]
  BY <1>1 DEF ReaderInv, TablesInv
<1>4. CompleteWhenAllIsKnown
  BY <1>2, <1>3 DEF CompleteWhenAllIsKnown
<1>5. reader.known.base >= 0 => reader.known.pos = file.starts[reader.known.base + 1]
  BY <1>1 DEF ReaderInv
<1>6. reader.atStart =>
        /\ reader.filePosition = file.starts[reader.base + 1]
        /\ pos = reader.filePosition + (IF reader.nextKey = 0 THEN 0 ELSE 1)
  BY <1>1 DEF ReaderInv, ReaderType
<1> QED BY <1>4, <1>5, <1>6 DEF KnowsWhereItIs

(* The frames a read of a complete file returns are those of the content    *)
(* packages from the position asked for on.                                 *)
THEOREM ReadsGiveTheirFrames ==
  ASSUME CompleteFiles
  PROVE  Spec /\ file.complete => []FramesFromTheirPosition
<1>1. WholeFileInv => FramesFromTheirPosition
  BY DEF WholeFileInv, ResultInv
<1> QED BY <1>1, WholeFileAlways, PTL

(* Of a complete file, the index table and the chunks lead to where the     *)
(* content packages are.                                                    *)
THEOREM LookupsLeadThere ==
  ASSUME CompleteFiles
  PROVE  Spec /\ file.complete => []LookupsTrue
<1>1. WholeFileInv => LookupsTrue
  BY WholeFileLookups
<1> QED BY <1>1, WholeFileAlways, PTL

(* Of a complete file, the reader is where it believes it is.               *)
THEOREM ReaderIsWhereItSays ==
  ASSUME CompleteFiles
  PROVE  Spec /\ file.complete => []KnowsWhereItIs
<1>1. WholeFileInv => KnowsWhereItIs
  BY WholeFileKnown
<1> QED BY <1>1, WholeFileAlways, PTL

(* A complete file is all known from the opening on: no read takes anything *)
(* back.                                                                    *)
THEOREM WholeFileStaysKnown ==
  ASSUME CompleteFiles
  PROVE  Spec /\ file.complete => [](reader.complete /\ CompleteWhenAllIsKnown)
<1>1. WholeFileInv => reader.complete /\ CompleteWhenAllIsKnown
  BY WholeFileKnown DEF WholeFileInv, ReaderInv
<1> QED BY <1>1, WholeFileAlways, PTL

(* No read of a complete file fails, whatever the position and the count    *)
(* asked for: not for a cause that excuses it in another file either.       *)
THEOREM WholeFilesAreRead ==
  ASSUME CompleteFiles
  PROVE  Spec /\ file.complete => [](result.ok) /\ FailsOnlyForCause
<1>1. WholeFileInv => result.ok
  BY DEF WholeFileInv, ResultInv
<1>2. WholeFileInv' => [~At("idle") /\ call'.pc = "idle" /\ ~result'.ok => Cause(result'.why)]_vars
  <2>1. WholeFileInv' => result'.ok
    BY DEF WholeFileInv, ResultInv
  <2> QED BY <2>1
<1> QED BY <1>1, <1>2, WholeFileAlways, PTL DEF FailsOnlyForCause

-----------------------------------------------------------------------------
(* The reader of a complete file is a source of content packages.           *)
LEMMA AllPackagesThere ==
  ASSUME CompleteFiles, TablesInv
  PROVE  /\ PackagesThere = file.packages + 1 /\ file.packages \in Nat
         /\ file.complete \in BOOLEAN /\ Len(file.content) = file.packages
<1>1. file \in Files /\ WellFormed(file) /\ available = file.length
  BY DEF CompleteFiles, TablesInv
<1>2. PICK i \in DOMAIN file.items :
        file.items[i].kind = "partition" /\ file.items[i].footer /\ file.items[i].at < file.length
  BY <1>1 DEF WellFormed
<1>3. PackagesThere = file.packages + 1
  BY <1>1, <1>2 DEF PackagesThere
<1>4. file.packages \in Nat /\ file.complete \in BOOLEAN
  BY <1>1, FilesAssumption
<1>5. Len(file.content) = file.packages
  BY <1>1 DEF WellFormed
<1> QED BY <1>3, <1>4, <1>5

(* The source's own copies of the library's operators.                      *)
LEMMA SourceFlattens ==
  ASSUME NEW s
  PROVE  Source!FlattenSeq(s) = FlattenSeq(s)
BY DEF FlattenSeq, Source!FlattenSeq

LEMMA SourceMin ==
  ASSUME NEW S
  PROVE  Source!Min(S) = Min(S)
BY DEF Min, Source!Min

(* The steps of the reader are steps of a source.                           *)
LEMMA InitSource ==
  ASSUME CompleteFiles, Init, file.complete
  PROVE  Source!SourceInit
<1>1. TablesInv
  BY InitWholeFile DEF WholeFileInv
<1>2. PackagesThere \in Nat /\ file.complete \in BOOLEAN
  BY <1>1, AllPackagesThere
<1>3. call = NoCall /\ result = NoResult
  BY DEF Init
<1> QED BY <1>2, <1>3 DEF Source!SourceInit, Source!NothingAsked, Source!NoAnswer, NoCall, NoResult

LEMMA NextSource ==
  ASSUME CompleteFiles, WholeFileInv, WholeFileInv', Told
  PROVE  [Source!SourceNext]_Source!sourceVars
<1>1. TablesInv /\ CallInv /\ ResultInv
  BY DEF WholeFileInv
<1>2. /\ PackagesThere = file.packages + 1 /\ file.packages \in Nat
      /\ Len(file.content) = file.packages
  BY <1>1, AllPackagesThere
<1>3. UNCHANGED <<file, available>>
  BY DEF Told, Quiet, ReadAnswered, Forgets
<1>4. UNCHANGED <<file.content, file.complete, PackagesThere>>
  <2>1. PackagesThere' = PackagesThere
    BY <1>3 DEF PackagesThere, AfterItem, Item
  <2> QED BY <1>3, <2>1
<1>5. At("idle") => call.start = 0 /\ call.requested = 0
  BY <1>1 DEF CallInv, NoCall
<1>6. CASE Quiet
  <2>1. UNCHANGED <<call.start, call.requested, result>>
    BY <1>6 DEF Quiet
  <2> QED BY <1>4, <2>1 DEF Source!sourceVars
<1>7. ASSUME At("idle"), NEW p \in Nat, NEW n \in Nat \ {0}, Begins(p, n)
      PROVE  Source!Ask
  <2>1. call'.start = p /\ call'.requested = n /\ result' = result
    BY <1>7 DEF Begins
  <2> QED BY <1>4, <1>5, <1>7, <2>1 DEF Source!Ask, Source!NothingAsked
<1>8. ASSUME At("idle"), NEW p \in Nat, NEW n \in Nat \ {0}, AnsweredAtOnce(p, n)
      PROVE  Source!AnswerAtOnce
  <2>1. call' = call /\ result'.ok = TRUE /\ result'.content = <<>>
    BY <1>8 DEF AnsweredAtOnce
  <2>2. Source!Given(Len(file.content), 1) = 0
    BY <1>2 DEF Source!Given
  <2>3. Source!Elements(Len(file.content), 0) = <<>>
    <3>1. Source!Elements(Len(file.content), 0) = PackagesFrom(Len(file.content), 0)
      BY SourceFlattens DEF Source!Elements, PackagesFrom
    <3> QED BY <3>1, NoPackages
  <2>4. Source!Give(Len(file.content), 1)
    <3>1. PICK m \in Nat : m = file.packages
      BY <1>2
    <3>2. Len(file.content) = m /\ PackagesThere = m + 1
      BY <1>2, <3>1
    <3>3. m + 0 <= m + 1 /\ m + 1 > m
      BY ONLY <3>1
    <3>4. result'.ok = TRUE /\ result'.content = Source!Elements(m, 0)
      BY <2>1, <2>3, <3>2
    <3>5. [ok |-> result.ok, elements |-> result.content]' = [ok |-> TRUE, elements |-> Source!Elements(m, 0)]
      BY ONLY <3>4, Zenon
    <3> QED BY <2>2, <3>2, <3>3, <3>5, Zenon DEF Source!Give
  <2>5. Len(file.content) \in 0 .. Len(file.content) + 1 /\ 1 \in 1 .. Len(file.content) + 1
    BY <1>2
  <2> QED BY <1>4, <1>5, <1>8, <2>1, <2>4, <2>5 DEF Source!AnswerAtOnce, Source!NothingAsked
<1>9. ASSUME call.pc = "done", ReadAnswered
      PROVE  Source!Answer
  <2>1. PICK s \in Nat, n \in Nat \ {0} :
          /\ s = call.start /\ n = call.requested /\ s < file.packages
          /\ call.count = Min({n, file.packages - s})
    <3>1. call.start \in Nat /\ call.requested \in Nat
      BY <1>1 DEF CallInv, CallType
    <3>2. /\ call.requested >= 1 /\ call.start < file.packages
          /\ call.count = Min({call.requested, file.packages - call.start})
      BY <1>1, <1>9, Zenon DEF CallInv, At
    <3>3. PICK s \in Nat, n \in Nat : s = call.start /\ n = call.requested
      BY <3>1
    <3>4. n >= 1 /\ s < file.packages /\ call.count = Min({n, file.packages - s})
      BY ONLY <3>2, <3>3
    <3>5. n \in Nat \ {0}
      BY ONLY <3>4
    <3> QED BY <3>3, <3>4, <3>5
  <2>2. /\ call' = NoCall /\ result'.ok = TRUE
        /\ result'.content = PackagesFrom(s, call.count)
    BY <1>9, <2>1 DEF ReadAnswered
  <2>3. Min({n, file.packages - s}) = IF n <= file.packages - s THEN n ELSE file.packages - s
    BY <1>2, <2>1, MinOfTwo
  <2>4. Source!Given(s, n) = call.count
    BY <1>2, <2>1, SourceMin DEF Source!Given
  <2>5. Source!Elements(s, call.count) = PackagesFrom(s, call.count)
    BY SourceFlattens DEF Source!Elements, PackagesFrom
  <2>6. s + call.count <= PackagesThere /\ PackagesThere > Len(file.content)
    <3>1. PICK m \in Nat : m = file.packages
      BY <1>2
    <3>2. PICK c : c = call.count
      OBVIOUS
    <3>3. c = IF n <= m - s THEN n ELSE m - s
      BY <2>1, <2>3, <3>1, <3>2, Zenon
    <3>4. s + c <= m + 1 /\ m + 1 > m
      BY ONLY <3>1, <3>3
    <3> QED BY <1>2, <3>1, <3>2, <3>4
  <2>7. Source!Give(s, n)
    <3>1. result'.ok = TRUE /\ result'.content = Source!Elements(s, call.count)
      BY <2>2, <2>5
    <3>2. [ok |-> result.ok, elements |-> result.content]'
            = [ok |-> TRUE, elements |-> Source!Elements(s, call.count)]
      BY ONLY <3>1, Zenon
    <3> QED BY <2>4, <2>6, <3>2, Zenon DEF Source!Give
  <2>8. [position |-> call.start, count |-> call.requested] # Source!NothingAsked
    BY <2>1 DEF Source!NothingAsked
  <2>9. call'.start = 0 /\ call'.requested = 0
    BY <2>2 DEF NoCall
  <2> QED BY <1>4, <2>1, <2>7, <2>8, <2>9 DEF Source!Answer, Source!NothingAsked
<1>10. CASE Forgets
  <2>1. At("idle") /\ call' = call /\ result' = NoResult
    BY <1>10 DEF Forgets
  <2>2. Source!Forget
    BY <1>4, <1>5, <2>1 DEF Source!Forget, Source!NothingAsked, Source!NoAnswer, NoResult
  <2> QED BY <2>2 DEF Source!SourceNext
<1> QED BY <1>6, <1>7, <1>8, <1>9, <1>10 DEF Told, Source!SourceNext

(* The reader of a complete file keeps the promise of a source: it gives    *)
(* the content packages asked for, fewer only at the end, and refuses none. *)
THEOREM WholeFileIsSource ==
  ASSUME CompleteFiles
  PROVE  Spec /\ file.complete => ImplementsSource
<1>1. Init /\ file.complete => Source!SourceInit
  BY InitSource
<1>2. WholeFileInv /\ WholeFileInv' /\ [Next]_vars => [Source!SourceNext]_Source!sourceVars
  <2>1. WholeFileInv /\ WholeFileInv' /\ Next => [Source!SourceNext]_Source!sourceVars
    BY NextOfWhole, NextSource
  <2>2. UNCHANGED vars => UNCHANGED Source!sourceVars
    BY DEF vars, Source!sourceVars, PackagesThere, AfterItem, Item
  <2> QED BY <2>1, <2>2
<1> QED BY <1>1, <1>2, WholeFileAlways, PTL DEF Spec, ImplementsSource, Source!SourceSpec
=============================================================================
