---------------------------- MODULE MXFHTTPFile ----------------------------
(***************************************************************************)
(* MXFHTTPFile: reading a file over HTTP by byte ranges.  A request asks   *)
(* for at least as much as the buffer takes; what comes beyond the read    *)
(* goes to the buffer, from where later reads are answered.  A transfer    *)
(* may end before all is received, or with an HTTP/2 error, after which    *)
(* the rest of the read is requested once more over a new connection; a    *)
(* server may also send more than it was asked for.                        *)
(*                                                                         *)
(* A byte is its position in the file.                                     *)
(***************************************************************************)
EXTENDS Integers, SequencesExt

CONSTANTS
  HTTPSize,         \* the size of the file on the server
  BufferAllocSize,  \* buffer_alloc_size
  HTTPCounts        \* how much a read asks for

ASSUME HTTPAssumption ==
  HTTPSize \in Nat /\ BufferAllocSize \in Nat /\ HTTPCounts \subseteq Nat \ {0}

VARIABLES
  server,    \* "ranges", or "beyond" if it sends all from the first byte on
  http,      \* MXFFileSysData: position, buffer_pos and the buffer
  httpRead   \* the last read: where it began, what it asked for, how much came
             \* before it was retried, and what it returned

httpVars == <<server, http, httpRead>>

-----------------------------------------------------------------------------
Bytes(first, count) == [i \in 1 .. count |-> first + i - 1]
Drop(s, n) == SubSeq(s, n + 1, Len(s))
Take(s, n) == SubSeq(s, 1, Min({n, Len(s)}))

NoBytes == [position |-> 0, pos |-> 0, buffer |-> <<>>]

(* What the server sends for a range: all of it, or what there is.          *)
RangeSize(count) == IF count > BufferAllocSize THEN count ELSE BufferAllocSize
Sent(first, count) ==
  LET there == Max({0, HTTPSize - first})
  IN  IF server = "beyond" THEN there ELSE Min({there, RangeSize(count)})

(* A mutant: what is received for the buffer moves the position too.        *)
ReceivedAhead(h, data, rem) ==
  [http |-> [position |-> h.position + Len(data), pos |-> 0,
             buffer |-> Take(Drop(data, rem), BufferAllocSize)],
   data |-> Take(data, rem)]

(* curl_data_cb: the reader takes what it asked for, and the buffer what it *)
(* has room for.                                                            *)
Received(h, data, rem) ==
  [http |-> [position |-> h.position + Len(Take(data, rem)), pos |-> 0,
             buffer |-> Take(Drop(data, rem), BufferAllocSize)],
   data |-> Take(data, rem)]

(* The outcomes of a request: all that was sent is received; it is more     *)
(* than there is room for, which ends the transfer with an error; or the    *)
(* transfer ends on the way.  No byte at or behind the end can be requested.*)
Answers(first, rem) ==
  LET sent == Sent(first, rem)
      fits == sent <= rem + BufferAllocSize
      cut(code) == {[count |-> n, code |-> code] : n \in 0 .. Min({sent, rem + BufferAllocSize})}
  IN  IF sent = 0 THEN {[count |-> 0, code |-> "error"]}
      ELSE {[count |-> sent, code |-> IF fits THEN "ok" ELSE "write"]}
             \cup cut("http2") \cup cut("partial")

(* _http_file_read.  After a write error the accept-ranges header counts as *)
(* not received, for its comparison is inverted: the read returns nothing,  *)
(* unless it was at the start of the file.                                  *)
HTTPReads(h, count) ==
  LET ahead == Take(Drop(h.buffer, h.pos), count)
      rem == count - Len(ahead)
      there == [h EXCEPT !.pos = @ + Len(ahead), !.position = @ + Len(ahead)]
      received(a) == Received(there, Bytes(there.position, a.count), rem)
      refused(a) == a.code = "write" /\ there.position # 0
      outcome(a) ==
        LET r == received(a)
        IN  [http |-> r.http, data |-> ahead \o r.data, code |-> a.code,
             result |-> IF refused(a) THEN 0 ELSE Len(ahead) + Len(r.data)]
  IN  IF rem = 0 THEN {[http |-> there, data |-> ahead, result |-> count, code |-> "ok"]}
      ELSE {outcome(a) : a \in Answers(there.position, rem)}

(* http_file_read: the retry receives into the start of the reader's data.  *)
Over(data, old) == data \o Drop(old, Len(data))
Retries(r, count) ==
  {[s EXCEPT !.data = Over(@, r.data), !.result = @ + r.result] : s \in HTTPReads(r.http, count - r.result)}

HTTPRead ==
  \E count \in HTTPCounts : \E first \in HTTPReads(http, count) :
    LET again == first.result < count /\ first.code = "http2"
    IN  \E r \in (IF again THEN Retries(first, count) ELSE {first}) :
          /\ http' = r.http
          /\ httpRead' = [from |-> http.position, count |-> count,
                          before |-> IF again THEN first.result ELSE 0,
                          result |-> r.result, data |-> r.data, code |-> r.code]
          /\ UNCHANGED server

(* http_file_seek: inside the buffer if it is there.                        *)
HTTPSought(h, to) ==
  LET difference == to - h.position
      inside == h.buffer # <<>> /\ -h.pos <= difference /\ difference < Len(h.buffer) - h.pos
  IN  IF difference = 0 THEN h
      ELSE IF inside THEN [h EXCEPT !.pos = @ + difference, !.position = to]
      ELSE [position |-> to, pos |-> 0, buffer |-> <<>>]

NoRead(at) ==
  [from |-> at, count |-> 0, before |-> 0, result |-> 0, data |-> <<>>, code |-> "ok"]

HTTPSeek ==
  \E to \in 0 .. HTTPSize :
    /\ http' = HTTPSought(http, to)
    /\ httpRead' = NoRead(to)
    /\ UNCHANGED server

HTTPInit ==
  /\ server \in {"ranges", "beyond"}
  /\ http = NoBytes
  /\ httpRead = NoRead(0)

HTTPNext == HTTPRead \/ HTTPSeek

HTTPSpec == HTTPInit /\ [][HTTPNext]_httpVars

-----------------------------------------------------------------------------
(* However requests end, whatever was left in the buffer by earlier ones    *)
(* and wherever a seek has gone, the position is behind the bytes that were *)
(* received, and they are those of the file from where the read began, in   *)
(* order and without a gap.  A read that was not retried, or had nothing    *)
(* when it was, returns them.  One that had some returns as many, but those *)
(* received after the error lie over the start of what it had.  A read that *)
(* is sent more than it and the buffer can take moves the position behind   *)
(* all it asked for and returns what it had when it was retried, or all if  *)
(* it began the file.  What is left in the buffer always goes on from the   *)
(* position.                                                                *)
HTTPReadsTrue ==
  LET r == httpRead
      received == http.position - r.from
  IN  /\ r.before = 0 => r.data = Bytes(r.from, received)
      /\ r.before > 0 => r.data = Over(Bytes(r.from + r.before, received - r.before),
                                      Bytes(r.from, r.before))
      /\ r.code # "write" => r.result = received
      /\ r.code = "write" => /\ received = r.count
                             /\ r.result = r.before \/ (r.from = 0 /\ r.result = r.count)
      /\ Drop(http.buffer, http.pos) = Bytes(http.position, Len(http.buffer) - http.pos)
=============================================================================
