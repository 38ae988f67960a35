--------------------------- MODULE HttpConnection ---------------------------
(***************************************************************************)
(* HttpConnection::recvResponse: one response, read in any pieces from a   *)
(* connection whose peer may close early or fall silent.                   *)
(*                                                                         *)
(* The wire is a sequence of symbols: the head up to some place inside its *)
(* length header and the rest of the head (one symbol each), the digits of *)
(* a chunk's size (in base 2, to have sizes of two digits), CR, LF, and    *)
(* the bytes of the body, none of them a hexadecimal digit.                *)
(***************************************************************************)
EXTENDS Stream, SequencesExt, TLC

CONSTANTS
  Responses,   \* what the peer sends: [kind, chunks]
  buff_size,   \* the buffer, in symbols
  MaxTimeouts  \* bound: reads that time out while a body is read

VARIABLES
  rsp,     \* what the peer sends: [kind, body, wire, ends]
  pos,     \* how much of it has been read
  sent,    \* how much of it the peer sends before it closes
  peer,    \* "open" or "closed"
  pc,      \* the loop: "head", "line", "raw", "fix" or "done"
  buf,     \* data[0..len)
  got,     \* [body, at, left] of module Stream; the chunks' body so far
  result,  \* what recvResponse returned, or how it ended
  misses,  \* reads of a fixed body that timed out
  reads    \* history: reads that ended where they should, -1 after another
vars == <<rsp, pos, sent, peer, pc, buf, got, result, misses, reads>>

CRLF  == <<"cr", "lf">>
Bits  == {"0", "1"}
Bytes == {"a", "b", "c"}
ConnectionAssumption ==
  /\ buff_size \in Nat \ {0} /\ MaxTimeouts \in Nat
  /\ \A r \in Responses :
       /\ r.kind \in {"length", "chunked"} /\ r.chunks \in Seq(Seq(Bytes))
       /\ \A i \in DOMAIN r.chunks : Len(r.chunks[i]) \in 1 .. 3

(* What the peer sends, and where its chunks end on the wire.              *)
Size(n) ==
  CASE n = 1 -> <<"1">> [] n = 2 -> <<"1", "0">> [] n = 3 -> <<"1", "1">>
Chunk(c)  == Size(Len(c)) \o CRLF \o c \o CRLF
LastChunk == <<"0">> \o CRLF \o CRLF
Top       == <<"head", "end">>
Pieces(r) ==
  IF r.kind = "length" THEN <<Top>> \o r.chunks
  ELSE <<Top>> \o [i \in DOMAIN r.chunks |-> Chunk(r.chunks[i])] \o <<LastChunk>>
Ends(r) ==
  [i \in 1 .. Len(Pieces(r)) - 1 |-> Len(FlattenSeq(SubSeq(Pieces(r), 1, i + 1)))]
OnWire(r) == [kind |-> r.kind, body |-> FlattenSeq(r.chunks),
              wire |-> FlattenSeq(Pieces(r)), ends |-> Ends(r)]

Init ==
  /\ rsp \in {OnWire(r) : r \in Responses}
  /\ pos = 0 /\ sent = Len(rsp.wire) /\ peer = "open" /\ pc = "head" /\ buf = <<>>
  /\ got = [body |-> <<>>, at |-> 0, left |-> 0]
  /\ result = "none" /\ misses = 0 /\ reads = 0

(* The peer closes, with or without the rest of its response sent.         *)
PeerCloses ==
  /\ peer = "open" /\ peer' = "closed" /\ sent' \in pos .. Len(rsp.wire)
  /\ UNCHANGED <<rsp, pos, pc, buf, got, result, misses, reads>>

(* read(data, room) hands out the next bytes, at most `room' of them.      *)
Take(n) == SubSeq(rsp.wire, pos + 1, pos + n)
Reads(n, room) ==
  /\ n \in 1 .. room /\ pos + n <= sent
  /\ pos' = pos + n /\ UNCHANGED <<rsp, sent, peer>>

Return(r) == pc' = "done" /\ result' = r

(* The head.  execute() takes everything up to the head's end; the length  *)
(* header is dropped by the parser when a read ends inside it.             *)
Length == IF rsp.kind = "length" /\ pos = 0 THEN Len(rsp.body) ELSE 0
ReadHead(n) ==
  LET take == Take(n)
      rest == SubSeq(take, 3 - pos, n)
      body == Resized(Length, rest) IN
  /\ pc = "head" /\ Reads(n, buff_size)
  /\ IF "end" \notin ToSet(take)
     THEN /\ reads' = IF rsp.kind = "length" /\ rsp.body # <<>> THEN -1 ELSE reads
          /\ UNCHANGED <<pc, buf, got, result, misses>>
     ELSE /\ UNCHANGED <<misses, reads>>
          /\ IF rsp.kind = "chunked"
             THEN pc' = "line" /\ buf' = rest /\ UNCHANGED <<got, result>>
             ELSE /\ got' = body /\ UNCHANGED buf
                  /\ IF body.left > 0 THEN pc' = "fix" /\ UNCHANGED result
                     ELSE Return("ok")

(* execute(data, len, true) over what the buffer holds: the line before a  *)
(* chunk, from the parser's start state; an unfinished line is consumed.   *)
Number(s) == FoldLeft(LAMBDA v, d : 2 * v + (IF d = "1" THEN 1 ELSE 0), 0, s)
Parsed(b) ==
  LET stop == SelectInSeq(b, LAMBDA x : x \notin Bits)
      len  == IF stop = 0 THEN Len(b) ELSE stop - 1
      eol  == SubSeq(b, len + 1, Min({len + 2, Len(b)})) IN
  [state |-> CASE len = 0 \/ ~ IsPrefix(eol, CRLF) -> "error"
               [] len > 0 /\ eol = CRLF -> "finished"
               [] OTHER -> "more",
   content_len |-> Number(SubSeq(b, 1, len)),
   rest |-> SubSeq(b, len + 3, Len(b))]

\* Mutant of Behind: the CRLF behind a chunk is not subtracted from len.
BehindAll(rest) == Len(rest)
(* `len -= 2': the buffered bytes that are taken for the chunk's.          *)
Behind(rest) == Len(rest) - 2

(* The chunk behind its line: all of it is in the buffer, or what there is *)
(* is appended and the rest read past the buffer.  A negative len appends  *)
(* (size_t)len bytes: std::length_error.                                   *)
ChunkBuffered(p) ==
  LET len == Behind(p.rest) IN
  /\ p.content_len <= len
  /\ got' = [got EXCEPT !.body = @ \o SubSeq(p.rest, 1, p.content_len)]
  /\ buf' = SubSeq(p.rest, p.content_len + 1, len)
  /\ IF p.content_len = 0 THEN Return("ok") ELSE UNCHANGED <<pc, result>>
ChunkCut(p) ==
  LET len == Behind(p.rest) IN
  /\ p.content_len > len
  /\ buf' = <<>>
  /\ IF len < 0 THEN Return("length_error") /\ UNCHANGED got
     ELSE /\ pc' = "raw" /\ UNCHANGED result
          /\ got' = [got EXCEPT !.body = @ \o SubSeq(p.rest, 1, len),
                                !.left = p.content_len - len]

(* Where a read has to end, for the arithmetic above to be right: behind   *)
(* the CRLF of the next chunk.                                             *)
Counted(end) ==
  IF reads + 1 \in DOMAIN rsp.ends /\ rsp.ends[reads + 1] = end THEN reads + 1
  ELSE -1

(* One pass of the inner loop: it reads first, whatever the buffer holds.  *)
ReadLine(n) ==
  LET p == Parsed(buf \o Take(n)) IN
  /\ pc = "line" /\ Reads(n, buff_size - Len(buf))
  /\ reads' = Counted(pos + n) /\ UNCHANGED misses
  /\ CASE p.state = "error" -> Return("null") /\ UNCHANGED <<buf, got>>
       [] p.state = "more" -> buf' = <<>> /\ UNCHANGED <<pc, got, result>>
       [] OTHER -> ChunkBuffered(p) \/ ChunkCut(p)

(* The rest of a cut chunk, straight from the connection to the body.      *)
ReadRaw(n) ==
  /\ pc = "raw" /\ Reads(n, Min({got.left, buff_size}))
  /\ got' = [got EXCEPT !.body = @ \o Take(n), !.left = @ - n]
  /\ pc' = IF got.left = n THEN "line" ELSE "raw"
  /\ UNCHANGED <<buf, result, misses, reads>>

(* The body of a declared length: readFixSize.                             *)
ReadFix(n) ==
  /\ pc = "fix" /\ Reads(n, got.left)
  /\ IF Underruns(got) THEN Return("underrun") /\ UNCHANGED got
     ELSE /\ got' = Filled(got, Take(n))
          /\ IF got.left = n THEN Return("ok") ELSE UNCHANGED <<pc, result>>
  /\ UNCHANGED <<buf, misses, reads>>
MissFix ==
  /\ pc = "fix" /\ misses < MaxTimeouts
  /\ got' = Missed(got) /\ misses' = misses + 1
  /\ IF got'.left = 0 THEN Return("ok") ELSE UNCHANGED <<pc, result>>
  /\ UNCHANGED <<rsp, pos, sent, peer, buf, reads>>

(* A read that times out anywhere else, and the end of the stream: the     *)
(* connection is closed and there is no response.                          *)
Fail ==
  /\ pc \in {"head", "line", "raw"} \/ (pc = "fix" /\ peer = "closed" /\ pos = sent)
  /\ Return("null")
  /\ UNCHANGED <<rsp, pos, sent, peer, buf, got, misses, reads>>

Receive ==
  \/ \E n \in 1 .. Len(rsp.wire) : ReadHead(n) \/ ReadLine(n) \/ ReadRaw(n) \/ ReadFix(n)
  \/ MissFix \/ Fail
Next == PeerCloses \/ Receive

(* A read returns: with data, the end of the stream, or its timeout.       *)
Fairness == WF_vars(Receive)
Spec == Init /\ [][Next]_vars /\ Fairness
-----------------------------------------------------------------------------
(* The buffer never overflows and holds no part of a head.                 *)
TypeOK ==
  /\ pos \in 0 .. sent /\ sent <= Len(rsp.wire)
  /\ peer \in {"open", "closed"}
  /\ pc \in {"head", "line", "raw", "fix", "done"}
  /\ buf \in Seq(Bits \cup ToSet(CRLF) \cup Bytes) /\ Len(buf) < buff_size
  /\ got.left \in Nat /\ misses \in 0 .. MaxTimeouts /\ reads \in Int
  /\ result \in {"none", "ok", "null", "length_error", "underrun"}
  /\ (result = "none") = (pc # "done")

(* BodyExact: what a caller gets from recvResponse.  A response is         *)
(* returned with the body the peer sent iff no read ended inside its       *)
(* length header, or, of a chunked one, iff the reads behind the head's    *)
(* ended exactly at the ends of its chunks, one read for each; otherwise   *)
(* the body may be wrong and still be returned.  std::length_error leaves  *)
(* recvResponse only for such a chunked response.  A timeout inside a body *)
(* of declared length makes the loop want more bytes than were sent: no    *)
(* response is ever returned, and a byte may be put in front of the body.  *)
Whole == result = "ok" /\ got.body = rsp.body
BodyExact ==
  /\ rsp.kind = "chunked" => (Whole <=> reads = Len(rsp.ends))
  /\ rsp.kind = "length" /\ result = "ok" => (Whole <=> reads = 0) /\ misses = 0
  /\ result = "length_error" => reads = -1
  /\ result = "underrun" => misses > 0

(* Returns: recvResponse returns, unless a read timed out inside a body of *)
(* declared length.                                                        *)
Returns == <>(pc = "done" \/ misses > 0)
=============================================================================
