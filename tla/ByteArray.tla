----------------------------- MODULE ByteArray -----------------------------
(***************************************************************************)
(* common/bytearray.{h,cpp}: a list of nodes of m_baseSize bytes with a    *)
(* position and a pointer to its node, and the calls of net/socket_stream  *)
(* that fill and drain it through iovecs.  The object is one record; its   *)
(* methods are operators on it, so that calls made one after the other are *)
(* composed.  The copying loops visit cells: node and offset of each byte. *)
(* Following a null node pointer ends the process: fault names the call.   *)
(***************************************************************************)
EXTENDS Integers, Sequences, SequencesExt

CONSTANTS
  BaseSizes,    \* node sizes the constructor may be given
  Bytes,        \* strings the callers write
  Ints,         \* integers they write with writeInt32 or writeInt64
  Files,        \* contents of the files they read
  Width, Group, \* bits of an integer, and of a byte without its high bit
  MaxSize       \* bound on the capacity

Null == 0     \* node pointers are positions in the list, from 1
Junk == -1    \* a byte of new char[] that was never written

ASSUME ByteArrayAssumption ==
  /\ BaseSizes \subseteq Nat \ {0} /\ MaxSize \in Nat
  /\ Width \in Nat \ {0} /\ Group \in Nat \ {0}
  /\ \A s \in Bytes \cup Files : s \in Seq(0 .. 2 ^ (Group + 1) - 1)
  /\ Ints \subseteq (-(2 ^ (Width - 1))) .. 2 ^ (Width - 1) - 1

VARIABLES
  b,   \* the ByteArray
  io   \* the bytes the last call wrote or returned

vars == <<b, io>>

NewNode(base) == [o \in 0 .. base - 1 |-> Junk]
NewByteArray(base) ==
  [m_baseSize |-> base, m_position |-> 0, m_capacity |-> base, m_size |-> 0,
   nodes |-> <<NewNode(base)>>, m_cur |-> 1, fault |-> "none"]

Init == \E base \in BaseSizes : b = NewByteArray(base) /\ io = <<>>

-----------------------------------------------------------------------------
(* Nodes and cells *)

getCapacity(a) == a.m_capacity - a.m_position
getReadSize(a) == a.m_size - a.m_position

\* The cell of the k-th byte from offset npos of node cur on.
Cell(a, cur, npos, k) ==
  <<cur + (npos + k - 1) \div a.m_baseSize, (npos + k - 1) % a.m_baseSize>>

\* The loops find a node for each of the n bytes.
Reaches(a, cur, npos, n) == cur # Null /\ Cell(a, cur, npos, n)[1] <= Len(a.nodes)

BytesFrom(a, cur, npos, n) ==
  [k \in 1 .. n |-> LET c == Cell(a, cur, npos, k) IN a.nodes[c[1]][c[2]]]

NposIgnored(a) == 0
Npos(a) == a.m_position % a.m_baseSize

\* memcpy of s into the cells at the position.
Store(a, s) ==
  LET k(i, o) == (i - a.m_cur) * a.m_baseSize + o - Npos(a) + 1 IN
  [a EXCEPT !.nodes =
     [i \in DOMAIN @ |-> [o \in DOMAIN @[i] |->
        IF k(i, o) \in DOMAIN s THEN s[k(i, o)] ELSE @[i][o]]]]

\* The node that is current after n more bytes: the next one at once when the
\* last is full, and none at the end of the list.
CurAfterUnbounded(a, n) == a.m_cur + (Npos(a) + n) \div a.m_baseSize
CurAfter(a, n) ==
  LET next == a.m_cur + (Npos(a) + n) \div a.m_baseSize IN
  IF next <= Len(a.nodes) THEN next ELSE Null

AtLeast(m, n) == IF m < n THEN n ELSE m

Advance(a, n) ==
  [a EXCEPT !.m_position = @ + n, !.m_cur = CurAfter(a, n),
            !.m_size = AtLeast(@, a.m_position + n)]

\* Nodes addCapacity appends for the size bytes of which free fit.
MissingNodesLessOne(a, size, free) == (size - free - 1) \div a.m_baseSize
MissingNodes(a, size, free) ==
  (size - free) \div a.m_baseSize
    + (IF (size - free) % a.m_baseSize > free THEN 1 ELSE 0)

AddCapacity(a, size) ==
  LET free == getCapacity(a)
      count == IF free >= size THEN 0 ELSE MissingNodes(a, size, free)
  IN [a EXCEPT !.m_capacity = @ + count * a.m_baseSize,
               !.nodes = @ \o [i \in 1 .. count |-> NewNode(a.m_baseSize)],
               !.m_cur = IF count > 0 /\ free = 0 THEN Len(a.nodes) + 1 ELSE @]

-----------------------------------------------------------------------------
(* Methods *)

Crash(a, call) == [a EXCEPT !.fault = call]

write(a, s) ==
  IF s = <<>> \/ a.fault # "none" THEN a
  ELSE LET g == AddCapacity(a, Len(s)) IN
       IF Reaches(g, g.m_cur, Npos(g), Len(s))
         THEN Advance(Store(g, s), Len(s)) ELSE Crash(a, "write")

\* read() of no byte still looks at the current node.
read(a, n) ==
  IF n = 0 THEN (IF a.m_cur = Null THEN Crash(a, "empty read") ELSE a)
  ELSE IF Reaches(a, a.m_cur, Npos(a), n) THEN Advance(a, n) ELSE Crash(a, "read")

\* The node of position v, found from the root: v on a boundary belongs to
\* the node that follows.
NodeBefore(a, v) == IF v = 0 THEN 1 ELSE (v - 1) \div a.m_baseSize + 1
NodeOf(a, v) ==
  IF v < a.m_capacity THEN v \div a.m_baseSize + 1 ELSE Null

setPosition(a, v) ==
  [a EXCEPT !.m_position = v, !.m_size = AtLeast(@, v), !.m_cur = NodeOf(a, v)]

clear(a) ==
  [a EXCEPT !.m_position = 0, !.m_size = 0, !.m_capacity = a.m_baseSize,
            !.nodes = <<a.nodes[1]>>, !.m_cur = 1]

\* What is read back, by the four ways that do not move the position:
\* toString, the two getReadBuffers and writeToFile.
toString(a) ==
  IF getReadSize(a) = 0 THEN <<>>
  ELSE BytesFrom(a, a.m_cur, Npos(a), getReadSize(a))

Capped(a, len) == IF len > getReadSize(a) THEN getReadSize(a) ELSE len

getReadBuffers(a, len) ==
  IF Capped(a, len) = 0 THEN <<>>
  ELSE BytesFrom(a, a.m_cur, Npos(a), Capped(a, len))

NodeFromRootStrict(a, p) == IF p = 0 THEN 1 ELSE (p - 1) \div a.m_baseSize + 1
NodeFromRoot(a, p) == p \div a.m_baseSize + 1

getReadBuffersFrom(a, len, p) ==
  BytesFrom(a, NodeFromRoot(a, p), p % a.m_baseSize, Capped(a, len))

\* One round of the loop of writeToFile, at the node, position and count of
\* bytes left in r, writes len bytes and takes the next node.
\* (After a round of no length or less there is nothing to compare.)
FileRound(a, left, diff) ==
  (IF left > a.m_baseSize THEN a.m_baseSize ELSE left) - diff

writeToFile(a) ==
  LET loop[r \in Nat \X Nat \X Nat] ==
        LET diff == r[2] % a.m_baseSize
            len == FileRound(a, r[3], diff)
        IN IF r[3] = 0 \/ len <= 0 THEN <<>>
           ELSE BytesFrom(a, r[1], diff, len) \o loop[<<r[1] + 1, r[2] + len, r[3] - len>>]
  IN loop[<<a.m_cur, a.m_position, getReadSize(a)>>]

\* readFromFile writes the file in pieces of a node's size, the last shorter.
Pieces(base, s) ==
  [i \in 1 .. Len(s) \div base + 1 |->
     SubSeq(s, (i - 1) * base + 1, IF i * base > Len(s) THEN Len(s) ELSE i * base)]
readFromFile(a, s) == FoldLeft(write, a, Pieces(a.m_baseSize, s))

-----------------------------------------------------------------------------
(* Integers: zigzag, then Group bits to a byte, low bits first, the high bit *)
(* of a byte saying that another follows.                                    *)

Modulus == 2 ^ Width
More == 2 ^ Group
Representable == (-(Modulus \div 2)) .. Modulus \div 2 - 1

EncodeZigzag(v) == (IF v < 0 THEN ((-v) % Modulus) * 2 - 1 ELSE v * 2) % Modulus

\* (v >> 1) ^ -(v & 1), as a signed integer.
DecodeZigzag(u) ==
  LET x == IF u % 2 = 1 THEN Modulus - 1 - (u \div 2) ELSE u \div 2 IN
  IF x >= Modulus \div 2 THEN x - Modulus ELSE x

NeedsMoreStrictly(u) == u > More
NeedsMore(u) == u >= More

writeUint ==
  LET bytes[u \in 0 .. Modulus - 1] ==
        IF NeedsMore(u) THEN <<(u % More) + More>> \o bytes[u \div More] ELSE <<u>>
  IN bytes

\* The bytes of s that readUint takes: up to the first without the high bit,
\* at most as many as the loop has rounds.
Rounds == (Width + Group - 1) \div Group
Taken(s) ==
  LET ends == {k \in DOMAIN s : k = Rounds \/ s[k] < More} IN
  IF ends = {} THEN Len(s) ELSE CHOOSE k \in ends : \A j \in ends : k <= j

readUint(s) ==
  FoldLeft(+, 0, [k \in 1 .. Taken(s) |-> (s[k] % More) * 2 ^ (Group * (k - 1))]) % Modulus

-----------------------------------------------------------------------------
(* Calls *)

Alive == b.fault = "none"

\* The result of a method that moved the bytes s.
Done(a, s) ==
  IF a.fault = "none" THEN b' = a /\ io' = s
  ELSE b' = Crash(b, a.fault) /\ UNCHANGED io

Fits(n) == b.m_position + n <= MaxSize

Write(s) == Alive /\ Fits(Len(s)) /\ Done(write(b, s), s)

\* writeStringF16 and its like: the length, then the string.
WriteString(s) ==
  /\ Alive /\ Fits(Len(s) + 1)
  /\ Done(write(write(b, <<Len(s)>>), s), <<Len(s)>> \o s)

WriteInt(v) ==
  LET s == writeUint[EncodeZigzag(v)] IN Alive /\ Fits(Len(s)) /\ Done(write(b, s), s)

ReadFromFile(s) == Alive /\ Fits(Len(s)) /\ Done(readFromFile(b, s), s)

\* read() throws without a change when there are not enough bytes.
Read(n) == Alive /\ n <= getReadSize(b) /\ Done(read(b, n), SubSeq(toString(b), 1, n))

\* readStringF16: the length is consumed even if the string is not there.
ReadString ==
  /\ Alive /\ getReadSize(b) > 0
  /\ LET n == toString(b)[1]
         header == read(b, 1)
     IN /\ n # Junk
        /\ IF n <= getReadSize(header)
             THEN Done(read(header, n), SubSeq(toString(b), 1, n + 1))
             ELSE Done(header, <<n>>)

\* readInt32: byte after byte; a missing one throws with the others consumed.
ReadInt ==
  /\ Alive /\ getReadSize(b) > 0
  /\ LET s == SubSeq(toString(b), 1, Taken(toString(b))) IN
     Junk \notin Range(s) /\ Done(read(b, Len(s)), s)

\* setPosition throws beyond the capacity.
SetPosition(v) == Alive /\ v <= b.m_capacity /\ Done(setPosition(b, v), <<>>)

Clear == Alive /\ Done(clear(b), <<>>)

\* SocketStream::read: room for len bytes, of which the peer fills s, then
\* the position is moved over them.
StreamRead(len, s) ==
  /\ Alive /\ Fits(len) /\ Len(s) <= len
  /\ LET g == AddCapacity(b, len) IN
     Done(IF ~Reaches(g, g.m_cur, Npos(g), len) THEN Crash(b, "write")
          ELSE IF s = <<>> THEN g
          ELSE setPosition(Store(g, s), g.m_position + Len(s)), s)

\* SocketStream::write: the peer takes n of the bytes offered.
StreamWrite(len, n) ==
  /\ Alive /\ n \in 1 .. Len(getReadBuffers(b, len))
  /\ Done(setPosition(b, b.m_position + n), SubSeq(getReadBuffers(b, len), 1, n))

Next ==
  \/ \E s \in Bytes : Write(s) \/ WriteString(s)
  \/ \E s \in Files : ReadFromFile(s)
  \/ \E v \in Ints : WriteInt(v)
  \/ \E n \in 0 .. MaxSize : Read(n) \/ SetPosition(n)
  \/ ReadString \/ ReadInt \/ Clear
  \/ \E len \in 1 .. MaxSize :
       \/ \E s \in Bytes \cup {<<>>} : StreamRead(len, s)
       \/ \E n \in 1 .. len : StreamWrite(len, n)

Spec == Init /\ [][Next]_vars

-----------------------------------------------------------------------------
(* Properties *)

Faults == {"none", "write", "read", "empty read"}

\* The members of ByteArray (bytearray.h 116-128); every node has the size of
\* the first, and the pointer is to one of them or null.
TypeOK ==
  /\ b.m_baseSize \in BaseSizes
  /\ b.m_position \in Nat /\ b.m_size \in Nat /\ b.m_capacity \in Nat
  /\ \A i \in DOMAIN b.nodes : DOMAIN b.nodes[i] = 0 .. b.m_baseSize - 1
  /\ b.m_cur \in 0 .. Len(b.nodes)
  /\ b.fault \in Faults

\* m_cur is the node of m_position after any sequence of calls, also when
\* the position is at the edge of two nodes, and is null at the very end of
\* the capacity and only there; position, size and capacity are in order.
CursorInOrder ==
  /\ b.m_position <= b.m_size /\ b.m_size <= b.m_capacity
  /\ b.m_capacity = Len(b.nodes) * b.m_baseSize
  /\ b.m_cur = (IF b.m_position = b.m_capacity THEN Null
                ELSE b.m_position \div b.m_baseSize + 1)

\* The bytes of the file that the nodes hold.
Content ==
  [i \in 1 .. b.m_size |-> b.nodes[(i - 1) \div b.m_baseSize + 1][(i - 1) % b.m_baseSize]]
Rest == SubSeq(Content, b.m_position + 1, b.m_size)

File == INSTANCE ByteFile WITH content <- Content, pos <- b.m_position, io <- io

\* Until the process ends, a ByteArray is a file of bytes: what is written
\* across nodes, by calls or through iovecs, is what is read there later, and
\* nothing else changes.
IsFile == File!Spec

\* A null node is followed in two ways only: writing after addCapacity added
\* too few nodes, which those of one byte, as the tests use, exclude, and the
\* read of an empty string at the end of the capacity.  Reading any byte that
\* getReadSize() counts never runs off the list.
KnownCrashes ==
  /\ b.fault # "read"
  /\ b.m_baseSize = 1 => b.fault # "write"

\* The cursor is in order after any sequence of calls, and is followed where
\* there is no node in the known two ways only.
CursorExact == CursorInOrder /\ KnownCrashes

\* What read() would return is what the other ways return: toString, the two
\* getReadBuffers, also from a position before the current one, and
\* writeToFile, if it starts at the edge of a node or there is more than a
\* node left.  (Otherwise its first round counts the offset twice.)
ViewsAgree ==
  /\ toString(b) = Rest
  /\ \A len \in 0 .. MaxSize :
       /\ getReadBuffers(b, len) = SubSeq(Rest, 1, Capped(b, len))
       /\ \A p \in 0 .. b.m_position :
            getReadBuffersFrom(b, len, p) = SubSeq(Content, p + 1, p + Capped(b, len))
  /\ b.m_position % b.m_baseSize = 0 \/ getReadSize(b) > b.m_baseSize
       => writeToFile(b) = Rest

\* Every integer is read back as written, from no more bytes than the
\* decoding loop has rounds, and the decoder takes exactly these bytes
\* whatever the array holds after them.
CodecExact ==
  \A v \in Representable :
    LET s == writeUint[EncodeZigzag(v)] IN
    /\ Taken(s \o Rest) = Len(s)
    /\ DecodeZigzag(readUint(s \o Rest)) = v

\* Every way of reading gives the bytes of the file, and every integer that
\* is written in front of them is read back.
ReadsExact == ViewsAgree /\ CodecExact

\* bytearray.h 110: addCapacity makes the array hold size more bytes.
CapacityPromise == b.fault # "write"
=============================================================================
