----------------------------- MODULE HttpProofs -----------------------------
(***************************************************************************)
(* The safety properties of module Http: of the pool's connections, of the *)
(* client's receiver and of the server's session, each for any values of   *)
(* its constants.                                                          *)
(*                                                                         *)
(* Pool: any number of threads and requests, any m_maxSize and             *)
(* m_maxRequest, and any m_maxAliveTime that is shorter than the time      *)
(* since 1970 (ClockAssumption).  That a response is the one its request   *)
(* asked for is inductive only with what is under way on every connection: *)
(* nothing on a listed one (Clean), on a held one nothing but the request  *)
(* of its thread and the answer to it (Served).                            *)
(*                                                                         *)
(* Session and receiver: sequences of any length, read in pieces of any    *)
(* size.  What is inductive is how far the buffer, the body and the place  *)
(* on the wire belong together, and what becomes of them once a timeout or *)
(* a read has made them differ.                                            *)
(***************************************************************************)
EXTENDS Http, FiniteSetTheorems, WellFoundedInduction, TLAPS

-----------------------------------------------------------------------------
(* HttpConnectionPool. *)

\* The values of the variables.
Places == {"idle", "drop", "connect", "count", "send", "recv", "release", "uncount", "spin"}
Requests == Threads \X (0 .. MaxRequests)

Results == {"OK", "none", "POOL_GET_CONNECTION", "TIMEOUT"}
RequestRecords == [n: 0 .. MaxRequests, reused: BOOLEAN, result: Results,
                   to: Requests \cup {<<>>}, body: BOOLEAN]
ConnRecords == [state: {"none", "live", "deleted"}, isConnected: BOOLEAN, m_request: Nat]
Parts == [to: Requests, part: {"head", "body"}]

\* The types of all variables; no connection is ever invalid, as a listed one is
\* connected and none is too old.
PoolTypes ==
  /\ m_conns \in Seq(Conns) /\ m_total \in Int
  /\ conn \in [Conns -> ConnRecords]
  /\ pc \in [Threads -> Places] /\ ptr \in [Threads -> Conns \cup {NULL}]
  /\ invalid = [t \in Threads |-> {}]
  /\ request \in [Threads -> RequestRecords]
  /\ keeps \in BOOLEAN /\ peer \in [Conns -> {"open", "fin", "rst"}]
  /\ asked \in [Conns -> Seq(Requests)] /\ wire \in [Conns -> Seq(Parts)]

\* A connection is listed once, or held by one thread, and lives only then.
Listed(c) == c \in ToSet(m_conns)
Distinct == \A i, j \in DOMAIN m_conns : m_conns[i] = m_conns[j] => i = j
Located ==
  /\ \A t \in Threads : ptr[t] # NULL => ~ Listed(ptr[t])
  /\ \A t, u \in Threads : ptr[t] = ptr[u] /\ ptr[t] # NULL => t = u
  /\ \A c \in Conns :
       conn[c].state = "live" <=> Listed(c) \/ \E t \in Threads : ptr[t] = c

\* Which threads hold a connection.
Holding ==
  \A t \in Threads :
    ptr[t] = NULL <=> pc[t] \in {"idle", "connect", "uncount"}
                      \/ (pc[t] = "drop" /\ ~ request[t].reused)
Unused == \A t \in Threads : pc[t] \in {"connect", "count"} => ~ request[t].reused

\* A connection that lives may serve at least one more request.
MostRequests == IF m_maxRequest = 0 THEN 1 ELSE m_maxRequest
RequestsCounted ==
  \A c \in Conns :
    /\ conn[c].state # "deleted" => conn[c].m_request < MostRequests
    /\ conn[c].m_request <= MostRequests

\* No response begins on the wire.
Leftover(c) == wire[c] = <<>> \/ wire[c][1].part = "body"
\* Nothing is under way on a connection.
Quiet(c) == conn[c].isConnected /\ asked[c] = <<>> /\ Leftover(c)
\* What the peer does not keep it has closed.
Spent(c) == keeps \/ peer[c] # "open"
Response(r) == <<[to |-> r, part |-> "head"], [to |-> r, part |-> "body"]>>

\* The peer has nothing to do with an unused connection; a listed one is
\* connected and free for the next request.
Clean ==
  /\ \A c \in Conns : conn[c].state = "none" => asked[c] = <<>> /\ wire[c] = <<>>
  /\ \A c \in Conns : Listed(c) => Quiet(c) /\ Spent(c)
\* What is under way on the connection of a thread: before its request is sent,
\* nothing; then the request, or the answer to it; then nothing or the body.  On
\* a reused connection that the peer does not keep, nothing at all.
Serving(t) ==
  /\ pc[t] \in {"drop", "count", "send"} /\ ptr[t] # NULL =>
       Quiet(ptr[t]) /\ (request[t].reused => Spent(ptr[t]))
  /\ pc[t] = "recv" =>
       /\ asked[ptr[t]] # <<>> =>
            asked[ptr[t]] = << <<t, request[t].n>> >> /\ Leftover(ptr[t])
       /\ ~ Leftover(ptr[t]) =>
            wire[ptr[t]] = Response(<<t, request[t].n>>) /\ Spent(ptr[t])
       /\ request[t].reused /\ ~ keeps =>
            peer[ptr[t]] # "open" /\ asked[ptr[t]] = <<>> /\ Leftover(ptr[t])
  /\ pc[t] = "release" /\ conn[ptr[t]].isConnected => Quiet(ptr[t]) /\ Spent(ptr[t])
Served == \A t \in Threads : Serving(t)

\* What is returned is the response to that request.
Answered ==
  \A t \in Threads : request[t].result = "OK" =>
    request[t].to = <<t, request[t].n>> /\ (request[t].reused => keeps)

\* The threads of some places; those with a request under way.
Inside(p, P) == {t \in Threads : p[t] \in P}
Busy == Places \ {"idle", "uncount"}
\* The list and the threads at work: a connection is made only by a thread that
\* found the list empty.
Bounded == Cardinality(ToSet(m_conns)) + Cardinality(Inside(pc, Busy)) <= Cardinality(Threads)
\* m_total is late by the threads that have not counted yet.
Counted ==
  m_total = Cardinality(Live) - Cardinality(Inside(pc, {"count"}))
            + Cardinality(Inside(pc, {"uncount"}))

\* The inductive invariant.
PoolInv ==
  /\ PoolTypes /\ Distinct /\ Located /\ Holding /\ Unused /\ RequestsCounted /\ Clean /\ Served
  /\ Answered /\ Bounded /\ Counted

-----------------------------------------------------------------------------
(* What the steps do, given the invariant. *)

\* No connection is too old: m_createTime is the start of 1970.
LEMMA NeverOld == ClockAssumption => ~ TooOld /\ ~ OldEnough
  BY DEF ClockAssumption, TooOld, OldEnough, m_createTime

\* getConnection takes the head of the list, which is connected, and drops none.
LEMMA Drawn ==
  ASSUME ClockAssumption, PoolTypes, Clean, NEW t \in Threads, GetConnection(t)
  PROVE  /\ pc[t] = "idle" /\ pc' = [pc EXCEPT ![t] = "drop"]
         /\ invalid' = invalid /\ request[t].n < MaxRequests
         /\ UNCHANGED <<m_total, conn, keeps, peer, asked, wire>>
         /\ \/ /\ m_conns = <<>> /\ m_conns' = <<>>
               /\ ptr' = [ptr EXCEPT ![t] = NULL]
               /\ request' = [request EXCEPT ![t] =
                    [n |-> request[t].n + 1, reused |-> FALSE, result |-> "none", to |-> <<>>,
                     body |-> FALSE]]
            \/ /\ m_conns # <<>> /\ m_conns' = Tail(m_conns)
               /\ ptr' = [ptr EXCEPT ![t] = m_conns[1]]
               /\ request' = [request EXCEPT ![t] =
                    [n |-> request[t].n + 1, reused |-> TRUE, result |-> "none", to |-> <<>>,
                     body |-> FALSE]]
<1> DEFINE I == {i \in 1 .. Len(m_conns) : Usable(m_conns[i])}
           found == SelectInSeq(m_conns, Usable)
           k == IF found = 0 THEN Len(m_conns) ELSE found
<1>1. /\ pc[t] = "idle" /\ pc' = [pc EXCEPT ![t] = "drop"] /\ request[t].n < MaxRequests
      /\ UNCHANGED <<m_total, conn, keeps, peer, asked, wire>>
      /\ m_conns' = SubSeq(m_conns, k + 1, Len(m_conns))
      /\ ptr' = [ptr EXCEPT ![t] = IF found = 0 THEN NULL ELSE m_conns[found]]
      /\ invalid' = [invalid EXCEPT ![t] =
           {c \in ToSet(SubSeq(m_conns, 1, k)) : ~ Usable(c)}]
      /\ request' = [request EXCEPT ![t] =
           [n |-> request[t].n + 1, reused |-> found # 0, result |-> "none", to |-> <<>>, body |-> FALSE]]
  BY DEF GetConnection, Goto, peerVars
<1>2. m_conns \in Seq(Conns) /\ Len(m_conns) \in Nat /\ DOMAIN m_conns = 1 .. Len(m_conns)
  BY DEF PoolTypes
<1>3. \A i \in 1 .. Len(m_conns) : Usable(m_conns[i])
  BY <1>2, NeverOld DEF Clean, Quiet, Listed, ToSet, Usable
<1>4. found = IF I # {} THEN Min(I) ELSE 0
  BY DEF SelectInSeq
<1>5. I = 1 .. Len(m_conns)
  BY <1>3
<1> HIDE DEF I, found
<1>6. CASE m_conns = <<>>
  <2>1. found = 0
    BY <1>4, <1>5, <1>6
  <2>2. ToSet(SubSeq(m_conns, 1, k)) = {}
    BY <1>6, <2>1 DEF ToSet
  <2>3. invalid' = invalid
    BY <1>1, <2>2 DEF PoolTypes
  <2>4. m_conns' = <<>>
    BY <1>1, <1>6, <2>1
  <2> QED
    BY <1>1, <1>6, <2>1, <2>3, <2>4
<1>7. CASE m_conns # <<>>
  <2>1. 1 \in I /\ I \subseteq Nat /\ \A i \in I : 1 <= i
    BY <1>2, <1>5, <1>7
  <2>2. Min(I) = 1
    <3>1. PICK m \in I : m = Min(I) /\ \A i \in I : m <= i
      BY <2>1, Zenon DEF Min
    <3> QED
      BY <2>1, <3>1
  <2>3. found = 1
    BY <1>4, <2>1, <2>2
  <2>4. \A c \in ToSet(SubSeq(m_conns, 1, k)) : Usable(c)
    <3>1. k = 1
      BY <2>3
    <3>2. /\ DOMAIN SubSeq(m_conns, 1, 1) = 1 .. 1
          /\ \A i \in 1 .. 1 : SubSeq(m_conns, 1, 1)[i] = m_conns[i]
      BY <1>2, <1>7
    <3> QED
      BY <1>2, <1>3, <1>7, <3>1, <3>2 DEF ToSet
  <2>5. {c \in ToSet(SubSeq(m_conns, 1, k)) : ~ Usable(c)} = {}
    BY <2>4
  <2>6. invalid' = invalid
    BY <1>1, <2>5 DEF PoolTypes
  <2>7. m_conns' = Tail(m_conns)
    BY <1>1, <1>2, <1>7, <2>3
  <2>8. /\ ptr' = [ptr EXCEPT ![t] = m_conns[1]]
        /\ request' = [request EXCEPT ![t] =
             [n |-> request[t].n + 1, reused |-> TRUE, result |-> "none", to |-> <<>>, body |-> FALSE]]
    <3>1. (found # 0) = TRUE /\ found # 0
      BY <2>3
    <3> QED
      BY <1>1, <2>3, <3>1
  <2> QED
    BY <1>1, <1>7, <2>6, <2>7, <2>8
<1> QED
  BY <1>6, <1>7

\* What is left of the list.
LEMMA TailFacts ==
  ASSUME m_conns \in Seq(Conns), m_conns # <<>>
  PROVE  /\ Tail(m_conns) \in Seq(Conns) /\ m_conns[1] \in Conns
         /\ 1 \in DOMAIN m_conns
         /\ DOMAIN Tail(m_conns) = 1 .. Len(m_conns) - 1
         /\ \A i \in 1 .. Len(m_conns) - 1 : Tail(m_conns)[i] = m_conns[i + 1]
         /\ DOMAIN m_conns = 1 .. Len(m_conns) /\ Len(m_conns) \in Nat \ {0}
  OBVIOUS

\* There is no invalid connection to delete.
LEMMA Dropped ==
  ASSUME PoolTypes, NEW t \in Threads, Drop(t)
  PROVE  /\ pc[t] = "drop"
         /\ pc' = [pc EXCEPT ![t] = IF ptr[t] = NULL THEN "connect" ELSE "send"]
         /\ UNCHANGED <<m_conns, m_total, conn, ptr, invalid, request, keeps, peer, asked, wire>>
<1>1. invalid[t] = {}
  BY DEF PoolTypes
<1>2. conn' = conn
  BY <1>1 DEF Drop, PoolTypes
<1>3. peer' = peer /\ asked' = asked /\ wire' = wire
  BY <1>1 DEF Drop, Broken, PoolTypes
<1>4. m_total' = m_total
  BY <1>1, FS_EmptySet DEF Drop, PoolTypes
<1>5. invalid' = invalid
  BY <1>1 DEF Drop, PoolTypes
<1> QED
  BY <1>2, <1>3, <1>4, <1>5 DEF Drop, Goto

\* A connection that is given back.
LEMMA Kept ==
  ASSUME PoolTypes, NEW t \in Threads, ptr[t] # NULL, Release(t), Reusable(ptr[t])
  PROVE  /\ ptr[t] \in Conns /\ pc[t] = "release" /\ pc' = [pc EXCEPT ![t] = "idle"]
         /\ ptr' = [ptr EXCEPT ![t] = NULL] /\ m_conns' = Append(m_conns, ptr[t])
         /\ conn' = [conn EXCEPT ![ptr[t]] = [conn[ptr[t]] EXCEPT !.m_request = @ + 1]]
         /\ UNCHANGED <<m_total, invalid, request, keeps, peer, asked, wire>>
<1>1. ptr[t] \in Conns
  BY DEF PoolTypes
<1>2. conn' = [conn EXCEPT ![ptr[t]] =
        [conn[ptr[t]] EXCEPT !.m_request = @ + 1, !.state = conn[ptr[t]].state]]
  BY DEF Release
<1>3. conn' = [conn EXCEPT ![ptr[t]] = [conn[ptr[t]] EXCEPT !.m_request = @ + 1]]
  <2>1. conn[ptr[t]] \in ConnRecords
    BY <1>1 DEF PoolTypes
  <2>2. [conn[ptr[t]] EXCEPT !.m_request = @ + 1, !.state = conn[ptr[t]].state]
          = [conn[ptr[t]] EXCEPT !.m_request = @ + 1]
    BY <2>1 DEF ConnRecords
  <2> QED
    BY <1>2, <2>2
<1>4. peer' = peer /\ asked' = asked /\ wire' = wire
  BY DEF Release, Broken, PoolTypes
<1> QED
  BY <1>1, <1>3, <1>4 DEF Release, Goto

\* A connection that is deleted.
LEMMA Deleted ==
  ASSUME PoolTypes, NEW t \in Threads, ptr[t] # NULL, Release(t), ~ Reusable(ptr[t])
  PROVE  /\ ptr[t] \in Conns /\ pc[t] = "release" /\ pc' = [pc EXCEPT ![t] = "uncount"]
         /\ ptr' = [ptr EXCEPT ![t] = NULL]
         /\ conn' = [conn EXCEPT ![ptr[t]] =
               [conn[ptr[t]] EXCEPT !.m_request = @ + 1, !.state = "deleted"]]
         /\ peer' = [peer EXCEPT ![ptr[t]] = "fin"]
         /\ asked' = [asked EXCEPT ![ptr[t]] = <<>>] /\ wire' = [wire EXCEPT ![ptr[t]] = <<>>]
         /\ UNCHANGED <<m_conns, m_total, invalid, request, keeps>>
<1>1. ptr[t] \in Conns
  BY DEF PoolTypes
<1>2. /\ peer' = [peer EXCEPT ![ptr[t]] = "fin"]
      /\ asked' = [asked EXCEPT ![ptr[t]] = <<>>] /\ wire' = [wire EXCEPT ![ptr[t]] = <<>>]
  BY <1>1 DEF Release, Broken, PoolTypes
<1> QED
  BY <1>1, <1>2 DEF Release, Goto

\* A response that is received, with its body or without.
LEMMA Received ==
  ASSUME PoolTypes, Holding, NEW t \in Threads, RecvResponse(t)
  PROVE  /\ ptr[t] \in Conns /\ pc[t] = "recv" /\ pc' = [pc EXCEPT ![t] = "release"]
         /\ wire[ptr[t]] \in Seq(Parts) /\ wire[ptr[t]] # <<>> /\ ~ Leftover(ptr[t])
         /\ wire[ptr[t]][1].to \in Requests
         /\ UNCHANGED <<m_conns, m_total, conn, ptr, invalid, keeps, peer, asked>>
         /\ \E whole \in BOOLEAN :
              /\ wire' = [wire EXCEPT ![ptr[t]] =
                   SubSeq(wire[ptr[t]], IF whole THEN 3 ELSE 2, Len(wire[ptr[t]]))]
              /\ request' = [request EXCEPT ![t] =
                   [request[t] EXCEPT !.result = "OK", !.to = wire[ptr[t]][1].to, !.body = whole]]
<1>1. ptr[t] \in Conns /\ pc[t] = "recv" /\ pc' = [pc EXCEPT ![t] = "release"]
  BY DEF RecvResponse, Goto, Holding, PoolTypes
<1>2. /\ wire[ptr[t]] \in Seq(Parts) /\ wire[ptr[t]] # <<>> /\ ~ Leftover(ptr[t])
      /\ wire[ptr[t]][1] \in Parts
  BY <1>1 DEF RecvResponse, Leftover, PoolTypes
<1>3. wire[ptr[t]][1].to \in Requests
  BY <1>2 DEF Parts
<1>4. (Len(wire[ptr[t]]) >= 2) \in BOOLEAN
  OBVIOUS
<1>5. PICK whole \in {Len(wire[ptr[t]]) >= 2, FALSE} :
        /\ wire' = [wire EXCEPT ![ptr[t]] =
             SubSeq(wire[ptr[t]], IF whole THEN 3 ELSE 2, Len(wire[ptr[t]]))]
        /\ request' = [request EXCEPT ![t] =
             [request[t] EXCEPT !.result = "OK", !.to = wire[ptr[t]][1].to, !.body = whole]]
  BY DEF RecvResponse
<1>6. whole \in BOOLEAN
  BY <1>4, <1>5
<1> QED
  BY <1>1, <1>2, <1>3, <1>5, <1>6 DEF RecvResponse, poolVars

-----------------------------------------------------------------------------
(* The types. *)

\* The records of the pool and what the steps make of them.
LEMMA RecordFacts ==
  /\ \A r \in ConnRecords :
       /\ r.isConnected \in BOOLEAN /\ r.m_request \in Nat
       /\ r.state \in {"none", "live", "deleted"}
       /\ [r EXCEPT !.isConnected = FALSE] \in ConnRecords
       /\ [r EXCEPT !.m_request = @ + 1] \in ConnRecords
       /\ [r EXCEPT !.m_request = @ + 1, !.state = "deleted"] \in ConnRecords
  /\ \A c \in {"none", "live"}, b \in BOOLEAN :
       [state |-> c, isConnected |-> b, m_request |-> 0] \in ConnRecords
  /\ \A r \in RequestRecords :
       /\ r.n \in 0 .. MaxRequests /\ r.reused \in BOOLEAN /\ r.result \in Results
       /\ \A x \in Results : [r EXCEPT !.result = x] \in RequestRecords
       /\ \A x \in Requests, b \in BOOLEAN :
            [r EXCEPT !.result = "OK", !.to = x, !.body = b] \in RequestRecords
  /\ \A r \in Parts : r.to \in Requests /\ r.part \in {"head", "body"}
  /\ \A x \in Requests, p \in {"head", "body"} : [to |-> x, part |-> p] \in Parts
<1>1. ASSUME NEW r \in ConnRecords
      PROVE  /\ r.isConnected \in BOOLEAN /\ r.m_request \in Nat
             /\ r.state \in {"none", "live", "deleted"}
             /\ [r EXCEPT !.isConnected = FALSE] \in ConnRecords
             /\ [r EXCEPT !.m_request = @ + 1] \in ConnRecords
             /\ [r EXCEPT !.m_request = @ + 1, !.state = "deleted"] \in ConnRecords
  <2>1. r.isConnected \in BOOLEAN /\ r.m_request \in Nat /\ r.state \in {"none", "live", "deleted"}
    BY DEF ConnRecords
  <2>2. [r EXCEPT !.isConnected = FALSE] \in ConnRecords
    BY DEF ConnRecords
  <2>3. r.m_request + 1 \in Nat
    BY <2>1
  <2>4. \A n \in Nat : [r EXCEPT !.m_request = n] \in ConnRecords
    BY DEF ConnRecords
  <2>5. \A n \in Nat : [r EXCEPT !.m_request = n, !.state = "deleted"] \in ConnRecords
    BY DEF ConnRecords
  <2> QED
    BY <2>1, <2>2, <2>3, <2>4, <2>5
<1>2. \A c \in {"none", "live"}, b \in BOOLEAN :
       [state |-> c, isConnected |-> b, m_request |-> 0] \in ConnRecords
  BY DEF ConnRecords
<1>3. \A r \in RequestRecords :
       /\ r.n \in 0 .. MaxRequests /\ r.reused \in BOOLEAN /\ r.result \in Results
       /\ \A x \in Results : [r EXCEPT !.result = x] \in RequestRecords
  BY DEF RequestRecords
<1>4. ASSUME NEW r \in RequestRecords, NEW x \in Requests, NEW b \in BOOLEAN
      PROVE  [r EXCEPT !.result = "OK", !.to = x, !.body = b] \in RequestRecords
  BY DEF RequestRecords, Results
<1>5. \A r \in Parts : r.to \in Requests /\ r.part \in {"head", "body"}
  BY DEF Parts
<1>6. \A x \in Requests, p \in {"head", "body"} : [to |-> x, part |-> p] \in Parts
  BY DEF Parts
<1> QED
  BY <1>1, <1>2, <1>3, <1>4, <1>5, <1>6

\* A request that begins.
LEMMA NewRequest ==
  ASSUME NEW n \in 0 .. MaxRequests, NEW b \in BOOLEAN
  PROVE  [n |-> n, reused |-> b, result |-> "none", to |-> <<>>, body |-> FALSE]
           \in RequestRecords
  BY DEF RequestRecords, Results

\* The types hold initially.
LEMMA PoolInitTypes == PoolAssumption /\ Init => PoolTypes
<1> SUFFICES ASSUME PoolAssumption, Init PROVE PoolTypes
  OBVIOUS
<1>1. \A t \in Threads : <<t, 0>> \in Requests
  BY DEF Requests, PoolAssumption
<1>2. ASSUME NEW t \in Threads
      PROVE  [n |-> 0, reused |-> FALSE, result |-> "OK", to |-> <<t, 0>>, body |-> TRUE]
               \in RequestRecords
  <2>1. \A n \in 0 .. MaxRequests, x \in Requests \cup {<<>>} :
          [n |-> n, reused |-> FALSE, result |-> "OK", to |-> x, body |-> TRUE]
            \in RequestRecords
    BY DEF RequestRecords, Results
  <2>2. 0 \in 0 .. MaxRequests
    BY DEF PoolAssumption
  <2> QED
    BY <1>1, <2>1, <2>2
<1>3. conn \in [Conns -> ConnRecords] /\ request \in [Threads -> RequestRecords]
  BY <1>2, RecordFacts DEF Init
<1> QED
  BY <1>3 DEF Init, PoolTypes, Places

\* Every step keeps the types.
LEMMA PoolStepTypes ==
  ASSUME PoolAssumption, ClockAssumption, PoolInv, [Next]_vars
  PROVE  PoolTypes'
<1>0. /\ PoolTypes /\ Distinct /\ Located /\ Holding /\ Unused /\ RequestsCounted /\ Clean
      /\ Served
      /\ Answered /\ Bounded /\ Counted
  BY DEF PoolInv
<1> USE <1>0
<1>1. ASSUME NEW t \in Threads, GetConnection(t) PROVE PoolTypes'
  <2>1. request[t].n + 1 \in 0 .. MaxRequests
    <3>1. request[t].n \in 0 .. MaxRequests /\ MaxRequests \in Nat
      BY RecordFacts DEF PoolTypes, PoolAssumption
    <3> QED
      BY <1>1, <3>1, Drawn
  <2>2. CASE m_conns = <<>>
    <3>1. m_conns' = <<>> /\ ptr' = [ptr EXCEPT ![t] = NULL]
          /\ request' = [request EXCEPT ![t] =
               [n |-> request[t].n + 1, reused |-> FALSE, result |-> "none", to |-> <<>>,
                body |-> FALSE]]
      BY <1>1, <2>2, Drawn
    <3>2. request' \in [Threads -> RequestRecords]
      BY <2>1, <3>1, NewRequest DEF PoolTypes
    <3>3. m_conns' \in Seq(Conns) /\ ptr' \in [Threads -> Conns \cup {NULL}]
      BY <3>1 DEF PoolTypes
    <3> QED
      BY <1>1, <3>2, <3>3, Drawn DEF PoolTypes, Places
  <2>3. CASE m_conns # <<>>
    <3>1. m_conns' = Tail(m_conns) /\ ptr' = [ptr EXCEPT ![t] = m_conns[1]]
          /\ request' = [request EXCEPT ![t] =
               [n |-> request[t].n + 1, reused |-> TRUE, result |-> "none", to |-> <<>>,
                body |-> FALSE]]
      BY <1>1, <2>3, Drawn
    <3>2. request' \in [Threads -> RequestRecords]
      BY <2>1, <3>1, NewRequest DEF PoolTypes
    <3>3. m_conns' \in Seq(Conns) /\ ptr' \in [Threads -> Conns \cup {NULL}]
      BY <2>3, <3>1, TailFacts DEF PoolTypes
    <3> QED
      BY <1>1, <3>2, <3>3, Drawn DEF PoolTypes, Places
  <2> QED
    BY <2>2, <2>3
<1>2. ASSUME NEW t \in Threads, Drop(t) PROVE PoolTypes'
  BY <1>2, Dropped DEF PoolTypes, Places
<1>3. ASSUME NEW t \in Threads, Connect(t) PROVE PoolTypes'
  <2>1. PICK c \in Conns :
          /\ ptr' = [ptr EXCEPT ![t] = c]
          /\ conn' = [conn EXCEPT ![c] = [state |-> "live", isConnected |-> TRUE, m_request |-> 0]]
    BY <1>3 DEF Connect
  <2>2. /\ pc' = [pc EXCEPT ![t] = "count"]
        /\ UNCHANGED <<m_conns, m_total, invalid, request, keeps, peer, asked, wire>>
    BY <1>3 DEF Connect, Goto, peerVars
  <2>3. [state |-> "live", isConnected |-> TRUE, m_request |-> 0] \in ConnRecords
    BY DEF ConnRecords
  <2>4. conn' \in [Conns -> ConnRecords] /\ ptr' \in [Threads -> Conns \cup {NULL}]
    BY <2>1, <2>3 DEF PoolTypes
  <2>5. pc' \in [Threads -> Places]
    BY <2>2 DEF PoolTypes, Places
  <2> QED
    BY <2>2, <2>4, <2>5 DEF PoolTypes
<1>4. ASSUME NEW t \in Threads, ConnectFails(t) PROVE PoolTypes'
  BY <1>4, RecordFacts DEF ConnectFails, Goto, poolVars, peerVars, PoolTypes, Places, Results
<1>5. ASSUME NEW t \in Threads, Count(t) PROVE PoolTypes'
  <2>1. m_total' \in Int
    BY <1>5 DEF Count, PoolTypes
  <2>2. pc' \in [Threads -> Places]
    BY <1>5 DEF Count, Goto, PoolTypes, Places
  <2> QED
    BY <1>5, <2>1, <2>2 DEF Count, Goto, poolVars, peerVars, PoolTypes
<1>6. ASSUME NEW t \in Threads, SendRequest(t) PROVE PoolTypes'
  <2>1. ptr[t] \in Conns
    BY <1>6 DEF SendRequest, Holding, PoolTypes
  <2>2. <<t, request[t].n>> \in Requests
    BY RecordFacts DEF PoolTypes, Requests
  <2>0. \A q \in Seq(Requests), r \in Requests : Append(q, r) \in Seq(Requests)
    OBVIOUS
  <2>3. \/ asked' = asked
        \/ asked' = [asked EXCEPT ![ptr[t]] = Append(asked[ptr[t]], <<t, request[t].n>>)]
    BY <1>6 DEF SendRequest
  <2>4. asked \in [Conns -> Seq(Requests)]
    BY DEF PoolTypes
  <2>6. Append(asked[ptr[t]], <<t, request[t].n>>) \in Seq(Requests)
    BY <2>0, <2>1, <2>2, <2>4
  <2>5. asked' \in [Conns -> Seq(Requests)]
    <3>1. \A x \in Seq(Requests) : [asked EXCEPT ![ptr[t]] = x] \in [Conns -> Seq(Requests)]
      BY <2>1, <2>4
    <3> QED
      BY <2>3, <2>4, <2>6, <3>1
  <2> QED
    BY <1>6, <2>5 DEF SendRequest, Goto, poolVars, peerVars, PoolTypes, Places
<1>7. ASSUME NEW t \in Threads, RecvResponse(t) PROVE PoolTypes'
  <2>1. PICK whole \in BOOLEAN :
          /\ wire' = [wire EXCEPT ![ptr[t]] =
               SubSeq(wire[ptr[t]], IF whole THEN 3 ELSE 2, Len(wire[ptr[t]]))]
          /\ request' = [request EXCEPT ![t] =
               [request[t] EXCEPT !.result = "OK", !.to = wire[ptr[t]][1].to, !.body = whole]]
    BY <1>7, Received
  <2>2. SubSeq(wire[ptr[t]], IF whole THEN 3 ELSE 2, Len(wire[ptr[t]])) \in Seq(Parts)
    <3>1. \A w \in Seq(Parts), k \in {2, 3} : SubSeq(w, k, Len(w)) \in Seq(Parts)
      OBVIOUS
    <3> QED
      BY <1>7, <3>1, Received
  <2>3. wire' \in [Conns -> Seq(Parts)]
    BY <1>7, <2>1, <2>2, Received DEF PoolTypes
  <2>4. request' \in [Threads -> RequestRecords]
    BY <1>7, <2>1, Received, RecordFacts DEF PoolTypes
  <2> QED
    BY <1>7, <2>3, <2>4, Received DEF PoolTypes, Places
<1>8. ASSUME NEW t \in Threads, RecvFails(t) PROVE PoolTypes'
  <2>1. ptr[t] \in Conns
    BY <1>8 DEF RecvFails, Holding, PoolTypes
  <2>2. conn' \in [Conns -> ConnRecords]
    <3>1. conn' = [conn EXCEPT ![ptr[t]] = [conn[ptr[t]] EXCEPT !.isConnected = FALSE]]
      BY <1>8 DEF RecvFails
    <3> QED
      BY <2>1, <3>1, RecordFacts DEF PoolTypes
  <2>3. request' \in [Threads -> RequestRecords]
    <3>1. request' = [request EXCEPT ![t] = [request[t] EXCEPT !.result = "TIMEOUT"]]
      BY <1>8 DEF RecvFails
    <3> QED
      BY <3>1, RecordFacts DEF PoolTypes, Results
  <2>4. /\ pc' \in [Threads -> Places] /\ asked' \in [Conns -> Seq(Requests)]
        /\ wire' \in [Conns -> Seq(Parts)]
    <3>1. <<>> \in Seq(Requests) /\ <<>> \in Seq(Parts)
      OBVIOUS
    <3>2. /\ asked' = [asked EXCEPT ![ptr[t]] = <<>>] /\ wire' = [wire EXCEPT ![ptr[t]] = <<>>]
          /\ pc' = [pc EXCEPT ![t] = "release"]
      BY <1>8 DEF RecvFails, Goto
    <3> QED
      BY <3>1, <3>2 DEF PoolTypes, Places
  <2> QED
    BY <1>8, <2>2, <2>3, <2>4 DEF RecvFails, PoolTypes
<1>9. ASSUME NEW t \in Threads, RecvSpins(t) PROVE PoolTypes'
  BY <1>9, RecordFacts DEF RecvSpins, Goto, poolVars, peerVars, PoolTypes, Places, Results
<1>10. ASSUME NEW t \in Threads, Release(t) PROVE PoolTypes'
  <2>1. ptr[t] # NULL
    BY <1>10 DEF Release, Holding
  <2>2. conn[ptr[t]] \in ConnRecords /\ ptr[t] \in Conns
    BY <2>1 DEF PoolTypes
  <2>3. conn' \in [Conns -> ConnRecords]
    <3>1. \/ conn' = [conn EXCEPT ![ptr[t]] = [conn[ptr[t]] EXCEPT !.m_request = @ + 1]]
          \/ conn' = [conn EXCEPT ![ptr[t]] =
               [conn[ptr[t]] EXCEPT !.m_request = @ + 1, !.state = "deleted"]]
      BY <1>10, <2>1, Kept, Deleted
    <3> QED
      BY <2>2, <3>1, RecordFacts DEF PoolTypes
  <2>4. m_conns' \in Seq(Conns)
    <3>1. m_conns' = Append(m_conns, ptr[t]) \/ m_conns' = m_conns
      BY <1>10, <2>1, Kept, Deleted
    <3> QED
      <4>1. \A q \in Seq(Conns), c \in Conns : Append(q, c) \in Seq(Conns)
        OBVIOUS
      <4>2. m_conns \in Seq(Conns)
        BY DEF PoolTypes
      <4> QED
        BY <2>2, <3>1, <4>1, <4>2
  <2>5. pc' \in [Threads -> Places] /\ ptr' \in [Threads -> Conns \cup {NULL}]
    <3>1. /\ ptr' = [ptr EXCEPT ![t] = NULL]
          /\ pc' = [pc EXCEPT ![t] = "idle"] \/ pc' = [pc EXCEPT ![t] = "uncount"]
      BY <1>10, <2>1, Kept, Deleted
    <3> QED
      BY <3>1 DEF PoolTypes, Places
  <2>6. /\ peer' \in [Conns -> {"open", "fin", "rst"}]
        /\ asked' \in [Conns -> Seq(Requests)] /\ wire' \in [Conns -> Seq(Parts)]
    <3>1. \/ peer' = peer /\ asked' = asked /\ wire' = wire
          \/ /\ peer' = [peer EXCEPT ![ptr[t]] = "fin"]
             /\ asked' = [asked EXCEPT ![ptr[t]] = <<>>]
             /\ wire' = [wire EXCEPT ![ptr[t]] = <<>>]
      BY <1>10, <2>1, Kept, Deleted
    <3>2. <<>> \in Seq(Requests) /\ <<>> \in Seq(Parts)
      OBVIOUS
    <3> QED
      BY <2>2, <3>1, <3>2 DEF PoolTypes
  <2> QED
    BY <1>10, <2>3, <2>4, <2>5, <2>6 DEF Release, PoolTypes
<1>11. ASSUME NEW t \in Threads, Uncount(t) PROVE PoolTypes'
  <2>1. m_total' \in Int
    BY <1>11 DEF Uncount, PoolTypes
  <2>2. pc' \in [Threads -> Places]
    BY <1>11 DEF Uncount, Goto, PoolTypes, Places
  <2> QED
    BY <1>11, <2>1, <2>2 DEF Uncount, Goto, poolVars, peerVars, PoolTypes
<1>12. ASSUME NEW c \in Conns, Answer(c) PROVE PoolTypes'
  <2>1. asked[c] \in Seq(Requests) /\ asked[c] # <<>>
    BY <1>12 DEF Answer, PoolTypes
  <2>2. Head(asked[c]) \in Requests /\ Tail(asked[c]) \in Seq(Requests)
    BY <2>1
  <2>0. \A x \in Parts, y \in Parts, z \in Seq(Parts) : z \o <<x, y>> \in Seq(Parts)
    OBVIOUS
  <2>4. wire' \in [Conns -> Seq(Parts)]
    BY <1>12, <2>2, <2>0, RecordFacts DEF Answer, PoolTypes
  <2> QED
    BY <1>12, <2>2, <2>4 DEF Answer, Goto, poolVars, peerVars, PoolTypes
<1>13. ASSUME NEW c \in Conns, NEW how \in {"fin", "rst"}, Close(c, how) PROVE PoolTypes'
  BY <1>13 DEF Close, Goto, poolVars, peerVars, PoolTypes
<1>14. ASSUME UNCHANGED vars PROVE PoolTypes'
  BY <1>14 DEF vars, PoolTypes
<1> QED
  BY <1>1, <1>2, <1>3, <1>4, <1>5, <1>6, <1>7, <1>8, <1>9, <1>10, <1>11, <1>12, <1>13,
      <1>14 DEF Next, Step

-----------------------------------------------------------------------------
(* A step of a thread leaves the other threads and their connections alone. *)

\* A request whose result is set.
LEMMA ResultFacts ==
  ASSUME NEW r \in RequestRecords, NEW x
  PROVE  /\ [r EXCEPT !.result = x].result = x
         /\ [r EXCEPT !.result = x].n = r.n /\ [r EXCEPT !.result = x].to = r.to
         /\ [r EXCEPT !.result = x].reused = r.reused
         /\ \A y, b : /\ [r EXCEPT !.result = x, !.to = y, !.body = b].result = x
                      /\ [r EXCEPT !.result = x, !.to = y, !.body = b].to = y
                      /\ [r EXCEPT !.result = x, !.to = y, !.body = b].n = r.n
                      /\ [r EXCEPT !.result = x, !.to = y, !.body = b].reused = r.reused
  BY DEF RequestRecords

\* A connection whose requests are counted, and one that is closed.
LEMMA CountFacts ==
  ASSUME NEW r \in ConnRecords
  PROVE  /\ [r EXCEPT !.isConnected = FALSE].state = r.state
         /\ [r EXCEPT !.isConnected = FALSE].isConnected = FALSE
         /\ [r EXCEPT !.isConnected = FALSE].m_request = r.m_request
         /\ [r EXCEPT !.m_request = @ + 1].m_request = r.m_request + 1
         /\ [r EXCEPT !.m_request = @ + 1].state = r.state
         /\ [r EXCEPT !.m_request = @ + 1].isConnected = r.isConnected
         /\ [r EXCEPT !.m_request = @ + 1, !.state = "deleted"].state = "deleted"
         /\ [r EXCEPT !.m_request = @ + 1, !.state = "deleted"].m_request = r.m_request + 1
  BY DEF ConnRecords

\* A thread that sends, receives or releases holds a connection that lives.
LEMMA Holds ==
  ASSUME PoolTypes, Located, Holding, NEW t \in Threads,
         pc[t] \in {"count", "send", "recv", "release", "spin"} \/ ptr[t] # NULL
  PROVE  ptr[t] \in Conns /\ ptr[t] # NULL /\ conn[ptr[t]].state = "live" /\ ~ Listed(ptr[t])
<1>1. ptr[t] # NULL
  BY DEF Holding
<1>2. ptr[t] \in Conns
  BY <1>1 DEF PoolTypes
<1> QED
  BY <1>1, <1>2 DEF Located

\* What a step of t does not touch.
LEMMA Apart ==
  ASSUME PoolTypes, Distinct, Located, Holding, Clean, ClockAssumption,
         NEW t \in Threads, GetConnection(t) \/ Step(t)
  PROVE  /\ keeps' = keeps
         /\ \A u \in Threads \ {t} :
              pc'[u] = pc[u] /\ ptr'[u] = ptr[u] /\ request'[u] = request[u]
         /\ \A c \in Conns : c # ptr[t] =>
              /\ conn[c].state # "none" => conn'[c] = conn[c]
              /\ peer'[c] = peer[c] /\ asked'[c] = asked[c] /\ wire'[c] = wire[c]
<1>0. /\ DOMAIN pc = Threads /\ DOMAIN ptr = Threads /\ DOMAIN request = Threads
      /\ DOMAIN conn = Conns /\ DOMAIN peer = Conns /\ DOMAIN asked = Conns
      /\ DOMAIN wire = Conns
  BY DEF PoolTypes
<1>1. CASE GetConnection(t)
  BY <1>0, <1>1, Drawn
<1>2. CASE Drop(t)
  BY <1>0, <1>2, Dropped
<1>3. CASE Connect(t)
  BY <1>0, <1>3 DEF Connect, Goto, poolVars, peerVars
<1>4. CASE ConnectFails(t)
  BY <1>0, <1>4 DEF ConnectFails, Goto, poolVars, peerVars
<1>5. CASE Count(t)
  BY <1>0, <1>5 DEF Count, Goto, poolVars, peerVars
<1>6. CASE SendRequest(t)
  BY <1>0, <1>6 DEF SendRequest, Goto, poolVars, peerVars
<1>7. CASE RecvFails(t)
  BY <1>0, <1>7 DEF RecvFails, Goto, poolVars, peerVars
<1>8. CASE RecvSpins(t)
  BY <1>0, <1>8 DEF RecvSpins, Goto, poolVars, peerVars
<1>9. CASE Uncount(t)
  BY <1>0, <1>9 DEF Uncount, Goto, poolVars, peerVars
<1>10. CASE RecvResponse(t)
  <2>1. /\ pc' = [pc EXCEPT ![t] = "release"]
        /\ UNCHANGED <<conn, ptr, keeps, peer, asked>>
    BY <1>10, Received
  <2>2. PICK whole \in BOOLEAN :
          /\ wire' = [wire EXCEPT ![ptr[t]] =
               SubSeq(wire[ptr[t]], IF whole THEN 3 ELSE 2, Len(wire[ptr[t]]))]
          /\ request' = [request EXCEPT ![t] =
               [request[t] EXCEPT !.result = "OK", !.to = wire[ptr[t]][1].to, !.body = whole]]
    BY <1>10, Received
  <2> QED
    BY <1>0, <2>1, <2>2
<1>11. CASE Release(t)
  <2>1. ptr[t] # NULL
    BY <1>11, Holds DEF Release
  <2>2. CASE Reusable(ptr[t])
    BY <1>0, <1>11, <2>1, <2>2, Kept
  <2>3. CASE ~ Reusable(ptr[t])
    <3>1. PICK x : conn' = [conn EXCEPT ![ptr[t]] = x]
      BY <1>11, <2>1, <2>3, Deleted
    <3>2. /\ pc' = [pc EXCEPT ![t] = "uncount"] /\ ptr' = [ptr EXCEPT ![t] = NULL]
          /\ request' = request /\ keeps' = keeps
      BY <1>11, <2>1, <2>3, Deleted
    <3>3. PICK y, z : /\ peer' = [peer EXCEPT ![ptr[t]] = "fin"]
                      /\ asked' = [asked EXCEPT ![ptr[t]] = y]
                      /\ wire' = [wire EXCEPT ![ptr[t]] = z]
      BY <1>11, <2>1, <2>3, Deleted
    <3> QED
      BY <1>0, <3>1, <3>2, <3>3
  <2> QED
    BY <2>2, <2>3
<1> QED
  BY <1>1, <1>2, <1>3, <1>4, <1>5, <1>6, <1>7, <1>8, <1>9, <1>10, <1>11 DEF Step

-----------------------------------------------------------------------------
(* Where a connection is. *)

\* The list when its head is taken.
LEMMA TailListed ==
  ASSUME PoolTypes, Distinct, m_conns # <<>>, m_conns' = Tail(m_conns)
  PROVE  /\ Distinct' /\ m_conns[1] \in Conns /\ Listed(m_conns[1])
         /\ \A c : Listed(c)' <=> Listed(c) /\ c # m_conns[1]
<1>1. m_conns \in Seq(Conns)
  BY DEF PoolTypes
<1>2. Distinct' /\ m_conns[1] \in Conns /\ Listed(m_conns[1])
  BY <1>1, TailFacts DEF Distinct, Listed, ToSet
<1>3. ASSUME NEW c, Listed(c)' PROVE Listed(c) /\ c # m_conns[1]
  BY <1>1, <1>3, TailFacts DEF Distinct, Listed, ToSet
<1>4. ASSUME NEW c, Listed(c), c # m_conns[1] PROVE Listed(c)'
  <2>1. PICK i \in DOMAIN m_conns : m_conns[i] = c
    BY <1>4 DEF Listed, ToSet
  <2>2. i - 1 \in DOMAIN Tail(m_conns) /\ Tail(m_conns)[i - 1] = c
    BY <1>1, <1>4, <2>1, TailFacts
  <2> QED
    BY <2>2 DEF Listed, ToSet
<1> QED
  BY <1>2, <1>3, <1>4

\* The list when a connection is given back.
LEMMA AppendListed ==
  ASSUME PoolTypes, Distinct, NEW c \in Conns, ~ Listed(c), m_conns' = Append(m_conns, c)
  PROVE  Distinct' /\ \A d : Listed(d)' <=> Listed(d) \/ d = c
<1>1. /\ m_conns \in Seq(Conns) /\ DOMAIN m_conns = 1 .. Len(m_conns) /\ Len(m_conns) \in Nat
      /\ DOMAIN m_conns' = 1 .. Len(m_conns) + 1
      /\ \A i \in 1 .. Len(m_conns) : m_conns'[i] = m_conns[i]
      /\ m_conns'[Len(m_conns) + 1] = c
  BY DEF PoolTypes
<1>2. Distinct'
  BY <1>1 DEF Distinct, Listed, ToSet
<1>3. ASSUME NEW d PROVE Listed(d)' <=> Listed(d) \/ d = c
  BY <1>1 DEF Listed, ToSet
<1> QED
  BY <1>2, <1>3

\* The list and the threads' connections unchanged.
LEMMA SameLocated ==
  ASSUME Distinct, Located, UNCHANGED <<m_conns, ptr>>,
         \A c \in Conns : conn'[c].state = conn[c].state
  PROVE  Distinct' /\ Located'
<1>1. Distinct' /\ \A c : Listed(c)' <=> Listed(c)
  BY DEF Distinct, Listed, ToSet
<1> QED
  BY <1>1 DEF Located

\* A connection stays in one place.
LEMMA StepLocated ==
  ASSUME PoolAssumption, ClockAssumption, PoolInv, [Next]_vars
  PROVE  (Distinct /\ Located)'
<1>0. /\ PoolTypes /\ Distinct /\ Located /\ Holding /\ Unused /\ RequestsCounted /\ Clean
      /\ Served
      /\ Answered /\ Bounded /\ Counted
  BY DEF PoolInv
<1> USE <1>0
<1>1. ASSUME NEW t \in Threads, GetConnection(t) PROVE (Distinct /\ Located)'
  <2>1. ptr[t] = NULL
    BY <1>1, Drawn DEF Holding
  <2>2. CASE m_conns = <<>>
    <3>1. ptr' = ptr /\ m_conns' = m_conns /\ conn' = conn
      BY <1>1, <2>1, <2>2, Drawn DEF PoolTypes
    <3> QED
      BY <3>1, SameLocated
  <2>3. CASE m_conns # <<>>
    <3>1. ptr' = [ptr EXCEPT ![t] = m_conns[1]] /\ m_conns' = Tail(m_conns) /\ conn' = conn
      BY <1>1, <2>3, Drawn
    <3>2. /\ Distinct' /\ m_conns[1] \in Conns /\ Listed(m_conns[1])
          /\ \A d : Listed(d)' <=> Listed(d) /\ d # m_conns[1]
      BY <2>3, <3>1, TailListed
    <3>3. ptr'[t] = m_conns[1] /\ \A u \in Threads \ {t} : ptr'[u] = ptr[u]
      BY <3>1 DEF PoolTypes
    <3>4. conn[m_conns[1]].state = "live" /\ \A u \in Threads : ptr[u] # m_conns[1]
      BY <3>2 DEF Located, NULL, Conns
    <3>5. \A u \in Threads : ptr'[u] # NULL => ~ Listed(ptr[u])'
      BY <3>2, <3>3 DEF Located, Listed
    <3>6. \A u, v \in Threads : ptr'[u] = ptr'[v] /\ ptr'[u] # NULL => u = v
      BY <3>3, <3>4 DEF Located
    <3>7. \A d \in Conns : conn'[d].state = "live" <=>
                            Listed(d)' \/ \E u \in Threads : ptr'[u] = d
      <4> SUFFICES ASSUME NEW d \in Conns
                   PROVE conn[d].state = "live" <=>
                           Listed(d)' \/ \E u \in Threads : ptr'[u] = d
        BY <3>1
      <4>1. d # NULL
        BY DEF NULL, Conns
      <4>2. CASE d = m_conns[1]
        BY <3>3, <3>4, <4>2
      <4>3. CASE d # m_conns[1]
        BY <2>1, <3>2, <3>3, <4>1, <4>3 DEF Located
      <4> QED
        BY <4>2, <4>3
    <3>8. Located'
      BY <3>5, <3>6, <3>7 DEF Located
    <3> QED
      BY <3>2, <3>8
  <2> QED
    BY <2>2, <2>3
<1>2. ASSUME NEW t \in Threads, Drop(t) PROVE (Distinct /\ Located)'
  BY <1>2, Dropped, SameLocated
<1>3. ASSUME NEW t \in Threads, Connect(t) PROVE (Distinct /\ Located)'
  <2>1. PICK c \in Conns :
          /\ conn[c].state = "none" /\ ptr' = [ptr EXCEPT ![t] = c]
          /\ conn' = [conn EXCEPT ![c] = [state |-> "live", isConnected |-> TRUE, m_request |-> 0]]
    BY <1>3 DEF Connect
  <2>2. m_conns' = m_conns /\ ptr[t] = NULL
    BY <1>3 DEF Connect, Holding
  <2>3. /\ ptr'[t] = c /\ \A u \in Threads \ {t} : ptr'[u] = ptr[u]
        /\ conn'[c].state = "live" /\ \A d \in Conns \ {c} : conn'[d] = conn[d]
    BY <2>1 DEF PoolTypes
  <2>4. c # NULL /\ ~ Listed(c) /\ \A u \in Threads : ptr[u] # c
    BY <2>1 DEF Located, NULL, Conns
  <2>5. Distinct' /\ \A d : Listed(d)' <=> Listed(d)
    BY <2>2 DEF Distinct, Listed, ToSet
  <2>6. \A u \in Threads : ptr'[u] # NULL => ~ Listed(ptr[u])'
    BY <2>3, <2>4, <2>5 DEF Located, Listed
  <2>7. \A u, v \in Threads : ptr'[u] = ptr'[v] /\ ptr'[u] # NULL => u = v
    BY <2>3, <2>4 DEF Located
  <2>8. ASSUME NEW d \in Conns
        PROVE  conn'[d].state = "live" <=> Listed(d)' \/ \E u \in Threads : ptr'[u] = d
    <3>1. d # NULL
      BY DEF NULL, Conns
    <3>2. CASE d = c
      BY <2>3, <3>2
    <3>3. CASE d # c
      BY <2>2, <2>3, <2>5, <3>1, <3>3 DEF Located
    <3> QED
      BY <3>2, <3>3
  <2>9. Located'
    BY <2>6, <2>7, <2>8 DEF Located
  <2> QED
    BY <2>5, <2>9
<1>4. ASSUME NEW t \in Threads, ConnectFails(t) PROVE (Distinct /\ Located)'
  BY <1>4, SameLocated DEF ConnectFails, poolVars
<1>5. ASSUME NEW t \in Threads, Count(t) PROVE (Distinct /\ Located)'
  BY <1>5, SameLocated DEF Count, poolVars
<1>6. ASSUME NEW t \in Threads, SendRequest(t) PROVE (Distinct /\ Located)'
  BY <1>6, SameLocated DEF SendRequest, poolVars
<1>7. ASSUME NEW t \in Threads, RecvResponse(t) PROVE (Distinct /\ Located)'
  BY <1>7, Received, SameLocated
<1>8. ASSUME NEW t \in Threads, RecvFails(t) PROVE (Distinct /\ Located)'
  <2>1. ptr[t] \in Conns
    BY <1>8, Holds DEF RecvFails
  <2>2. conn' = [conn EXCEPT ![ptr[t]] = [conn[ptr[t]] EXCEPT !.isConnected = FALSE]]
    BY <1>8 DEF RecvFails
  <2>3. \A d \in Conns : conn'[d].state = conn[d].state
    BY <2>1, <2>2, CountFacts DEF PoolTypes
  <2> QED
    BY <1>8, <2>3, SameLocated DEF RecvFails
<1>9. ASSUME NEW t \in Threads, RecvSpins(t) PROVE (Distinct /\ Located)'
  BY <1>9, SameLocated DEF RecvSpins, poolVars
<1>10. ASSUME NEW t \in Threads, Release(t) PROVE (Distinct /\ Located)'
  <2>0. /\ ptr[t] \in Conns /\ ptr[t] # NULL /\ conn[ptr[t]].state = "live"
        /\ ~ Listed(ptr[t]) /\ conn[ptr[t]] \in ConnRecords
    BY <1>10, Holds DEF Release, PoolTypes
  <2>1. ptr' = [ptr EXCEPT ![t] = NULL]
    BY <1>10 DEF Release
  <2>2. ptr'[t] = NULL /\ \A u \in Threads \ {t} : ptr'[u] = ptr[u] /\ ptr[u] # ptr[t]
    BY <2>0, <2>1 DEF PoolTypes, Located
  <2>3. \A u, v \in Threads : ptr'[u] = ptr'[v] /\ ptr'[u] # NULL => u = v
    BY <2>2 DEF Located
  <2>4. CASE Reusable(ptr[t])
    <3>1. /\ m_conns' = Append(m_conns, ptr[t])
          /\ conn' = [conn EXCEPT ![ptr[t]] = [conn[ptr[t]] EXCEPT !.m_request = @ + 1]]
      BY <1>10, <2>0, <2>4, Kept
    <3>2. Distinct' /\ \A d : Listed(d)' <=> Listed(d) \/ d = ptr[t]
      BY <2>0, <3>1, AppendListed
    <3>3. \A d \in Conns : conn'[d].state = conn[d].state
      BY <2>0, <3>1, CountFacts DEF PoolTypes
    <3>4. \A u \in Threads : ptr'[u] # NULL => ~ Listed(ptr[u])'
      BY <2>2, <3>2 DEF Located, Listed
    <3>5. ASSUME NEW d \in Conns
          PROVE  conn'[d].state = "live" <=> Listed(d)' \/ \E u \in Threads : ptr'[u] = d
      <4>1. d # NULL
        BY DEF NULL, Conns
      <4>2. CASE d = ptr[t]
        BY <2>0, <3>2, <3>3, <4>2
      <4>3. CASE d # ptr[t]
        BY <2>2, <3>2, <3>3, <4>1, <4>3 DEF Located
      <4> QED
        BY <4>2, <4>3
    <3>6. Located'
      BY <2>3, <3>4, <3>5 DEF Located
    <3> QED
      BY <3>2, <3>6
  <2>5. CASE ~ Reusable(ptr[t])
    <3>1. /\ m_conns' = m_conns
          /\ conn' = [conn EXCEPT ![ptr[t]] =
               [conn[ptr[t]] EXCEPT !.m_request = @ + 1, !.state = "deleted"]]
      BY <1>10, <2>0, <2>5, Deleted
    <3>2. Distinct' /\ \A d : Listed(d)' <=> Listed(d)
      BY <3>1 DEF Distinct, Listed, ToSet
    <3>3. /\ conn'[ptr[t]].state = "deleted"
          /\ \A d \in Conns \ {ptr[t]} : conn'[d] = conn[d]
      BY <2>0, <3>1, CountFacts DEF PoolTypes
    <3>4. \A u \in Threads : ptr'[u] # NULL => ~ Listed(ptr[u])'
      BY <2>2, <3>2 DEF Located, Listed
    <3>5. ASSUME NEW d \in Conns
          PROVE  conn'[d].state = "live" <=> Listed(d)' \/ \E u \in Threads : ptr'[u] = d
      <4>1. d # NULL
        BY DEF NULL, Conns
      <4>2. CASE d = ptr[t]
        BY <2>0, <2>2, <3>2, <3>3, <4>1, <4>2
      <4>3. CASE d # ptr[t]
        BY <2>2, <3>2, <3>3, <4>1, <4>3 DEF Located
      <4> QED
        BY <4>2, <4>3
    <3>6. Located'
      BY <2>3, <3>4, <3>5 DEF Located
    <3> QED
      BY <3>2, <3>6
  <2> QED
    BY <2>4, <2>5
<1>11. ASSUME NEW t \in Threads, Uncount(t) PROVE (Distinct /\ Located)'
  BY <1>11, SameLocated DEF Uncount, poolVars
<1>12. ASSUME NEW c \in Conns, Answer(c) PROVE (Distinct /\ Located)'
  BY <1>12, SameLocated DEF Answer, poolVars
<1>13. ASSUME NEW c \in Conns, NEW how \in {"fin", "rst"}, Close(c, how)
       PROVE  (Distinct /\ Located)'
  BY <1>13, SameLocated DEF Close, poolVars
<1>14. ASSUME UNCHANGED vars PROVE (Distinct /\ Located)'
  BY <1>14, SameLocated DEF vars
<1> QED
  BY <1>1, <1>2, <1>3, <1>4, <1>5, <1>6, <1>7, <1>8, <1>9, <1>10, <1>11, <1>12, <1>13,
      <1>14 DEF Next, Step

\* A connection goes back only while it may serve another request.
LEMMA StepRequestsCounted ==
  ASSUME PoolAssumption, ClockAssumption, PoolInv, [Next]_vars
  PROVE  RequestsCounted'
<1>0. /\ PoolTypes /\ Distinct /\ Located /\ Holding /\ Unused /\ RequestsCounted /\ Clean
      /\ Served
      /\ Answered /\ Bounded /\ Counted
  BY DEF PoolInv
<1> USE <1>0
<1>1. ASSUME NEW t \in Threads, GetConnection(t) PROVE RequestsCounted'
  BY <1>1, Drawn DEF RequestsCounted
<1>2. ASSUME NEW t \in Threads, Drop(t) PROVE RequestsCounted'
  BY <1>2, Dropped DEF RequestsCounted
<1>3. ASSUME NEW t \in Threads, Connect(t) PROVE RequestsCounted'
  BY <1>3 DEF Connect, RequestsCounted, PoolTypes, MostRequests, PoolAssumption
<1>4. ASSUME NEW t \in Threads, ConnectFails(t) PROVE RequestsCounted'
  BY <1>4 DEF ConnectFails, poolVars, RequestsCounted
<1>5. ASSUME NEW t \in Threads, Count(t) PROVE RequestsCounted'
  BY <1>5 DEF Count, poolVars, RequestsCounted
<1>6. ASSUME NEW t \in Threads, SendRequest(t) PROVE RequestsCounted'
  BY <1>6 DEF SendRequest, poolVars, RequestsCounted
<1>7. ASSUME NEW t \in Threads, RecvResponse(t) PROVE RequestsCounted'
  BY <1>7, Received DEF RequestsCounted
<1>8. ASSUME NEW t \in Threads, RecvFails(t) PROVE RequestsCounted'
  <2>1. ptr[t] \in Conns
    BY <1>8, Holds DEF RecvFails
  <2>2. conn' = [conn EXCEPT ![ptr[t]] = [conn[ptr[t]] EXCEPT !.isConnected = FALSE]]
    BY <1>8 DEF RecvFails
  <2>3. \A d \in Conns : conn'[d].state = conn[d].state /\ conn'[d].m_request = conn[d].m_request
    BY <2>1, <2>2, CountFacts DEF PoolTypes
  <2> QED
    BY <2>3 DEF RequestsCounted
<1>9. ASSUME NEW t \in Threads, RecvSpins(t) PROVE RequestsCounted'
  BY <1>9 DEF RecvSpins, poolVars, RequestsCounted
<1>10. ASSUME NEW t \in Threads, Release(t) PROVE RequestsCounted'
  <2>0. /\ ptr[t] \in Conns /\ ptr[t] # NULL /\ conn[ptr[t]] \in ConnRecords
        /\ conn[ptr[t]].state = "live"
    BY <1>10, Holds DEF Release, PoolTypes
  <2>3. /\ conn[ptr[t]].m_request \in Nat /\ m_maxRequest \in Nat /\ MostRequests \in Nat
        /\ conn[ptr[t]].m_request < MostRequests
    BY <2>0, RecordFacts DEF RequestsCounted, MostRequests, PoolAssumption
  <2>1. CASE Reusable(ptr[t])
    <3>1. conn' = [conn EXCEPT ![ptr[t]] = [conn[ptr[t]] EXCEPT !.m_request = @ + 1]]
      BY <1>10, <2>0, <2>1, Kept
    <3>2. conn[ptr[t]].m_request + 1 < m_maxRequest
      BY <2>1 DEF Reusable
    <3>3. conn'[ptr[t]].m_request = conn[ptr[t]].m_request + 1
          /\ \A d \in Conns \ {ptr[t]} : conn'[d] = conn[d]
      BY <2>0, <3>1, CountFacts DEF PoolTypes
    <3> QED
      BY <2>0, <2>3, <3>2, <3>3 DEF RequestsCounted, MostRequests
  <2>2. CASE ~ Reusable(ptr[t])
    <3>1. conn' = [conn EXCEPT ![ptr[t]] =
            [conn[ptr[t]] EXCEPT !.m_request = @ + 1, !.state = "deleted"]]
      BY <1>10, <2>0, <2>2, Deleted
    <3>2. /\ conn'[ptr[t]].state = "deleted"
          /\ conn'[ptr[t]].m_request = conn[ptr[t]].m_request + 1
          /\ \A d \in Conns \ {ptr[t]} : conn'[d] = conn[d]
      BY <2>0, <3>1, CountFacts DEF PoolTypes
    <3> QED
      BY <2>0, <2>3, <3>2 DEF RequestsCounted
  <2> QED
    BY <2>1, <2>2
<1>11. ASSUME NEW t \in Threads, Uncount(t) PROVE RequestsCounted'
  BY <1>11 DEF Uncount, poolVars, RequestsCounted
<1>12. ASSUME NEW c \in Conns, Answer(c) PROVE RequestsCounted'
  BY <1>12 DEF Answer, poolVars, RequestsCounted
<1>13. ASSUME NEW c \in Conns, NEW how \in {"fin", "rst"}, Close(c, how) PROVE RequestsCounted'
  BY <1>13 DEF Close, poolVars, RequestsCounted
<1>14. ASSUME UNCHANGED vars PROVE RequestsCounted'
  BY <1>14 DEF vars, RequestsCounted
<1> QED
  BY <1>1, <1>2, <1>3, <1>4, <1>5, <1>6, <1>7, <1>8, <1>9, <1>10, <1>11, <1>12, <1>13,
      <1>14 DEF Next, Step

\* A thread holds a connection where it should.
LEMMA StepHolding ==
  ASSUME PoolAssumption, ClockAssumption, PoolInv, [Next]_vars
  PROVE  (Holding /\ Unused)'
<1>0. /\ PoolTypes /\ Distinct /\ Located /\ Holding /\ Unused /\ RequestsCounted /\ Clean
      /\ Served
      /\ Answered /\ Bounded /\ Counted
  BY DEF PoolInv
<1> USE <1>0
<1>1. ASSUME NEW t \in Threads, GetConnection(t) PROVE (Holding /\ Unused)'
  <2>1. pc[t] = "idle" /\ pc' = [pc EXCEPT ![t] = "drop"] /\ ptr[t] = NULL
    BY <1>1, Drawn DEF Holding
  <2>2. CASE m_conns = <<>>
    <3>1. ptr' = ptr /\ request'[t].reused = FALSE
          /\ \A u \in Threads \ {t} : request'[u] = request[u]
      BY <1>1, <2>1, <2>2, Drawn DEF PoolTypes
    <3> QED
      BY <2>1, <3>1 DEF Holding, Unused, PoolTypes
  <2>3. CASE m_conns # <<>>
    <3>1. ptr' = [ptr EXCEPT ![t] = m_conns[1]] /\ request'[t].reused = TRUE
          /\ \A u \in Threads \ {t} : request'[u] = request[u]
      BY <1>1, <2>3, Drawn DEF PoolTypes
    <3>2. m_conns[1] \in Conns /\ m_conns[1] # NULL
      BY <2>3, TailFacts DEF PoolTypes, NULL, Conns
    <3> QED
      BY <2>1, <3>1, <3>2 DEF Holding, Unused, PoolTypes
  <2> QED
    BY <2>2, <2>3
<1>2. ASSUME NEW t \in Threads, Drop(t) PROVE (Holding /\ Unused)'
  BY <1>2, Dropped DEF Holding, Unused, PoolTypes
<1>3. ASSUME NEW t \in Threads, Connect(t) PROVE (Holding /\ Unused)'
  <2>1. PICK c \in Conns : ptr' = [ptr EXCEPT ![t] = c]
    BY <1>3 DEF Connect
  <2>2. c # NULL
    BY DEF NULL, Conns
  <2> QED
    BY <1>3, <2>1, <2>2 DEF Connect, Goto, Holding, Unused, PoolTypes
<1>4. ASSUME NEW t \in Threads, ConnectFails(t) PROVE (Holding /\ Unused)'
  <2>1. request' = [request EXCEPT ![t] = [request[t] EXCEPT !.result = "POOL_GET_CONNECTION"]]
    BY <1>4 DEF ConnectFails
  <2>2. \A u \in Threads : request'[u].reused = request[u].reused
    BY <2>1, ResultFacts DEF PoolTypes
  <2> QED
    BY <1>4, <2>2 DEF ConnectFails, Goto, Holding, Unused, PoolTypes
<1>5. ASSUME NEW t \in Threads, Count(t) PROVE (Holding /\ Unused)'
  BY <1>5 DEF Count, Goto, Holding, Unused, PoolTypes
<1>6. ASSUME NEW t \in Threads, SendRequest(t) PROVE (Holding /\ Unused)'
  BY <1>6 DEF SendRequest, Goto, Holding, Unused, PoolTypes
<1>7. ASSUME NEW t \in Threads, RecvResponse(t) PROVE (Holding /\ Unused)'
  <2>1. PICK b \in BOOLEAN :
          request' = [request EXCEPT ![t] =
            [request[t] EXCEPT !.result = "OK", !.to = wire[ptr[t]][1].to, !.body = b]]
    BY <1>7, Received
  <2>2. \A u \in Threads : request'[u].reused = request[u].reused
    BY <2>1, ResultFacts DEF PoolTypes
  <2>3. pc[t] = "recv" /\ pc' = [pc EXCEPT ![t] = "release"] /\ ptr' = ptr
    BY <1>7, Received
  <2> QED
    BY <2>2, <2>3 DEF Holding, Unused, PoolTypes
<1>8. ASSUME NEW t \in Threads, RecvFails(t) PROVE (Holding /\ Unused)'
  <2>1. request' = [request EXCEPT ![t] = [request[t] EXCEPT !.result = "TIMEOUT"]]
    BY <1>8 DEF RecvFails
  <2>2. \A u \in Threads : request'[u].reused = request[u].reused
    BY <2>1, ResultFacts DEF PoolTypes
  <2> QED
    BY <1>8, <2>2 DEF RecvFails, Goto, Holding, Unused, PoolTypes
<1>9. ASSUME NEW t \in Threads, RecvSpins(t) PROVE (Holding /\ Unused)'
  BY <1>9 DEF RecvSpins, Goto, Holding, Unused, PoolTypes
<1>10. ASSUME NEW t \in Threads, Release(t) PROVE (Holding /\ Unused)'
  <2>1. /\ ptr' = [ptr EXCEPT ![t] = NULL] /\ request' = request
        /\ pc' = [pc EXCEPT ![t] = "idle"] \/ pc' = [pc EXCEPT ![t] = "uncount"]
    BY <1>10 DEF Release, Goto
  <2> QED
    BY <2>1 DEF Holding, Unused, PoolTypes
<1>11. ASSUME NEW t \in Threads, Uncount(t) PROVE (Holding /\ Unused)'
  BY <1>11 DEF Uncount, Goto, Holding, Unused, PoolTypes
<1>12. ASSUME NEW c \in Conns, Answer(c) PROVE (Holding /\ Unused)'
  BY <1>12 DEF Answer, Holding, Unused
<1>13. ASSUME NEW c \in Conns, NEW how \in {"fin", "rst"}, Close(c, how)
       PROVE  (Holding /\ Unused)'
  BY <1>13 DEF Close, Holding, Unused
<1>14. ASSUME UNCHANGED vars PROVE (Holding /\ Unused)'
  BY <1>14 DEF vars, Holding, Unused
<1> QED
  BY <1>1, <1>2, <1>3, <1>4, <1>5, <1>6, <1>7, <1>8, <1>9, <1>10, <1>11, <1>12, <1>13,
      <1>14 DEF Next, Step

-----------------------------------------------------------------------------
(* What is under way on a connection. *)

\* A step of a thread keeps the listed and the unused connections clean when
\* the connection it gives back, if any, is clean.
LEMMA CleanKept ==
  ASSUME ClockAssumption, PoolTypes, Distinct, Located, Holding, Clean,
         NEW t \in Threads, GetConnection(t) \/ Step(t), NEW h, h = ptr[t],
         \A c \in Conns : Listed(c)' => Listed(c) \/ c = h,
         h # NULL /\ Listed(h)' => Quiet(h)' /\ Spent(h)',
         \A c \in Conns : conn'[c].state = "none" => conn[c].state = "none"
  PROVE  Clean'
<1>1. /\ keeps' = keeps
      /\ \A c \in Conns : c # h =>
              /\ conn[c].state # "none" => conn'[c] = conn[c]
              /\ peer'[c] = peer[c] /\ asked'[c] = asked[c] /\ wire'[c] = wire[c]
  BY Apart
<1>2. h # NULL => h \in Conns /\ conn[h].state = "live" /\ ~ Listed(h)
  BY DEF Located, PoolTypes
<1>3. \A c \in Conns : c # NULL
  BY DEF Conns, NULL
<1>4. ASSUME NEW c \in Conns, conn'[c].state = "none"
      PROVE  asked'[c] = <<>> /\ wire'[c] = <<>>
  <2>1. conn[c].state = "none" /\ c # h
    BY <1>2, <1>3, <1>4
  <2> QED
    BY <1>1, <2>1 DEF Clean
<1>5. ASSUME NEW c \in Conns, Listed(c)'
      PROVE  Quiet(c)' /\ Spent(c)'
  <2>1. CASE c = h
    BY <1>3, <1>5, <2>1
  <2>2. CASE c # h
    <3>1. Listed(c) /\ conn[c].state = "live"
      BY <1>5, <2>2 DEF Located
    <3>2. conn'[c] = conn[c] /\ peer'[c] = peer[c] /\ asked'[c] = asked[c] /\ wire'[c] = wire[c]
      BY <1>1, <2>2, <3>1
    <3>3. Quiet(c) /\ Spent(c)
      BY <3>1 DEF Clean
    <3> QED
      BY <1>1, <3>2, <3>3 DEF Quiet, Spent, Leftover
  <2> QED
    BY <2>1, <2>2
<1> QED
  BY <1>4, <1>5 DEF Clean

\* The connection of another thread is as that thread knows it.
LEMMA ServingOthers ==
  ASSUME ClockAssumption, PoolTypes, Distinct, Located, Holding, Clean, Served,
         NEW t \in Threads, GetConnection(t) \/ Step(t), NEW u \in Threads, u # t
  PROVE  Serving(u)'
<1>1. pc'[u] = pc[u] /\ ptr'[u] = ptr[u] /\ request'[u] = request[u] /\ keeps' = keeps
  BY Apart
<1>2. Serving(u)
  BY DEF Served
<1>3. CASE ptr[u] = NULL
  <2>1. pc[u] \notin {"send", "count", "recv", "release"}
    BY <1>3 DEF Holding
  <2> QED
    BY <1>1, <1>3, <2>1 DEF Serving
<1>4. CASE ptr[u] # NULL
  <2>1. ptr[u] \in Conns /\ conn[ptr[u]].state = "live"
    BY <1>4, Holds
  <2>2. ptr[u] # ptr[t]
    BY <1>4 DEF Located
  <2>3. /\ conn'[ptr[u]] = conn[ptr[u]] /\ peer'[ptr[u]] = peer[ptr[u]]
        /\ asked'[ptr[u]] = asked[ptr[u]] /\ wire'[ptr[u]] = wire[ptr[u]]
    BY <2>1, <2>2, Apart
  <2> QED
    BY <1>1, <1>2, <2>3 DEF Serving, Quiet, Leftover, Spent
<1> QED
  BY <1>3, <1>4

\* The parts of one response, and what is left of it once its head is read.
LEMMA ResponseFacts ==
  ASSUME NEW r
  PROVE  /\ Response(r) # <<>> /\ Response(r)[1].part = "head" /\ Response(r)[1].to = r
         /\ Len(Response(r)) = 2 /\ SubSeq(Response(r), 3, 2) = <<>>
         /\ SubSeq(Response(r), 2, 2) # <<>> /\ SubSeq(Response(r), 2, 2)[1].part = "body"
  BY DEF Response

\* What recvResponse returns is the answer to the request of its thread, and
\* nothing but the rest of it can be on the wire behind it.
LEMMA Own ==
  ASSUME PoolTypes, Holding, Served, NEW t \in Threads, RecvResponse(t)
  PROVE  /\ wire[ptr[t]] = Response(<<t, request[t].n>>) /\ asked[ptr[t]] = <<>>
         /\ Spent(ptr[t]) /\ (request[t].reused => keeps)
<1>1. pc[t] = "recv" /\ ~ Leftover(ptr[t])
  BY Received
<1> QED
  BY <1>1 DEF Served, Serving

\* A listed connection stays connected, with nothing under way on it.
LEMMA StepClean ==
  ASSUME PoolAssumption, ClockAssumption, PoolInv, [Next]_vars
  PROVE  Clean'
<1>0. /\ PoolTypes /\ Distinct /\ Located /\ Holding /\ Unused /\ RequestsCounted /\ Clean
      /\ Served
      /\ Answered /\ Bounded /\ Counted
  BY DEF PoolInv
<1> USE <1>0
<1>1. ASSUME NEW t \in Threads, GetConnection(t) PROVE Clean'
  <2>1. conn' = conn
    BY <1>1, Drawn
  <2>2. \A c : Listed(c)' => Listed(c)
    <3>1. CASE m_conns = <<>>
      BY <1>1, <3>1, Drawn DEF Listed
    <3>2. CASE m_conns # <<>>
      BY <1>1, <3>2, Drawn, TailListed
    <3> QED
      BY <3>1, <3>2
  <2>3. ptr[t] # NULL => ~ Listed(ptr[t])
    BY DEF Located
  <2> QED
    BY <1>1, <2>1, <2>2, <2>3, CleanKept
<1>2. ASSUME NEW t \in Threads, Drop(t) PROVE Clean'
  <2>1. m_conns' = m_conns /\ \A c \in Conns : conn'[c].state = "none" => conn[c].state = "none"
    BY <1>2, Dropped
  <2>2. \A c : Listed(c)' <=> Listed(c)
    BY <2>1 DEF Listed
  <2>3. ptr[t] # NULL => ~ Listed(ptr[t])
    BY DEF Located
  <2> QED
    BY <1>2, <2>1, <2>2, <2>3, CleanKept DEF Step
<1>3. ASSUME NEW t \in Threads, Connect(t) PROVE Clean'
  <2>1. m_conns' = m_conns /\ \A c \in Conns : conn'[c].state = "none" => conn[c].state = "none"
    BY <1>3 DEF Connect, PoolTypes
  <2>2. \A c : Listed(c)' <=> Listed(c)
    BY <2>1 DEF Listed
  <2>3. ptr[t] # NULL => ~ Listed(ptr[t])
    BY DEF Located
  <2> QED
    BY <1>3, <2>1, <2>2, <2>3, CleanKept DEF Step
<1>4. ASSUME NEW t \in Threads, ConnectFails(t) PROVE Clean'
  <2>1. m_conns' = m_conns /\ \A c \in Conns : conn'[c].state = "none" => conn[c].state = "none"
    BY <1>4 DEF ConnectFails, poolVars
  <2>2. \A c : Listed(c)' <=> Listed(c)
    BY <2>1 DEF Listed
  <2>3. ptr[t] # NULL => ~ Listed(ptr[t])
    BY DEF Located
  <2> QED
    BY <1>4, <2>1, <2>2, <2>3, CleanKept DEF Step
<1>5. ASSUME NEW t \in Threads, Count(t) PROVE Clean'
  <2>1. m_conns' = m_conns /\ \A c \in Conns : conn'[c].state = "none" => conn[c].state = "none"
    BY <1>5 DEF Count, poolVars
  <2>2. \A c : Listed(c)' <=> Listed(c)
    BY <2>1 DEF Listed
  <2>3. ptr[t] # NULL => ~ Listed(ptr[t])
    BY DEF Located
  <2> QED
    BY <1>5, <2>1, <2>2, <2>3, CleanKept DEF Step
<1>6. ASSUME NEW t \in Threads, SendRequest(t) PROVE Clean'
  <2>1. m_conns' = m_conns /\ \A c \in Conns : conn'[c].state = "none" => conn[c].state = "none"
    BY <1>6 DEF SendRequest, poolVars
  <2>2. \A c : Listed(c)' <=> Listed(c)
    BY <2>1 DEF Listed
  <2>3. ptr[t] # NULL => ~ Listed(ptr[t])
    BY DEF Located
  <2> QED
    BY <1>6, <2>1, <2>2, <2>3, CleanKept DEF Step
<1>7. ASSUME NEW t \in Threads, RecvResponse(t) PROVE Clean'
  <2>1. m_conns' = m_conns /\ \A c \in Conns : conn'[c].state = "none" => conn[c].state = "none"
    BY <1>7, Received
  <2>2. \A c : Listed(c)' <=> Listed(c)
    BY <2>1 DEF Listed
  <2>3. ptr[t] # NULL => ~ Listed(ptr[t])
    BY DEF Located
  <2> QED
    BY <1>7, <2>1, <2>2, <2>3, CleanKept DEF Step
<1>8. ASSUME NEW t \in Threads, RecvFails(t) PROVE Clean'
  <2>0. \A c \in Conns : conn'[c].state = conn[c].state
    <3>1. conn' = [conn EXCEPT ![ptr[t]] = [conn[ptr[t]] EXCEPT !.isConnected = FALSE]]
      BY <1>8 DEF RecvFails
    <3> QED
      BY <1>8, <3>1, CountFacts DEF PoolTypes
  <2>1. m_conns' = m_conns /\ \A c \in Conns : conn'[c].state = "none" => conn[c].state = "none"
    BY <1>8, <2>0 DEF RecvFails
  <2>2. \A c : Listed(c)' <=> Listed(c)
    BY <2>1 DEF Listed
  <2>3. ptr[t] # NULL => ~ Listed(ptr[t])
    BY DEF Located
  <2> QED
    BY <1>8, <2>1, <2>2, <2>3, CleanKept DEF Step
<1>9. ASSUME NEW t \in Threads, RecvSpins(t) PROVE Clean'
  <2>1. m_conns' = m_conns /\ \A c \in Conns : conn'[c].state = "none" => conn[c].state = "none"
    BY <1>9 DEF RecvSpins, poolVars
  <2>2. \A c : Listed(c)' <=> Listed(c)
    BY <2>1 DEF Listed
  <2>3. ptr[t] # NULL => ~ Listed(ptr[t])
    BY DEF Located
  <2> QED
    BY <1>9, <2>1, <2>2, <2>3, CleanKept DEF Step
<1>10. ASSUME NEW t \in Threads, Release(t) PROVE Clean'
  <2>0. /\ ptr[t] \in Conns /\ ptr[t] # NULL /\ conn[ptr[t]].state = "live"
        /\ ~ Listed(ptr[t]) /\ conn[ptr[t]] \in ConnRecords /\ pc[t] = "release"
    BY <1>10, Holds DEF Release, PoolTypes
  <2>1. CASE Reusable(ptr[t])
    <3>1. /\ m_conns' = Append(m_conns, ptr[t])
          /\ conn' = [conn EXCEPT ![ptr[t]] = [conn[ptr[t]] EXCEPT !.m_request = @ + 1]]
          /\ UNCHANGED <<keeps, peer, asked, wire>>
      BY <1>10, <2>0, <2>1, Kept
    <3>2. \A d : Listed(d)' <=> Listed(d) \/ d = ptr[t]
      BY <2>0, <3>1, AppendListed
    <3>3. \A d \in Conns : conn'[d].state = conn[d].state
               /\ conn'[d].isConnected = conn[d].isConnected
      BY <2>0, <3>1, CountFacts DEF PoolTypes
    <3>4. Quiet(ptr[t]) /\ Spent(ptr[t])
      BY <2>0, <2>1 DEF Served, Serving, Reusable
    <3>5. PICK h \in Conns : h = ptr[t]
      BY <2>0
    <3>6. Quiet(h)' /\ Spent(h)'
      BY <3>1, <3>3, <3>4, <3>5 DEF Quiet, Spent, Leftover
    <3>7. \A c \in Conns : Listed(c)' => Listed(c) \/ c = h
      BY <3>2, <3>5
    <3>8. \A c \in Conns : conn'[c].state = "none" => conn[c].state = "none"
      BY <3>3
    <3> QED
      BY <1>10, <3>5, <3>6, <3>7, <3>8, CleanKept DEF Step
  <2>2. CASE ~ Reusable(ptr[t])
    <3>1. /\ m_conns' = m_conns
          /\ conn' = [conn EXCEPT ![ptr[t]] =
               [conn[ptr[t]] EXCEPT !.m_request = @ + 1, !.state = "deleted"]]
      BY <1>10, <2>0, <2>2, Deleted
    <3>2. \A c \in Conns : conn'[c].state = "none" => conn[c].state = "none"
      BY <2>0, <3>1, CountFacts DEF PoolTypes
    <3>3. \A c : Listed(c)' <=> Listed(c)
      BY <3>1 DEF Listed
    <3> QED
      BY <1>10, <2>0, <3>2, <3>3, CleanKept DEF Step
  <2> QED
    BY <2>1, <2>2
<1>11. ASSUME NEW t \in Threads, Uncount(t) PROVE Clean'
  <2>1. m_conns' = m_conns /\ \A c \in Conns : conn'[c].state = "none" => conn[c].state = "none"
    BY <1>11 DEF Uncount, poolVars
  <2>2. \A c : Listed(c)' <=> Listed(c)
    BY <2>1 DEF Listed
  <2>3. ptr[t] # NULL => ~ Listed(ptr[t])
    BY DEF Located
  <2> QED
    BY <1>11, <2>1, <2>2, <2>3, CleanKept DEF Step
<1>12. ASSUME NEW c \in Conns, Answer(c) PROVE Clean'
  <2>1. /\ asked[c] # <<>> /\ m_conns' = m_conns /\ conn' = conn /\ keeps' = keeps
        /\ \A d \in Conns : d # c =>
             peer'[d] = peer[d] /\ asked'[d] = asked[d] /\ wire'[d] = wire[d]
    BY <1>12 DEF Answer, poolVars, PoolTypes
  <2>2. ~ Listed(c) /\ conn[c].state # "none"
    BY <2>1 DEF Clean, Quiet
  <2>3. \A d : Listed(d)' <=> Listed(d)
    BY <2>1 DEF Listed
  <2>4. ASSUME NEW d \in Conns, Listed(d)' PROVE Quiet(d)' /\ Spent(d)'
    <3>1. d # c /\ Quiet(d) /\ Spent(d)
      BY <2>2, <2>3, <2>4 DEF Clean
    <3> QED
      BY <2>1, <3>1 DEF Quiet, Spent, Leftover
  <2>5. \A d \in Conns : conn'[d].state = "none" => asked'[d] = <<>> /\ wire'[d] = <<>>
    BY <2>1, <2>2 DEF Clean
  <2> QED
    BY <2>4, <2>5 DEF Clean
<1>13. ASSUME NEW c \in Conns, NEW how \in {"fin", "rst"}, Close(c, how) PROVE Clean'
  <2>1. /\ m_conns' = m_conns /\ conn' = conn /\ keeps' = keeps
        /\ conn[c].state = "live" /\ peer[c] = "open"
        /\ peer'[c] # "open" /\ asked'[c] = <<>>
        /\ wire'[c] = wire[c] \/ wire'[c] = <<>>
        /\ \A d \in Conns : d # c =>
             peer'[d] = peer[d] /\ asked'[d] = asked[d] /\ wire'[d] = wire[d]
    BY <1>13 DEF Close, Live, poolVars, PoolTypes
  <2>2. \A d : Listed(d)' <=> Listed(d)
    BY <2>1 DEF Listed
  <2>3. ASSUME NEW d \in Conns, Listed(d)' PROVE Quiet(d)' /\ Spent(d)'
    <3>1. Quiet(d) /\ Spent(d)
      BY <2>2, <2>3 DEF Clean
    <3>2. CASE d = c
      BY <2>1, <3>1, <3>2 DEF Quiet, Spent, Leftover
    <3>3. CASE d # c
      BY <2>1, <3>1, <3>3 DEF Quiet, Spent, Leftover
    <3> QED
      BY <3>2, <3>3
  <2>4. \A d \in Conns : conn'[d].state = "none" => asked'[d] = <<>> /\ wire'[d] = <<>>
    BY <2>1 DEF Clean
  <2> QED
    BY <2>3, <2>4 DEF Clean
<1>14. ASSUME UNCHANGED vars PROVE Clean'
  <2>1. \A d : Listed(d)' <=> Listed(d)
    BY <1>14 DEF vars, Listed
  <2> QED
    BY <1>14, <2>1 DEF vars, Clean, Quiet, Spent, Leftover
<1> QED
  BY <1>1, <1>2, <1>3, <1>4, <1>5, <1>6, <1>7, <1>8, <1>9, <1>10, <1>11, <1>12, <1>13,
      <1>14 DEF Next, Step

\* What is under way on a held connection is for the request of its thread.
LEMMA StepServed ==
  ASSUME PoolAssumption, ClockAssumption, PoolInv, [Next]_vars
  PROVE  Served'
<1>0. /\ PoolTypes /\ Distinct /\ Located /\ Holding /\ Unused /\ RequestsCounted /\ Clean
      /\ Served
      /\ Answered /\ Bounded /\ Counted
  BY DEF PoolInv
<1> USE <1>0
<1>1. ASSUME NEW t \in Threads, GetConnection(t) PROVE Served'
  <2>1. pc'[t] = "drop" /\ UNCHANGED <<conn, keeps, peer, asked, wire>>
    BY <1>1, Drawn DEF PoolTypes
  <2>9. Serving(t)'
    <3>1. CASE m_conns = <<>>
      <4>1. ptr'[t] = NULL
        BY <1>1, <3>1, Drawn DEF PoolTypes
      <4> QED
        BY <2>1, <4>1 DEF Serving
    <3>2. CASE m_conns # <<>>
      <4>1. ptr'[t] = m_conns[1]
        BY <1>1, <3>2, Drawn DEF PoolTypes
      <4>2. m_conns[1] \in Conns /\ Listed(m_conns[1])
        BY <3>2, TailFacts DEF PoolTypes, Listed, ToSet
      <4>3. Quiet(m_conns[1]) /\ Spent(m_conns[1])
        BY <4>2 DEF Clean
      <4> QED
        BY <2>1, <4>1, <4>3 DEF Serving, Quiet, Spent, Leftover
    <3> QED
      BY <3>1, <3>2
  <2> QED
    BY <1>1, <2>9, ServingOthers DEF Served
<1>2. ASSUME NEW t \in Threads, Drop(t) PROVE Served'
  <2>1. /\ pc[t] = "drop" /\ pc'[t] = IF ptr[t] = NULL THEN "connect" ELSE "send"
        /\ UNCHANGED <<conn, ptr, request, keeps, peer, asked, wire>>
    BY <1>2, Dropped DEF PoolTypes
  <2>2. Serving(t)
    BY DEF Served
  <2>9. Serving(t)'
    BY <2>1, <2>2 DEF Serving, Quiet, Spent, Leftover
  <2> QED
    BY <1>2, <2>9, ServingOthers DEF Step, Served
<1>3. ASSUME NEW t \in Threads, Connect(t) PROVE Served'
  <2>1. PICK c \in Conns :
          /\ conn[c].state = "none" /\ ptr' = [ptr EXCEPT ![t] = c]
          /\ conn' = [conn EXCEPT ![c] = [state |-> "live", isConnected |-> TRUE, m_request |-> 0]]
    BY <1>3 DEF Connect
  <2>2. ptr'[t] = c /\ conn'[c].isConnected
    BY <2>1 DEF PoolTypes
  <2>3. /\ pc'[t] = "count" /\ ~ request'[t].reused /\ asked'[c] = <<>> /\ wire'[c] = <<>>
    BY <1>3, <2>1 DEF Connect, Goto, Unused, Clean, peerVars, PoolTypes
  <2>9. Serving(t)'
    BY <2>2, <2>3 DEF Serving, Quiet, Leftover
  <2> QED
    BY <1>3, <2>9, ServingOthers DEF Step, Served
<1>4. ASSUME NEW t \in Threads, ConnectFails(t) PROVE Served'
  <2>1. pc'[t] = "idle"
    BY <1>4 DEF ConnectFails, Goto, PoolTypes
  <2>9. Serving(t)'
    BY <2>1 DEF Serving
  <2> QED
    BY <1>4, <2>9, ServingOthers DEF Step, Served
<1>5. ASSUME NEW t \in Threads, Count(t) PROVE Served'
  <2>1. /\ pc[t] = "count" /\ pc'[t] = "send" /\ ptr[t] # NULL
        /\ UNCHANGED <<conn, ptr, request, keeps, peer, asked, wire>>
    BY <1>5, Holds DEF Count, Goto, peerVars, PoolTypes
  <2>2. Serving(t)
    BY DEF Served
  <2>9. Serving(t)'
    BY <2>1, <2>2 DEF Serving, Quiet, Spent, Leftover
  <2> QED
    BY <1>5, <2>9, ServingOthers DEF Step, Served
<1>6. ASSUME NEW t \in Threads, SendRequest(t) PROVE Served'
  <2>0. ptr[t] \in Conns /\ ptr[t] # NULL /\ pc[t] = "send"
    BY <1>6, Holds DEF SendRequest
  <2>1. Quiet(ptr[t]) /\ (request[t].reused => Spent(ptr[t]))
    BY <2>0 DEF Served, Serving
  <2>2. UNCHANGED <<conn, ptr, request, keeps, peer, wire>>
    BY <1>6 DEF SendRequest, poolVars
  <2>3. \/ pc'[t] = "spin"
        \/ pc'[t] = "recv" /\ peer[ptr[t]] = "fin" /\ asked'[ptr[t]] = <<>>
        \/ pc'[t] = "recv" /\ peer[ptr[t]] = "open" /\ asked'[ptr[t]] = << <<t, request[t].n>> >>
    <3>1. CASE peer[ptr[t]] = "rst"
      BY <1>6, <2>0, <3>1 DEF SendRequest, Goto, PoolTypes
    <3>2. CASE peer[ptr[t]] = "fin"
      BY <1>6, <2>0, <2>1, <3>2 DEF SendRequest, Goto, Quiet, PoolTypes
    <3>3. CASE peer[ptr[t]] = "open"
      <4>1. asked' = [asked EXCEPT ![ptr[t]] = Append(asked[ptr[t]], <<t, request[t].n>>)]
            /\ pc'[t] = "recv"
        BY <1>6, <3>3 DEF SendRequest, Goto, PoolTypes
      <4>2. Append(asked[ptr[t]], <<t, request[t].n>>) = << <<t, request[t].n>> >>
        BY <2>1 DEF Quiet
      <4> QED
        BY <2>0, <3>3, <4>1, <4>2 DEF PoolTypes
    <3>4. peer[ptr[t]] \in {"open", "fin", "rst"}
      BY <2>0 DEF PoolTypes
    <3> QED
      BY <3>1, <3>2, <3>3, <3>4
  <2>4. Leftover(ptr[t])' /\ (request'[t].reused /\ ~ keeps' => peer'[ptr[t]] # "open")
    BY <2>1, <2>2 DEF Quiet, Leftover, Spent
  <2>9. Serving(t)'
    BY <2>2, <2>3, <2>4 DEF Serving
  <2> QED
    BY <1>6, <2>9, ServingOthers DEF Step, Served
<1>7. ASSUME NEW t \in Threads, RecvResponse(t) PROVE Served'
  <2>0. ptr[t] \in Conns /\ pc'[t] = "release" /\ UNCHANGED <<conn, ptr, keeps, peer, asked>>
    BY <1>7, Received DEF PoolTypes
  <2>1. wire[ptr[t]] = Response(<<t, request[t].n>>) /\ asked[ptr[t]] = <<>> /\ Spent(ptr[t])
    BY <1>7, Own
  <2>2. PICK whole \in BOOLEAN :
          wire' = [wire EXCEPT ![ptr[t]] =
            SubSeq(wire[ptr[t]], IF whole THEN 3 ELSE 2, Len(wire[ptr[t]]))]
    BY <1>7, Received
  <2>3. wire'[ptr[t]] = SubSeq(Response(<<t, request[t].n>>), IF whole THEN 3 ELSE 2, 2)
    <3>1. PICK x, k : x = Response(<<t, request[t].n>>) /\ k = IF whole THEN 3 ELSE 2
      OBVIOUS
    <3>2. wire[ptr[t]] = x /\ Len(x) = 2
      BY <2>1, <3>1, ResponseFacts
    <3>3. wire \in [Conns -> Seq(Parts)] /\ ptr[t] \in Conns
      BY <2>0 DEF PoolTypes
    <3>4. wire' = [wire EXCEPT ![ptr[t]] = SubSeq(wire[ptr[t]], k, Len(wire[ptr[t]]))]
      BY <2>2, <3>1
    <3>5. wire'[ptr[t]] = SubSeq(x, k, 2)
      BY <3>2, <3>3, <3>4
    <3> QED
      BY <3>1, <3>5
  <2>4. wire'[ptr[t]] = <<>> \/ wire'[ptr[t]][1].part = "body"
    BY <2>3, ResponseFacts
  <2>9. Serving(t)'
    BY <2>0, <2>1, <2>4 DEF Serving, Quiet, Leftover, Spent
  <2> QED
    BY <1>7, <2>9, ServingOthers DEF Step, Served
<1>8. ASSUME NEW t \in Threads, RecvFails(t) PROVE Served'
  <2>0. ptr[t] \in Conns /\ pc'[t] = "release" /\ ptr' = ptr
    BY <1>8, Holds DEF RecvFails, Goto, PoolTypes
  <2>1. conn' = [conn EXCEPT ![ptr[t]] = [conn[ptr[t]] EXCEPT !.isConnected = FALSE]]
    BY <1>8 DEF RecvFails
  <2>2. conn'[ptr[t]].isConnected = FALSE
    BY <2>0, <2>1, CountFacts DEF PoolTypes
  <2>9. Serving(t)'
    BY <2>0, <2>2 DEF Serving
  <2> QED
    BY <1>8, <2>9, ServingOthers DEF Step, Served
<1>9. ASSUME NEW t \in Threads, RecvSpins(t) PROVE Served'
  <2>1. pc'[t] = "spin"
    BY <1>9 DEF RecvSpins, Goto, PoolTypes
  <2>9. Serving(t)'
    BY <2>1 DEF Serving
  <2> QED
    BY <1>9, <2>9, ServingOthers DEF Step, Served
<1>10. ASSUME NEW t \in Threads, Release(t) PROVE Served'
  <2>1. pc'[t] \in {"idle", "uncount"}
    BY <1>10 DEF Release, Goto, PoolTypes
  <2>9. Serving(t)'
    BY <2>1 DEF Serving
  <2> QED
    BY <1>10, <2>9, ServingOthers DEF Step, Served
<1>11. ASSUME NEW t \in Threads, Uncount(t) PROVE Served'
  <2>1. pc'[t] = "idle"
    BY <1>11 DEF Uncount, Goto, PoolTypes
  <2>9. Serving(t)'
    BY <2>1 DEF Serving
  <2> QED
    BY <1>11, <2>9, ServingOthers DEF Step, Served
<1>12. ASSUME NEW c \in Conns, Answer(c) PROVE Served'
  <2> SUFFICES ASSUME NEW t \in Threads PROVE Serving(t)'
    BY DEF Served
  <2>1. /\ peer[c] = "open" /\ asked[c] \in Seq(Requests) /\ asked[c] # <<>>
        /\ asked'[c] = Tail(asked[c]) /\ wire[c] \in Seq(Parts)
        /\ peer'[c] = IF keeps THEN "open" ELSE "fin"
        /\ UNCHANGED <<conn, pc, ptr, request, keeps>>
    BY <1>12 DEF Answer, poolVars, PoolTypes
  <2>2. wire'[c] = wire[c] \o Response(Head(asked[c]))
    BY <1>12 DEF Answer, Response, PoolTypes
  <2>3. \A d \in Conns : d # c =>
             peer'[d] = peer[d] /\ asked'[d] = asked[d] /\ wire'[d] = wire[d]
    BY <1>12 DEF Answer, PoolTypes
  <2>4. Serving(t)
    BY DEF Served
  <2>5. CASE ptr[t] # c
    <3>1. CASE ptr[t] = NULL
      BY <2>1, <3>1 DEF Holding, Serving
    <3>2. CASE ptr[t] # NULL
      <4>1. ptr[t] \in Conns
        BY <3>2 DEF PoolTypes
      <4>2. /\ peer'[ptr[t]] = peer[ptr[t]] /\ asked'[ptr[t]] = asked[ptr[t]]
            /\ wire'[ptr[t]] = wire[ptr[t]]
        BY <2>3, <2>5, <4>1
      <4> QED
        BY <2>1, <2>4, <4>2 DEF Serving, Quiet, Spent, Leftover
    <3> QED
      BY <3>1, <3>2
  <2>6. CASE ptr[t] = c
    <3>0. ptr[t] # NULL
      BY <2>6 DEF NULL, Conns
    <3>1. pc[t] \notin {"drop", "count", "send"}
      BY <2>1, <2>4, <2>6, <3>0 DEF Serving, Quiet
    <3>2. pc[t] = "release" => ~ conn[c].isConnected
      BY <2>1, <2>4, <2>6 DEF Serving, Quiet
    <3>3. CASE pc[t] = "recv"
      <4>1. asked[c] = << <<t, request[t].n>> >> /\ Leftover(c) /\ (request[t].reused => keeps)
        BY <2>1, <2>4, <2>6, <3>3 DEF Serving
      <4>2. asked'[c] = <<>> /\ wire'[c] = wire[c] \o Response(<<t, request[t].n>>)
        BY <2>1, <2>2, <4>1
      <4>3. Leftover(c)' \/ wire'[c] = Response(<<t, request[t].n>>)
        <5>1. CASE wire[c] = <<>>
          BY <4>2, <5>1 DEF Response
        <5>2. CASE wire[c] # <<>>
          <6>1. (wire[c] \o Response(<<t, request[t].n>>))[1] = wire[c][1]
            BY <2>1, <5>2 DEF Response
          <6> QED
            BY <4>1, <4>2, <5>2, <6>1 DEF Leftover
        <5> QED
          BY <5>1, <5>2
      <4>4. Spent(c)'
        BY <2>1 DEF Spent
      <4> QED
        BY <2>1, <2>6, <3>3, <4>1, <4>2, <4>3, <4>4 DEF Serving, Leftover, Spent
    <3> QED
      BY <2>1, <2>6, <3>1, <3>2, <3>3 DEF Serving
  <2> QED
    BY <2>5, <2>6
<1>13. ASSUME NEW c \in Conns, NEW how \in {"fin", "rst"}, Close(c, how) PROVE Served'
  <2> SUFFICES ASSUME NEW t \in Threads PROVE Serving(t)'
    BY DEF Served
  <2>1. /\ m_conns' = m_conns /\ UNCHANGED <<conn, pc, ptr, request>> /\ keeps' = keeps
        /\ conn[c].state = "live" /\ peer[c] = "open"
        /\ peer'[c] # "open" /\ asked'[c] = <<>>
        /\ wire'[c] = wire[c] \/ wire'[c] = <<>>
        /\ \A d \in Conns : d # c =>
             peer'[d] = peer[d] /\ asked'[d] = asked[d] /\ wire'[d] = wire[d]
    BY <1>13 DEF Close, Live, poolVars, PoolTypes
  <2>2. Serving(t)
    BY DEF Served
  <2>3. CASE ptr[t] # c
    <3>1. CASE ptr[t] = NULL
      BY <2>1, <3>1 DEF Holding, Serving
    <3>2. CASE ptr[t] # NULL
      <4>1. ptr[t] \in Conns
        BY <3>2 DEF PoolTypes
      <4>2. /\ peer'[ptr[t]] = peer[ptr[t]] /\ asked'[ptr[t]] = asked[ptr[t]]
            /\ wire'[ptr[t]] = wire[ptr[t]]
        BY <2>1, <2>3, <4>1
      <4> QED
        BY <2>1, <2>2, <4>2 DEF Serving, Quiet, Spent, Leftover
    <3> QED
      BY <3>1, <3>2
  <2>4. CASE ptr[t] = c
    <3>1. Spent(c)'
      BY <2>1 DEF Spent
    <3>2. Quiet(c) => Quiet(c)'
      BY <2>1 DEF Quiet, Leftover
    <3>3. ~ Leftover(c)' => ~ Leftover(c) /\ wire'[c] = wire[c]
      BY <2>1 DEF Leftover
    <3>4. pc[t] = "recv" => (request[t].reused /\ ~ keeps => FALSE)
      BY <2>1, <2>2, <2>4 DEF Serving
    <3> QED
      BY <2>1, <2>2, <2>4, <3>1, <3>2, <3>3, <3>4 DEF Serving
  <2> QED
    BY <2>3, <2>4
<1>14. ASSUME UNCHANGED vars PROVE Served'
  BY <1>14 DEF vars, Served, Serving, Quiet, Spent, Leftover
<1> QED
  BY <1>1, <1>2, <1>3, <1>4, <1>5, <1>6, <1>7, <1>8, <1>9, <1>10, <1>11, <1>12, <1>13,
      <1>14 DEF Next, Step

\* What is returned is the response to that request.
LEMMA StepAnswered ==
  ASSUME PoolAssumption, ClockAssumption, PoolInv, [Next]_vars
  PROVE  Answered'
<1>0. /\ PoolTypes /\ Distinct /\ Located /\ Holding /\ Unused /\ RequestsCounted /\ Clean
      /\ Served
      /\ Answered /\ Bounded /\ Counted
  BY DEF PoolInv
<1> USE <1>0
<1>1. ASSUME NEW t \in Threads, GetConnection(t) PROVE Answered'
  <2>1. request'[t].result = "none"
    BY <1>1, Drawn DEF PoolTypes
  <2>2. keeps' = keeps /\ \A u \in Threads \ {t} : request'[u] = request[u]
    BY <1>1, Apart
  <2> QED
    BY <2>1, <2>2 DEF Answered
<1>2. ASSUME NEW t \in Threads, Drop(t) PROVE Answered'
  BY <1>2, Dropped DEF Answered
<1>3. ASSUME NEW t \in Threads, Connect(t) PROVE Answered'
  BY <1>3 DEF Connect, Answered, peerVars
<1>4. ASSUME NEW t \in Threads, ConnectFails(t) PROVE Answered'
  <2>1. request' = [request EXCEPT ![t] = [request[t] EXCEPT !.result = "POOL_GET_CONNECTION"]]
    BY <1>4 DEF ConnectFails
  <2>2. request'[t].result = "POOL_GET_CONNECTION"
    BY <2>1, ResultFacts DEF PoolTypes
  <2>3. keeps' = keeps /\ \A u \in Threads \ {t} : request'[u] = request[u]
    BY <1>4, Apart DEF Step
  <2> QED
    BY <2>2, <2>3 DEF Answered
<1>5. ASSUME NEW t \in Threads, Count(t) PROVE Answered'
  BY <1>5 DEF Count, Answered, peerVars
<1>6. ASSUME NEW t \in Threads, SendRequest(t) PROVE Answered'
  BY <1>6 DEF SendRequest, Answered, peerVars
<1>7. ASSUME NEW t \in Threads, RecvResponse(t) PROVE Answered'
  <2>1. wire[ptr[t]][1].to = <<t, request[t].n>> /\ (request[t].reused => keeps)
    BY <1>7, Own, ResponseFacts
  <2>2. PICK b \in BOOLEAN :
          request' = [request EXCEPT ![t] =
            [request[t] EXCEPT !.result = "OK", !.to = wire[ptr[t]][1].to, !.body = b]]
    BY <1>7, Received
  <2>3. request[t] \in RequestRecords
    BY DEF PoolTypes
  <2>4. /\ request'[t].to = <<t, request[t].n>> /\ request'[t].n = request[t].n
        /\ request'[t].reused = request[t].reused
    BY <2>1, <2>2, <2>3, ResultFacts DEF PoolTypes
  <2>5. keeps' = keeps /\ \A u \in Threads \ {t} : request'[u] = request[u]
    BY <1>7, Apart DEF Step
  <2> QED
    BY <2>1, <2>4, <2>5 DEF Answered
<1>8. ASSUME NEW t \in Threads, RecvFails(t) PROVE Answered'
  <2>1. request' = [request EXCEPT ![t] = [request[t] EXCEPT !.result = "TIMEOUT"]]
    BY <1>8 DEF RecvFails
  <2>2. request'[t].result = "TIMEOUT"
    BY <2>1, ResultFacts DEF PoolTypes
  <2>3. keeps' = keeps /\ \A u \in Threads \ {t} : request'[u] = request[u]
    BY <1>8, Apart DEF Step
  <2> QED
    BY <2>2, <2>3 DEF Answered
<1>9. ASSUME NEW t \in Threads, RecvSpins(t) PROVE Answered'
  BY <1>9 DEF RecvSpins, Answered, peerVars
<1>10. ASSUME NEW t \in Threads, Release(t) PROVE Answered'
  BY <1>10 DEF Release, Answered, peerVars
<1>11. ASSUME NEW t \in Threads, Uncount(t) PROVE Answered'
  BY <1>11 DEF Uncount, Answered, peerVars
<1>12. ASSUME NEW c \in Conns, Answer(c) PROVE Answered'
  BY <1>12 DEF Answer, Answered, peerVars
<1>13. ASSUME NEW c \in Conns, NEW how \in {"fin", "rst"}, Close(c, how) PROVE Answered'
  BY <1>13 DEF Close, Answered, peerVars
<1>14. ASSUME UNCHANGED vars PROVE Answered'
  BY <1>14 DEF vars, Answered
<1> QED
  BY <1>1, <1>2, <1>3, <1>4, <1>5, <1>6, <1>7, <1>8, <1>9, <1>10, <1>11, <1>12, <1>13,
      <1>14 DEF Next, Step

-----------------------------------------------------------------------------
(* How many connections there are. *)

\* How a step of one thread changes the number of threads in some places.
LEMMA Counting ==
  ASSUME PoolAssumption, NEW p, NEW q, NEW P, NEW t \in Threads,
         \A u \in Threads \ {t} : q[u] = p[u]
  PROVE  /\ Cardinality(Inside(p, P)) \in Nat
         /\ Cardinality(Inside(q, P)) = Cardinality(Inside(p, P))
              + (IF q[t] \in P THEN 1 ELSE 0) - (IF p[t] \in P THEN 1 ELSE 0)
<1>1. IsFiniteSet(Inside(p, P))
  BY FS_Subset DEF Inside, PoolAssumption
<1>2. Cardinality(Inside(p, P)) \in Nat
  BY <1>1, FS_CardinalityType
<1>3. ASSUME p[t] \notin P, q[t] \in P
      PROVE  Cardinality(Inside(q, P)) = Cardinality(Inside(p, P)) + 1
  <2>1. Inside(q, P) = Inside(p, P) \cup {t} /\ t \notin Inside(p, P)
    BY <1>3 DEF Inside
  <2> QED
    BY <1>1, <2>1, FS_AddElement
<1>4. ASSUME p[t] \in P, q[t] \notin P
      PROVE  Cardinality(Inside(q, P)) = Cardinality(Inside(p, P)) - 1
  <2>1. Inside(q, P) = Inside(p, P) \ {t} /\ t \in Inside(p, P)
    BY <1>4 DEF Inside
  <2> QED
    BY <1>1, <2>1, FS_RemoveElement
<1>5. ASSUME p[t] \in P <=> q[t] \in P PROVE Inside(q, P) = Inside(p, P)
  BY <1>5 DEF Inside
<1> QED
  BY <1>2, <1>3, <1>4, <1>5

\* All the sets counted are finite.
LEMMA Finite ==
  ASSUME PoolAssumption, PoolTypes
  PROVE  /\ IsFiniteSet(Conns) /\ IsFiniteSet(Live) /\ Cardinality(Live) \in Nat
         /\ IsFiniteSet(ToSet(m_conns)) /\ Cardinality(ToSet(m_conns)) \in Nat
         /\ Cardinality(Threads) \in Nat
         /\ \A P : Cardinality(Inside(pc, P)) \in Nat
                   /\ Cardinality(Inside(pc, P)) <= Cardinality(Threads)
<1>1. Cardinality(Threads) \in Nat /\ MaxRequests \in Nat
  BY FS_CardinalityType DEF PoolAssumption
<1>2. Cardinality(Threads) * MaxRequests \in Int
  BY <1>1
<1>3. IsFiniteSet(Conns)
  BY <1>2, FS_Interval DEF Conns
<1>4. Live \subseteq Conns /\ ToSet(m_conns) \subseteq Conns
  BY DEF Live, ToSet, PoolTypes
<1>5. IsFiniteSet(Live) /\ IsFiniteSet(ToSet(m_conns))
  BY <1>3, <1>4, FS_Subset
<1>6. ASSUME NEW P
      PROVE Cardinality(Inside(pc, P)) \in Nat
            /\ Cardinality(Inside(pc, P)) <= Cardinality(Threads)
  <2>1. Inside(pc, P) \subseteq Threads
    BY DEF Inside
  <2> QED
    BY <2>1, FS_Subset, FS_CardinalityType DEF PoolAssumption
<1> QED
  BY <1>1, <1>3, <1>5, <1>6, FS_CardinalityType

\* A thread that moves between busy places, or between places that are not.
LEMMA BoundedKept ==
  ASSUME PoolAssumption, PoolTypes, Bounded, NEW t \in Threads, ToSet(m_conns)' = ToSet(m_conns),
         \A u \in Threads \ {t} : pc'[u] = pc[u], pc'[t] \in Busy => pc[t] \in Busy
  PROVE  Bounded'
<1>1. Inside(pc', Busy) \subseteq Inside(pc, Busy)
  BY DEF Inside
<1>2. Inside(pc, Busy) \subseteq Threads
  BY DEF Inside
<1>3. /\ Cardinality(Inside(pc', Busy)) <= Cardinality(Inside(pc, Busy))
      /\ Cardinality(Inside(pc', Busy)) \in Nat /\ Cardinality(Inside(pc, Busy)) \in Nat
  BY <1>1, <1>2, FS_Subset, FS_CardinalityType DEF PoolAssumption
<1>4. Cardinality(ToSet(m_conns)) \in Nat /\ Cardinality(Threads) \in Nat
  BY Finite
<1>5. Cardinality(ToSet(m_conns)) + Cardinality(Inside(pc', Busy)) <= Cardinality(Threads)
  BY <1>3, <1>4 DEF Bounded
<1> QED
  BY <1>5 DEF Bounded, Inside, Busy, Places

\* A new connection is made only when the list is empty.
LEMMA StepBounded ==
  ASSUME PoolAssumption, ClockAssumption, PoolInv, [Next]_vars
  PROVE  Bounded'
<1>0. /\ PoolTypes /\ Distinct /\ Located /\ Holding /\ Unused /\ RequestsCounted /\ Clean
      /\ Served
      /\ Answered /\ Bounded /\ Counted
  BY DEF PoolInv
<1> USE <1>0
<1>1. ASSUME NEW t \in Threads, GetConnection(t) PROVE Bounded'
  <2>1. /\ pc[t] = "idle" /\ pc'[t] = "drop" /\ \A u \in Threads \ {t} : pc'[u] = pc[u]
    BY <1>1, Drawn DEF PoolTypes
  <2>2. /\ Cardinality(Inside(pc', Busy)) = Cardinality(Inside(pc, Busy)) + 1
        /\ Cardinality(Inside(pc, Busy)) \in Nat
    <3>1. "idle" \notin Busy /\ "drop" \in Busy
      BY DEF Busy, Places
    <3>2. \A P : /\ Cardinality(Inside(pc, P)) \in Nat
                   /\ Cardinality(Inside(pc', P)) = Cardinality(Inside(pc, P))
                        + (IF pc'[t] \in P THEN 1 ELSE 0) - (IF pc[t] \in P THEN 1 ELSE 0)
      BY <2>1, Counting
    <3> QED
      BY <2>1, <3>1, <3>2
  <2>3. CASE m_conns = <<>>
    <3>1. m_conns' = <<>>
      BY <1>1, <2>3, Drawn
    <3>2. ToSet(m_conns') = {}
      BY <3>1 DEF ToSet
    <3>3. Cardinality(ToSet(m_conns')) = 0
      BY <3>2, FS_EmptySet
    <3>4. Inside(pc', Busy) \subseteq Threads
      BY DEF Inside
    <3>5. /\ Cardinality(Inside(pc', Busy)) <= Cardinality(Threads)
          /\ Cardinality(Inside(pc', Busy)) \in Nat
      BY <2>2, <3>4, FS_Subset DEF PoolAssumption
    <3>6. Cardinality(ToSet(m_conns')) + Cardinality(Inside(pc', Busy)) <= Cardinality(Threads)
      BY <3>3, <3>5
    <3> QED
      BY <3>6 DEF Bounded, Inside, Busy, Places
  <2>4. CASE m_conns # <<>>
    <3>1. m_conns' = Tail(m_conns)
      BY <1>1, <2>4, Drawn
    <3>2. /\ m_conns[1] \in ToSet(m_conns) /\ m_conns[1] \notin ToSet(m_conns')
          /\ ToSet(m_conns') = ToSet(m_conns) \ {m_conns[1]}
      BY <2>4, <3>1, TailListed DEF Listed
    <3>3. /\ Cardinality(ToSet(m_conns')) = Cardinality(ToSet(m_conns)) - 1
          /\ Cardinality(ToSet(m_conns)) \in Nat /\ Cardinality(Threads) \in Nat
      BY <3>2, Finite, FS_RemoveElement
    <3>4. Cardinality(ToSet(m_conns')) + Cardinality(Inside(pc', Busy)) <= Cardinality(Threads)
      BY <2>2, <3>3 DEF Bounded
    <3> QED
      BY <3>4 DEF Bounded, Inside, Busy, Places
  <2> QED
    BY <2>3, <2>4
<1>2. ASSUME NEW t \in Threads, Drop(t) PROVE Bounded'
  <2>1. m_conns' = m_conns /\ \A u \in Threads \ {t} : pc'[u] = pc[u]
    <3>1. m_conns' = m_conns /\ \E x : pc' = [pc EXCEPT ![t] = x]
      BY <1>2, Dropped
    <3> QED
      BY <3>1 DEF PoolTypes
  <2>2. pc[t] \in Busy
    BY <1>2, Dropped DEF Busy, Places
  <2> QED
    BY <2>1, <2>2, BoundedKept
<1>3. ASSUME NEW t \in Threads, Connect(t) PROVE Bounded'
  <2>1. m_conns' = m_conns /\ \A u \in Threads \ {t} : pc'[u] = pc[u]
    BY <1>3 DEF Connect, Goto, poolVars, PoolTypes
  <2>2. pc'[t] \in Busy => pc[t] \in Busy
    BY <1>3 DEF Connect, Goto, PoolTypes, Busy, Places
  <2> QED
    BY <2>1, <2>2, BoundedKept
<1>4. ASSUME NEW t \in Threads, ConnectFails(t) PROVE Bounded'
  <2>1. m_conns' = m_conns /\ \A u \in Threads \ {t} : pc'[u] = pc[u]
    BY <1>4 DEF ConnectFails, Goto, poolVars, PoolTypes
  <2>2. pc'[t] \in Busy => pc[t] \in Busy
    BY <1>4 DEF ConnectFails, Goto, PoolTypes, Busy, Places
  <2> QED
    BY <2>1, <2>2, BoundedKept
<1>5. ASSUME NEW t \in Threads, Count(t) PROVE Bounded'
  <2>1. m_conns' = m_conns /\ \A u \in Threads \ {t} : pc'[u] = pc[u]
    BY <1>5 DEF Count, Goto, poolVars, PoolTypes
  <2>2. pc'[t] \in Busy => pc[t] \in Busy
    BY <1>5 DEF Count, Goto, PoolTypes, Busy, Places
  <2> QED
    BY <2>1, <2>2, BoundedKept
<1>6. ASSUME NEW t \in Threads, SendRequest(t) PROVE Bounded'
  <2>1. m_conns' = m_conns /\ \A u \in Threads \ {t} : pc'[u] = pc[u]
    BY <1>6 DEF SendRequest, Goto, poolVars, PoolTypes
  <2>2. pc'[t] \in Busy => pc[t] \in Busy
    BY <1>6 DEF SendRequest, Goto, PoolTypes, Busy, Places
  <2> QED
    BY <2>1, <2>2, BoundedKept
<1>7. ASSUME NEW t \in Threads, RecvResponse(t) PROVE Bounded'
  <2>1. m_conns' = m_conns /\ \A u \in Threads \ {t} : pc'[u] = pc[u]
    <3>1. m_conns' = m_conns /\ \E x : pc' = [pc EXCEPT ![t] = x]
      BY <1>7, Received
    <3> QED
      BY <3>1 DEF PoolTypes
  <2>2. pc[t] \in Busy
    BY <1>7, Received DEF Busy, Places
  <2> QED
    BY <2>1, <2>2, BoundedKept
<1>8. ASSUME NEW t \in Threads, RecvFails(t) PROVE Bounded'
  <2>1. m_conns' = m_conns /\ \A u \in Threads \ {t} : pc'[u] = pc[u]
    BY <1>8 DEF RecvFails, Goto, poolVars, PoolTypes
  <2>2. pc'[t] \in Busy => pc[t] \in Busy
    BY <1>8 DEF RecvFails, Goto, PoolTypes, Busy, Places
  <2> QED
    BY <2>1, <2>2, BoundedKept
<1>9. ASSUME NEW t \in Threads, RecvSpins(t) PROVE Bounded'
  <2>1. m_conns' = m_conns /\ \A u \in Threads \ {t} : pc'[u] = pc[u]
    BY <1>9 DEF RecvSpins, Goto, poolVars, PoolTypes
  <2>2. pc'[t] \in Busy => pc[t] \in Busy
    BY <1>9 DEF RecvSpins, Goto, PoolTypes, Busy, Places
  <2> QED
    BY <2>1, <2>2, BoundedKept
<1>10. ASSUME NEW t \in Threads, Release(t) PROVE Bounded'
  <2>0. /\ ptr[t] \in Conns /\ ptr[t] # NULL /\ ~ Listed(ptr[t]) /\ pc[t] = "release"
    BY <1>10, Holds DEF Release
  <2>1. CASE Reusable(ptr[t])
    <3>1. /\ m_conns' = Append(m_conns, ptr[t])
          /\ pc'[t] = "idle" /\ \A u \in Threads \ {t} : pc'[u] = pc[u]
      BY <1>10, <2>0, <2>1, Kept DEF PoolTypes
    <3>2. /\ Cardinality(Inside(pc', Busy)) = Cardinality(Inside(pc, Busy)) - 1
          /\ Cardinality(Inside(pc, Busy)) \in Nat
      <4>1. "idle" \notin Busy /\ "release" \in Busy
        BY DEF Busy, Places
      <4>2. \A P : /\ Cardinality(Inside(pc, P)) \in Nat
                     /\ Cardinality(Inside(pc', P)) = Cardinality(Inside(pc, P))
                          + (IF pc'[t] \in P THEN 1 ELSE 0) - (IF pc[t] \in P THEN 1 ELSE 0)
        BY <3>1, Counting
      <4> QED
        BY <2>0, <3>1, <4>1, <4>2
    <3>3. ToSet(m_conns') = ToSet(m_conns) \cup {ptr[t]} /\ ptr[t] \notin ToSet(m_conns)
      BY <2>0, <3>1, AppendListed DEF Listed
    <3>4. /\ Cardinality(ToSet(m_conns')) = Cardinality(ToSet(m_conns)) + 1
          /\ Cardinality(ToSet(m_conns)) \in Nat /\ Cardinality(Threads) \in Nat
      BY <3>3, Finite, FS_AddElement
    <3>5. Cardinality(ToSet(m_conns')) + Cardinality(Inside(pc', Busy)) <= Cardinality(Threads)
      BY <3>2, <3>4 DEF Bounded
    <3> QED
      BY <3>5 DEF Bounded, Inside, Busy, Places
  <2>2. CASE ~ Reusable(ptr[t])
    <3>1. m_conns' = m_conns /\ pc'[t] = "uncount" /\ \A u \in Threads \ {t} : pc'[u] = pc[u]
      <4>1. m_conns' = m_conns /\ pc' = [pc EXCEPT ![t] = "uncount"]
        BY <1>10, <2>0, <2>2, Deleted
      <4> QED
        BY <4>1 DEF PoolTypes
    <3>2. pc'[t] \notin Busy
      BY <3>1 DEF Busy, Places
    <3> QED
      BY <3>1, <3>2, BoundedKept
  <2> QED
    BY <2>1, <2>2
<1>11. ASSUME NEW t \in Threads, Uncount(t) PROVE Bounded'
  <2>1. m_conns' = m_conns /\ \A u \in Threads \ {t} : pc'[u] = pc[u]
    BY <1>11 DEF Uncount, Goto, poolVars, PoolTypes
  <2>2. pc'[t] \in Busy => pc[t] \in Busy
    BY <1>11 DEF Uncount, Goto, PoolTypes, Busy, Places
  <2> QED
    BY <2>1, <2>2, BoundedKept
<1>12. ASSUME NEW c \in Conns, Answer(c) PROVE Bounded'
  BY <1>12 DEF Answer, poolVars, Bounded, Inside, Busy, Places
<1>13. ASSUME NEW c \in Conns, NEW how \in {"fin", "rst"}, Close(c, how) PROVE Bounded'
  BY <1>13 DEF Close, poolVars, Bounded, Inside, Busy, Places
<1>14. ASSUME UNCHANGED vars PROVE Bounded'
  BY <1>14 DEF vars, Bounded, Inside, Busy, Places
<1> QED
  BY <1>1, <1>2, <1>3, <1>4, <1>5, <1>6, <1>7, <1>8, <1>9, <1>10, <1>11, <1>12, <1>13,
      <1>14 DEF Next, Step

\* The balance of a step of one thread.
LEMMA CountedMove ==
  ASSUME PoolAssumption, PoolTypes, Counted, NEW t \in Threads, NEW dm \in Int, NEW dl \in Int,
         \A u \in Threads \ {t} : pc'[u] = pc[u],
         m_total' = m_total + dm, Cardinality(Live') = Cardinality(Live) + dl,
         dm = dl - (IF pc'[t] = "count" THEN 1 ELSE 0) + (IF pc[t] = "count" THEN 1 ELSE 0)
                 + (IF pc'[t] = "uncount" THEN 1 ELSE 0) - (IF pc[t] = "uncount" THEN 1 ELSE 0)
  PROVE  Counted'
<1>1. \A P : /\ Cardinality(Inside(pc, P)) \in Nat
             /\ Cardinality(Inside(pc', P)) = Cardinality(Inside(pc, P))
                  + (IF pc'[t] \in P THEN 1 ELSE 0) - (IF pc[t] \in P THEN 1 ELSE 0)
  BY Counting
<1>2. /\ Cardinality(Inside(pc, {"count"})) \in Nat
      /\ Cardinality(Inside(pc', {"count"})) = Cardinality(Inside(pc, {"count"}))
           + (IF pc'[t] = "count" THEN 1 ELSE 0) - (IF pc[t] = "count" THEN 1 ELSE 0)
  BY <1>1
<1>3. /\ Cardinality(Inside(pc, {"uncount"})) \in Nat
      /\ Cardinality(Inside(pc', {"uncount"})) = Cardinality(Inside(pc, {"uncount"}))
           + (IF pc'[t] = "uncount" THEN 1 ELSE 0) - (IF pc[t] = "uncount" THEN 1 ELSE 0)
  BY <1>1
<1>4. Cardinality(Live) \in Nat /\ m_total \in Int
  BY Finite DEF PoolTypes
<1>5. m_total' = Cardinality(Live') - Cardinality(Inside(pc', {"count"}))
                   + Cardinality(Inside(pc', {"uncount"}))
  BY <1>2, <1>3, <1>4 DEF Counted
<1> QED
  BY <1>5 DEF Counted, Inside

\* A step that neither makes nor counts a connection.
LEMMA CountedKept ==
  ASSUME PoolAssumption, PoolTypes, Counted, NEW t \in Threads, m_total' = m_total,
         \A c \in Conns : conn'[c].state = conn[c].state,
         \A u \in Threads \ {t} : pc'[u] = pc[u],
         pc[t] \notin {"count", "uncount"}, pc'[t] \notin {"count", "uncount"}
  PROVE  Counted'
<1>1. Live' = Live
  BY DEF Live
<1>2. /\ Inside(pc', {"count"}) = Inside(pc, {"count"})
      /\ Inside(pc', {"uncount"}) = Inside(pc, {"uncount"})
  BY DEF Inside
<1>3. Inside(pc, {"count"})' = Inside(pc', {"count"})
  BY DEF Inside
<1>4. Inside(pc, {"uncount"})' = Inside(pc', {"uncount"})
  BY DEF Inside
<1> QED
  BY <1>1, <1>2, <1>3, <1>4 DEF Counted

\* m_total counts the connections but for the steps in between.
LEMMA StepCounted ==
  ASSUME PoolAssumption, ClockAssumption, PoolInv, [Next]_vars
  PROVE  Counted'
<1>0. /\ PoolTypes /\ Distinct /\ Located /\ Holding /\ Unused /\ RequestsCounted /\ Clean
      /\ Served
      /\ Answered /\ Bounded /\ Counted
  BY DEF PoolInv
<1> USE <1>0
<1>1. ASSUME NEW t \in Threads, GetConnection(t) PROVE Counted'
  <2>1. /\ pc[t] = "idle" /\ pc'[t] = "drop" /\ \A u \in Threads \ {t} : pc'[u] = pc[u]
        /\ m_total' = m_total /\ conn' = conn
    BY <1>1, Drawn DEF PoolTypes
  <2> QED
    BY <2>1, CountedKept
<1>2. ASSUME NEW t \in Threads, Drop(t) PROVE Counted'
  <2>1. /\ pc[t] = "drop" /\ pc'[t] \in {"connect", "send"}
        /\ \A u \in Threads \ {t} : pc'[u] = pc[u]
        /\ m_total' = m_total /\ conn' = conn
    BY <1>2, Dropped DEF PoolTypes
  <2> QED
    BY <2>1, CountedKept
<1>3. ASSUME NEW t \in Threads, Connect(t) PROVE Counted'
  <2>1. PICK c \in Conns :
          /\ conn[c].state = "none" /\ ptr' = [ptr EXCEPT ![t] = c]
          /\ conn' = [conn EXCEPT ![c] = [state |-> "live", isConnected |-> TRUE, m_request |-> 0]]
    BY <1>3 DEF Connect
  <2>2. /\ conn'[c].state = "live" /\ \A d \in Conns \ {c} : conn'[d] = conn[d]
    BY <2>1 DEF PoolTypes
  <2>3. Live' = Live \cup {c} /\ c \notin Live
    BY <2>1, <2>2 DEF Live
  <2>4. Cardinality(Live') = Cardinality(Live) + 1
    BY <2>3, Finite, FS_AddElement
  <2>5. /\ m_total' = m_total + 0 /\ \A u \in Threads \ {t} : pc'[u] = pc[u]
        /\ pc[t] = "connect" /\ pc'[t] = "count"
    BY <1>3 DEF Connect, Goto, PoolTypes
  <2> QED
    BY <2>4, <2>5, CountedMove
<1>4. ASSUME NEW t \in Threads, ConnectFails(t) PROVE Counted'
  <2>1. /\ m_total' = m_total /\ conn' = conn
        /\ \A u \in Threads \ {t} : pc'[u] = pc[u]
        /\ pc[t] \notin {"count", "uncount"} /\ pc'[t] \notin {"count", "uncount"}
    BY <1>4 DEF ConnectFails, Goto, poolVars, PoolTypes
  <2> QED
    BY <2>1, CountedKept
<1>5. ASSUME NEW t \in Threads, Count(t) PROVE Counted'
  <2>1. /\ m_total' = m_total + 1 /\ \A u \in Threads \ {t} : pc'[u] = pc[u]
        /\ pc[t] = "count" /\ pc'[t] = "send"
    BY <1>5 DEF Count, Goto, PoolTypes
  <2>2. Live' = Live
    BY <1>5 DEF Count, Live
  <2>3. Cardinality(Live') = Cardinality(Live) + 0
    BY <2>2, Finite
  <2> QED
    BY <2>1, <2>3, CountedMove
<1>6. ASSUME NEW t \in Threads, SendRequest(t) PROVE Counted'
  <2>1. /\ m_total' = m_total /\ conn' = conn
        /\ \A u \in Threads \ {t} : pc'[u] = pc[u]
        /\ pc[t] \notin {"count", "uncount"} /\ pc'[t] \notin {"count", "uncount"}
    BY <1>6 DEF SendRequest, Goto, poolVars, PoolTypes
  <2> QED
    BY <2>1, CountedKept
<1>7. ASSUME NEW t \in Threads, RecvResponse(t) PROVE Counted'
  <2>1. /\ pc[t] = "recv" /\ pc'[t] = "release" /\ \A u \in Threads \ {t} : pc'[u] = pc[u]
        /\ m_total' = m_total /\ conn' = conn
    <3>1. /\ pc[t] = "recv" /\ pc' = [pc EXCEPT ![t] = "release"]
          /\ m_total' = m_total /\ conn' = conn
      BY <1>7, Received
    <3> QED
      BY <3>1 DEF PoolTypes
  <2> QED
    BY <2>1, CountedKept
<1>8. ASSUME NEW t \in Threads, RecvFails(t) PROVE Counted'
  <2>0. \A c \in Conns : conn'[c].state = conn[c].state
    <3>1. conn' = [conn EXCEPT ![ptr[t]] = [conn[ptr[t]] EXCEPT !.isConnected = FALSE]]
      BY <1>8 DEF RecvFails
    <3> QED
      BY <1>8, <3>1, CountFacts DEF PoolTypes
  <2>1. /\ m_total' = m_total /\ \A u \in Threads \ {t} : pc'[u] = pc[u]
        /\ pc[t] = "recv" /\ pc'[t] = "release"
    BY <1>8 DEF RecvFails, Goto, PoolTypes
  <2> QED
    BY <2>0, <2>1, CountedKept
<1>9. ASSUME NEW t \in Threads, RecvSpins(t) PROVE Counted'
  <2>1. /\ m_total' = m_total /\ conn' = conn
        /\ \A u \in Threads \ {t} : pc'[u] = pc[u]
        /\ pc[t] \notin {"count", "uncount"} /\ pc'[t] \notin {"count", "uncount"}
    BY <1>9 DEF RecvSpins, Goto, poolVars, PoolTypes
  <2> QED
    BY <2>1, CountedKept
<1>10. ASSUME NEW t \in Threads, Release(t) PROVE Counted'
  <2>0. /\ ptr[t] \in Conns /\ ptr[t] # NULL /\ conn[ptr[t]].state = "live"
        /\ conn[ptr[t]] \in ConnRecords /\ pc[t] = "release"
    BY <1>10, Holds DEF Release, PoolTypes
  <2>1. CASE Reusable(ptr[t])
    <3>1. conn' = [conn EXCEPT ![ptr[t]] = [conn[ptr[t]] EXCEPT !.m_request = @ + 1]]
      BY <1>10, <2>0, <2>1, Kept
    <3>2. \A d \in Conns : conn'[d].state = conn[d].state
      BY <2>0, <3>1, CountFacts DEF PoolTypes
    <3>3. /\ m_total' = m_total /\ pc'[t] = "idle" /\ \A u \in Threads \ {t} : pc'[u] = pc[u]
      BY <1>10, <2>0, <2>1, Kept DEF PoolTypes
    <3> QED
      BY <2>0, <3>2, <3>3, CountedKept
  <2>2. CASE ~ Reusable(ptr[t])
    <3>1. conn' = [conn EXCEPT ![ptr[t]] =
            [conn[ptr[t]] EXCEPT !.m_request = @ + 1, !.state = "deleted"]]
      BY <1>10, <2>0, <2>2, Deleted
    <3>2. /\ conn'[ptr[t]].state = "deleted"
          /\ \A d \in Conns \ {ptr[t]} : conn'[d] = conn[d]
      BY <2>0, <3>1, CountFacts DEF PoolTypes
    <3>3. Live' = Live \ {ptr[t]} /\ ptr[t] \in Live
      BY <2>0, <3>2 DEF Live
    <3>4. Cardinality(Live') = Cardinality(Live) + (-1)
      BY <3>3, Finite, FS_RemoveElement
    <3>5. /\ m_total' = m_total + 0 /\ pc'[t] = "uncount"
          /\ \A u \in Threads \ {t} : pc'[u] = pc[u]
      <4>1. m_total' = m_total /\ pc' = [pc EXCEPT ![t] = "uncount"]
        BY <1>10, <2>0, <2>2, Deleted
      <4> QED
        BY <4>1 DEF PoolTypes
    <3> QED
      BY <2>0, <3>4, <3>5, CountedMove
  <2> QED
    BY <2>1, <2>2
<1>11. ASSUME NEW t \in Threads, Uncount(t) PROVE Counted'
  <2>1. /\ m_total' = m_total + (-1) /\ \A u \in Threads \ {t} : pc'[u] = pc[u]
        /\ pc[t] = "uncount" /\ pc'[t] = "idle"
    BY <1>11 DEF Uncount, Goto, PoolTypes
  <2>2. Live' = Live
    BY <1>11 DEF Uncount, Live
  <2>3. Cardinality(Live') = Cardinality(Live) + 0
    BY <2>2, Finite
  <2> QED
    BY <2>1, <2>3, CountedMove
<1>12. ASSUME NEW c \in Conns, Answer(c) PROVE Counted'
  <2>1. UNCHANGED <<m_total, pc, conn>>
    BY <1>12 DEF Answer, poolVars
  <2> QED
    BY <2>1 DEF Counted, Live, Inside
<1>13. ASSUME NEW c \in Conns, NEW how \in {"fin", "rst"}, Close(c, how) PROVE Counted'
  <2>1. UNCHANGED <<m_total, pc, conn>>
    BY <1>13 DEF Close, poolVars
  <2> QED
    BY <2>1 DEF Counted, Live, Inside
<1>14. ASSUME UNCHANGED vars PROVE Counted'
  BY <1>14 DEF vars, Counted, Live, Inside
<1> QED
  BY <1>1, <1>2, <1>3, <1>4, <1>5, <1>6, <1>7, <1>8, <1>9, <1>10, <1>11, <1>12, <1>13,
      <1>14 DEF Next, Step

-----------------------------------------------------------------------------
(* The theorems. *)

\* The invariant holds initially.
LEMMA PoolInit == PoolAssumption /\ Init => PoolInv
<1> SUFFICES ASSUME PoolAssumption, Init PROVE PoolInv
  OBVIOUS
<1>1. PoolTypes
  BY PoolInitTypes
<1>2. /\ m_conns = <<>> /\ m_total = 0 /\ \A t \in Threads : pc[t] = "idle" /\ ptr[t] = NULL
      /\ \A c \in Conns : conn[c].state = "none" /\ conn[c].m_request = 0
      /\ \A c \in Conns : asked[c] = <<>> /\ wire[c] = <<>> /\ c # NULL
      /\ \A t \in Threads : request[t].n = 0 /\ request[t].to = <<t, 0>> /\ ~ request[t].reused
  BY DEF Init, Conns, NULL
<1>3. \A c : ~ Listed(c)
  BY <1>2 DEF Listed, ToSet
<1>4. Distinct /\ Located
  BY <1>2, <1>3 DEF Distinct, Located
<1>5. Holding /\ Unused
  BY <1>2 DEF Holding, Unused
<1>6. RequestsCounted
  BY <1>2 DEF RequestsCounted, MostRequests, PoolAssumption
<1>7. Clean /\ Served /\ Answered
  BY <1>2, <1>3 DEF Clean, Served, Serving, Answered
<1>8. Live = {} /\ ToSet(m_conns) = {} /\ Inside(pc, Busy) = {}
      /\ Inside(pc, {"count"}) = {} /\ Inside(pc, {"uncount"}) = {}
  BY <1>2 DEF Live, ToSet, Inside, Busy
<1>9. Cardinality({}) = 0 /\ Cardinality(Threads) \in Nat
  BY FS_EmptySet, FS_CardinalityType DEF PoolAssumption
<1>10. Bounded
  BY <1>8, <1>9 DEF Bounded
<1>11. Counted
  <2>1. /\ Cardinality(Live) = 0 /\ Cardinality(Inside(pc, {"count"})) = 0
        /\ Cardinality(Inside(pc, {"uncount"})) = 0
    BY <1>8, <1>9
  <2> QED
    BY <1>2, <2>1 DEF Counted
<1> QED
  BY <1>1, <1>4, <1>5, <1>6, <1>7, <1>10, <1>11 DEF PoolInv

\* Every step keeps the invariant.
LEMMA PoolNext ==
  ASSUME PoolAssumption, ClockAssumption, PoolInv, [Next]_vars
  PROVE  PoolInv'
<1>1. PoolTypes'
  BY PoolStepTypes
<1>2. Distinct' /\ Located' /\ RequestsCounted'
  BY StepLocated, StepRequestsCounted
<1>3. Holding' /\ Unused'
  BY StepHolding
<1>4. Clean' /\ Served' /\ Answered'
  BY StepClean, StepServed, StepAnswered
<1>5. Bounded' /\ Counted'
  BY StepBounded, StepCounted
<1> QED
  BY <1>1, <1>2, <1>3, <1>4, <1>5 DEF PoolInv

\* The invariant holds in every behaviour.
LEMMA PoolInvariance == PoolAssumption /\ ClockAssumption => (Spec => []PoolInv)
<1>1. PoolAssumption /\ Init => PoolInv
  BY PoolInit
<1>2. PoolAssumption /\ ClockAssumption /\ PoolInv /\ [Next]_vars => PoolInv'
  BY PoolNext
<1>3. (PoolAssumption => PoolAssumption') /\ (ClockAssumption => ClockAssumption')
  BY DEF PoolAssumption, ClockAssumption
<1> QED
  BY <1>1, <1>2, <1>3, PTL DEF Spec

\* The variables have their types; a connection has served no more requests
\* than it may when it is given back.
LEMMA PoolTypeOK == ASSUME PoolAssumption, PoolInv PROVE TypeOK
<1>1. PoolTypes /\ RequestsCounted
  BY DEF PoolInv
<1>2. conn \in [Conns -> [state: {"none", "live", "deleted"}, isConnected: BOOLEAN,
                          m_request: 0 .. MostRequests]]
  <2> SUFFICES ASSUME NEW c \in Conns
               PROVE  conn[c] \in [state: {"none", "live", "deleted"}, isConnected: BOOLEAN,
                                   m_request: 0 .. MostRequests]
    BY <1>1 DEF PoolTypes
  <2>1. conn[c] \in ConnRecords /\ conn[c].m_request <= MostRequests
    BY <1>1 DEF PoolTypes, RequestsCounted
  <2>2. conn[c].m_request \in 0 .. MostRequests
    <3>1. conn[c].m_request \in Nat
      BY <2>1, RecordFacts
    <3>2. MostRequests \in Nat
      BY DEF MostRequests, PoolAssumption
    <3> QED
      BY <2>1, <3>1, <3>2
  <2> QED
    BY <2>1, <2>2 DEF ConnRecords
<1>3. \A t \in Threads : invalid[t] \subseteq Conns /\ request[t].n \in 0 .. MaxRequests
  BY <1>1, RecordFacts DEF PoolTypes
<1> QED
  BY <1>1, <1>2, <1>3 DEF TypeOK, PoolTypes, Places, MostRequests

\* A thread that holds a connection, and it holds but one, is at work.
LEMMA HeldBusy ==
  ASSUME PoolAssumption, PoolTypes, Holding
  PROVE  /\ IsFiniteSet(Held) /\ Cardinality(Held) \in Nat
         /\ Cardinality(Held) <= Cardinality(Inside(pc, Busy))
<1> DEFINE Holders == {t \in Threads : ptr[t] # NULL}
           holder == [t \in Holders |-> ptr[t]]
<1>1. Holders \subseteq Inside(pc, Busy)
  BY DEF Holding, Inside, Busy, PoolTypes
<1>2. IsFiniteSet(Inside(pc, Busy))
  BY FS_Subset DEF Inside, PoolAssumption
<1>3. /\ IsFiniteSet(Holders) /\ Cardinality(Holders) <= Cardinality(Inside(pc, Busy))
      /\ Cardinality(Holders) \in Nat /\ Cardinality(Inside(pc, Busy)) \in Nat
  BY <1>1, <1>2, FS_Subset, FS_CardinalityType
<1>4. holder \in Surjection(Holders, Held)
  BY DEF Surjection, Held
<1>5. IsFiniteSet(Held) /\ Cardinality(Held) <= Cardinality(Holders)
  BY <1>3, <1>4, FS_Surjection
<1>6. Cardinality(Held) \in Nat
  BY <1>5, FS_CardinalityType
<1> QED
  BY <1>3, <1>5, <1>6

\* A connection is in one place and counted, there are never more than threads,
\* a listed one is connected, and a response is the one its request asked for.
LEMMA PoolIsExact == ASSUME PoolAssumption, PoolInv PROVE PoolExact
<1>0. /\ PoolTypes /\ Distinct /\ Located /\ Holding /\ Clean /\ Answered /\ Bounded /\ Counted
  BY DEF PoolInv
<1>1. IsInjective(m_conns)
  BY <1>0 DEF Distinct, IsInjective
<1>2. ToSet(m_conns) \cap Held = {}
  BY <1>0 DEF Located, Listed, Held
<1>3. \A t, u \in Threads : ptr[t] = ptr[u] /\ ptr[t] # NULL => t = u
  BY <1>0 DEF Located
<1>4. Live = ToSet(m_conns) \cup Held
  <2>1. ToSet(m_conns) \subseteq Conns /\ Held \subseteq Conns
    BY <1>0 DEF ToSet, Held, PoolTypes
  <2>2. \A c \in Conns : c \in Held <=> \E t \in Threads : ptr[t] = c
    BY DEF Held, Conns, NULL
  <2>3. \A c \in Conns : c \in Live <=> c \in ToSet(m_conns) \/ c \in Held
    BY <1>0, <2>2 DEF Live, Located, Listed
  <2> QED
    BY <2>1, <2>3 DEF Live
<1>5. m_total = Cardinality(Live) - At("count") + At("uncount")
  <2>1. /\ {t \in Threads : pc[t] = "count"} = Inside(pc, {"count"})
        /\ {t \in Threads : pc[t] = "uncount"} = Inside(pc, {"uncount"})
    BY DEF Inside
  <2> QED
    BY <1>0, <2>1 DEF Counted, At
<1>6. Cardinality(Live) <= Cardinality(Threads)
  <2>1. Cardinality(Live) = Cardinality(ToSet(m_conns)) + Cardinality(Held) - Cardinality({})
    BY <1>0, <1>2, <1>4, Finite, HeldBusy, FS_Union
  <2>2. Cardinality({}) = 0
    BY FS_EmptySet
  <2>3. /\ Cardinality(Held) \in Nat /\ Cardinality(Held) <= Cardinality(Inside(pc, Busy))
        /\ Cardinality(ToSet(m_conns)) \in Nat /\ Cardinality(Threads) \in Nat
        /\ Cardinality(Inside(pc, Busy)) \in Nat
    BY <1>0, Finite, HeldBusy
  <2> QED
    BY <1>0, <2>1, <2>2, <2>3 DEF Bounded
<1>7. \A c \in ToSet(m_conns) : conn[c].isConnected
  <2>1. ToSet(m_conns) \subseteq Conns
    BY <1>0 DEF ToSet, PoolTypes
  <2> QED
    BY <1>0, <2>1 DEF Clean, Quiet, Listed
<1>8. OnePlace
  BY <1>1, <1>2, <1>3, <1>4, <1>5 DEF OnePlace
<1> QED
  BY <1>0, <1>6, <1>7, <1>8 DEF PoolExact, Answered

\* TypeOK of the pool, for any number of threads and connections.
THEOREM TypeCorrect == PoolAssumption /\ ClockAssumption => (Spec => []TypeOK)
<1>1. PoolAssumption /\ PoolInv => TypeOK
  BY PoolTypeOK
<1>2. PoolAssumption => PoolAssumption'
  BY DEF PoolAssumption
<1> QED
  BY <1>1, <1>2, PoolInvariance, PTL

\* PoolExact: a connection is in one place and counted, there are never more
\* than threads, a listed one is connected, and whatever doRequest returns is
\* the response to its request, although connections are counted and deleted
\* outside the lock and the peer closes them when it likes.
THEOREM PoolCorrect == PoolAssumption /\ ClockAssumption => (Spec => []PoolExact)
<1>1. PoolAssumption /\ PoolInv => PoolExact
  BY PoolIsExact
<1>2. PoolAssumption => PoolAssumption'
  BY DEF PoolAssumption
<1> QED
  BY <1>1, <1>2, PoolInvariance, PTL
-----------------------------------------------------------------------------
(* Sequences, recursion and folds: what induction over the numbers shows.  *)

\* A set of numbers has a least one.
LEMMA Least ==
  ASSUME NEW T, T \subseteq Nat, T # {}
  PROVE  \E x \in T : \A y \in T : x <= y
<1> DEFINE R == OpToRel(<, Nat)
<1>1. IsWellFoundedOn(R, Nat)
  BY NatLessThanWellFounded
<1>2. PICK x \in T : \A y \in T : ~ (<<y, x>> \in R)
  <2> HIDE DEF R
  <2> QED
    BY <1>1, WFMin, Zenon
<1>3. \A y \in T : ~ (y < x)
  <2> TAKE y \in T
  <2>1. <<y, x>> \notin R /\ <<y, x>> \in Nat \X Nat
    BY <1>2
  <2> QED
    BY <2>1 DEF OpToRel
<1> QED
  BY <1>3

\* Induction: a set of numbers with 0 and every successor is all of them.
LEMMA Induction ==
  ASSUME NEW P, 0 \in P, \A n \in Nat : n \in P => n + 1 \in P
  PROVE  \A n \in Nat : n \in P
<1>1. SUFFICES ASSUME Nat \ P # {} PROVE FALSE
  OBVIOUS
<1>2. PICK x \in Nat \ P : \A y \in Nat \ P : x <= y
  BY <1>1, Least
<1>3. x # 0 /\ x - 1 \in Nat /\ x - 1 \notin Nat \ P
  BY <1>2
<1> QED
  BY <1>2, <1>3

\* The iterates of a function.
LEMMA Iterates ==
  ASSUME NEW V, NEW v \in V, NEW h \in [V -> V]
  PROVE  \E F \in [Nat -> V] : F[0] = v /\ \A n \in Nat : F[n + 1] = h[F[n]]
<1> DEFINE Upto(n, f) == f[0] = v /\ \A i \in 0 .. n - 1 : f[i + 1] = h[f[i]]
           P == {n \in Nat : \E f \in [0 .. n -> V] : Upto(n, f)}
<1>1. \A n \in Nat : n \in P
  <2>1. 0 \in P
    <3>1. [i \in 0 .. 0 |-> v] \in [0 .. 0 -> V] /\ Upto(0, [i \in 0 .. 0 |-> v])
      OBVIOUS
    <3> QED
      BY <3>1
  <2>2. ASSUME NEW n \in Nat, n \in P PROVE n + 1 \in P
    <3>1. PICK f \in [0 .. n -> V] : Upto(n, f)
      BY <2>2
    <3> DEFINE g == [i \in 0 .. n + 1 |-> IF i = n + 1 THEN h[f[n]] ELSE f[i]]
    <3>2. f[n] \in V /\ h[f[n]] \in V
      OBVIOUS
    <3>3. g \in [0 .. n + 1 -> V]
      BY <3>2
    <3>4. g[0] = v
      BY <3>1
    <3>5. \A i \in 0 .. n : g[i + 1] = h[g[i]]
      <4> TAKE i \in 0 .. n
      <4>1. CASE i = n
        BY <4>1
      <4>2. CASE i # n
        <5>1. i \in 0 .. n - 1 /\ i + 1 \in 0 .. n + 1 /\ i \in 0 .. n + 1
          BY <4>2
        <5>2. f[i + 1] = h[f[i]]
          BY <3>1, <5>1
        <5> QED
          BY <4>2, <5>1, <5>2
      <4> QED
        BY <4>1, <4>2
    <3>6. Upto(n + 1, g)
      <4> HIDE DEF g
      <4> QED
        BY <3>4, <3>5
    <3> HIDE DEF g, Upto
    <3> QED
      BY <3>3, <3>6
  <2> HIDE DEF P
  <2> QED
    BY <2>1, <2>2, Induction
<1> DEFINE Run(n) == CHOOSE f \in [0 .. n -> V] : Upto(n, f)
           F == [n \in Nat |-> Run(n)[n]]
<1>2. \A n \in Nat : Run(n) \in [0 .. n -> V] /\ Upto(n, Run(n))
  <2> HIDE DEF Upto
  <2> QED
    BY <1>1
<1>3. \A n \in Nat : Run(n)[0] = v /\ \A i \in 0 .. n - 1 : Run(n)[i + 1] = h[Run(n)[i]]
  <2> HIDE DEF Run
  <2> QED
    BY <1>2
<1>4. \A n \in Nat, k \in Nat, i \in Nat : i <= n /\ i <= k => Run(n)[i] = Run(k)[i]
  <2> HIDE DEF Run
  <2> DEFINE Q == {i \in Nat : \A n \in Nat, k \in Nat : i <= n /\ i <= k => Run(n)[i] = Run(k)[i]}
  <2>1. 0 \in Q
    BY <1>3
  <2>2. ASSUME NEW i \in Nat, i \in Q PROVE i + 1 \in Q
    <3>1. SUFFICES ASSUME NEW n \in Nat, NEW k \in Nat, i + 1 <= n, i + 1 <= k
                   PROVE  Run(n)[i + 1] = Run(k)[i + 1]
      OBVIOUS
    <3>2. Run(n)[i] = Run(k)[i] /\ i \in 0 .. n - 1 /\ i \in 0 .. k - 1
      BY <2>2, <3>1
    <3> QED
      BY <1>3, <3>2
  <2>3. \A i \in Nat : i \in Q
    <3> HIDE DEF Q
    <3> QED
      BY <2>1, <2>2, Induction
  <2> QED
    BY <2>3
<1>5. F \in [Nat -> V]
  <2> HIDE DEF Run
  <2>1. \A n \in Nat : Run(n)[n] \in V
    BY <1>2
  <2> QED
    BY <2>1
<1>6. F[0] = v
  <2> HIDE DEF Run
  <2> QED
    BY <1>3
<1>7. \A n \in Nat : F[n + 1] = h[F[n]]
  <2> HIDE DEF Run
  <2> TAKE n \in Nat
  <2>1. n + 1 \in Nat /\ n \in 0 .. (n + 1) - 1 /\ n <= n + 1
    OBVIOUS
  <2>2. Run(n + 1)[n + 1] = h[Run(n + 1)[n]]
    BY <1>3, <2>1
  <2>3. Run(n + 1)[n] = Run(n)[n]
    BY <1>4, <2>1
  <2> QED
    BY <2>1, <2>2, <2>3
<1> HIDE DEF F
<1> QED
  BY <1>5, <1>6, <1>7

\* The properties of h that the lemmas below ask for.  (As operators they are
\* named once, and the provers match them as a whole.)
Maps(h, V) == h \in [V -> V]

\* h can be applied to v again and again.
Iterable(h, V, v) ==
  \E F \in [Nat -> V] : F[0] = v /\ \A n \in Nat : F[n + 1] = h[F[n]]

\* Iterates, in these words.
LEMMA IteratesOf ==
  ASSUME NEW V, NEW v, v \in V, NEW h, Maps(h, V)
  PROVE  Iterable(h, V, v)
BY Iterates DEF Maps, Iterable

\* h says what the value at x is, given the values of smaller measure.
Recursive(h, m, D, V) ==
  /\ Maps(h, V) /\ m \in [D -> Nat]
  /\ \A F, G \in V : \A x \in D :
       (\A y \in D : m[y] < m[x] => F[y] = G[y]) => h[F][x] = h[G][x]

\* A definition by recursion has a solution when the value at x asks only for
\* values of a smaller measure.
LEMMA Recursion ==
  ASSUME NEW D, NEW W, NEW w \in W, NEW V, V = [D -> W], NEW h, NEW m, Recursive(h, m, D, V)
  PROVE  \E F \in V : F = h[F]
<1>0. /\ h \in [V -> V] /\ m \in [D -> Nat]
      /\ \A F, G \in V : \A x \in D :
           (\A y \in D : m[y] < m[x] => F[y] = G[y]) => h[F][x] = h[G][x]
  BY DEF Recursive, Maps
<1> USE <1>0
<1>1. [x \in D |-> w] \in V
  OBVIOUS
<1>2. PICK F \in [Nat -> V] : \A n \in Nat : F[n + 1] = h[F[n]]
  <2>1. PICK u : u \in V
    BY <1>1
  <2>2. Maps(h, V)
    BY DEF Recursive
  <2>3. Iterable(h, V, u)
    BY <2>1, <2>2, IteratesOf, Zenon
  <2> QED
    BY <2>3 DEF Iterable
<1>3. \A n \in Nat : F[n] \in V
  OBVIOUS
<1>4. \A n \in Nat : \A x \in D : m[x] < n => F[n + 1][x] = F[n][x]
  <2> DEFINE Q == {n \in Nat : \A x \in D : m[x] < n => F[n + 1][x] = F[n][x]}
  <2>1. 0 \in Q
    OBVIOUS
  <2>2. ASSUME NEW n \in Nat, n \in Q PROVE n + 1 \in Q
    <3>1. SUFFICES ASSUME NEW x \in D, m[x] < n + 1 PROVE F[(n + 1) + 1][x] = F[n + 1][x]
      OBVIOUS
    <3>2. \A y \in D : m[y] < m[x] => F[n + 1][y] = F[n][y]
      <4> TAKE y \in D
      <4>1. m[x] \in Nat /\ m[y] \in Nat
        OBVIOUS
      <4> QED
        BY <2>2, <3>1, <4>1
    <3>3. F[n + 1] \in V /\ F[n] \in V /\ n + 1 \in Nat
      BY <1>3
    <3>4. h[F[n + 1]][x] = h[F[n]][x]
      BY <3>2, <3>3
    <3> QED
      BY <1>2, <3>3, <3>4
  <2>3. \A n \in Nat : n \in Q
    <3> HIDE DEF Q
    <3> QED
      BY <2>1, <2>2, Induction
  <2> QED
    BY <2>3
<1>5. \A x \in D : \A k \in Nat : F[(m[x] + 1) + k][x] = F[m[x] + 1][x]
  <2> TAKE x \in D
  <2> DEFINE Q == {k \in Nat : F[(m[x] + 1) + k][x] = F[m[x] + 1][x]}
  <2>0. m[x] \in Nat
    OBVIOUS
  <2>1. 0 \in Q
    <3>1. (m[x] + 1) + 0 = m[x] + 1
      BY <2>0
    <3> QED
      BY <3>1
  <2>2. ASSUME NEW k \in Nat, k \in Q PROVE k + 1 \in Q
    <3>1. (m[x] + 1) + k \in Nat /\ m[x] < (m[x] + 1) + k
          /\ ((m[x] + 1) + k) + 1 = (m[x] + 1) + (k + 1)
      BY <2>0
    <3>2. F[((m[x] + 1) + k) + 1][x] = F[(m[x] + 1) + k][x]
      BY <1>4, <3>1
    <3> QED
      BY <2>2, <3>1, <3>2
  <2>3. \A k \in Nat : k \in Q
    <3> HIDE DEF Q
    <3> QED
      BY <2>1, <2>2, Induction
  <2> QED
    BY <2>3
<1> DEFINE G == [x \in D |-> F[m[x] + 1][x]]
<1>6. G \in V
  <2>1. \A x \in D : m[x] + 1 \in Nat
    OBVIOUS
  <2>2. \A x \in D : F[m[x] + 1][x] \in W
    BY <1>3, <2>1
  <2> QED
    BY <2>2
<1>7. ASSUME NEW x \in D PROVE G[x] = h[G][x]
  <2>1. \A y \in D : m[y] < m[x] => G[y] = F[m[x]][y]
    <3> SUFFICES ASSUME NEW y \in D, m[y] < m[x] PROVE G[y] = F[m[x]][y]
      OBVIOUS
    <3>1. m[x] \in Nat /\ m[y] \in Nat
      OBVIOUS
    <3>2. m[x] - (m[y] + 1) \in Nat /\ (m[y] + 1) + (m[x] - (m[y] + 1)) = m[x]
      BY <3>1
    <3>3. F[(m[y] + 1) + (m[x] - (m[y] + 1))][y] = F[m[y] + 1][y]
      BY <1>5, <3>2
    <3> QED
      BY <3>2, <3>3
  <2>2. m[x] \in Nat /\ F[m[x]] \in V
    BY <1>3
  <2> HIDE DEF G
  <2>3. h[G][x] = h[F[m[x]]][x]
    BY <1>6, <2>1, <2>2
  <2>4. F[m[x] + 1] = h[F[m[x]]]
    BY <1>2, <2>2
  <2> QED
    BY <2>3, <2>4 DEF G
<1> HIDE DEF G
<1>8. h[G] \in V
  BY <1>6
<1>9. G = h[G]
  BY <1>6, <1>7, <1>8
<1> QED
  BY <1>6, <1>9

\* A definition by recursion whose values are numbers has a solution.
LEMMA RecursionOfNumbers ==
  ASSUME NEW D, NEW V, V = [D -> Nat], NEW h, NEW m, Recursive(h, m, D, V)
  PROVE  \E F \in V : F = h[F]
<1>1. PICK w \in Nat : w = 0
  OBVIOUS
<1> QED
  BY <1>1, Recursion

\* Two sequences are equal when their elements are.
LEMMA SameSequence ==
  ASSUME NEW S, NEW p \in Seq(S), NEW q \in Seq(S), Len(p) = Len(q),
         \A i \in 1 .. Len(p) : p[i] = q[i]
  PROVE  p = q
OBVIOUS

\* The pieces up to one of them, one behind the other.
Flattens(f, Q) ==
  f = [i \in 1 .. Len(Q) |-> IF i = 1 THEN Q[i] ELSE f[i - 1] \o Q[i]]

\* A function that flattens step by step, as the definition of FlattenSeq
\* chooses one.
LEMMA FlattenExists ==
  ASSUME NEW S, NEW Q \in Seq(Seq(S)), Q # <<>>
  PROVE  \E f : Flattens(f, Q)
<1> DEFINE D == 1 .. Len(Q)
           W == Seq(S)
           V == [D -> W]
           Unfold(F, i) == IF i = 1 THEN Q[i] ELSE F[i - 1] \o Q[i]
           h == [F \in V |-> [i \in D |-> Unfold(F, i)]]
           m == [i \in D |-> i]
<1>0. Len(Q) \in Nat /\ D \subseteq Nat /\ \A i \in D : Q[i] \in W /\ i \in Nat
  OBVIOUS
<1> HIDE DEF W
<1>1. \A F \in V, i \in D : Unfold(F, i) \in W
  <2> TAKE F \in V, i \in D
  <2>1. CASE i = 1
    BY <1>0, <2>1
  <2>2. CASE i # 1
    <3>1. i - 1 \in D
      BY <2>2
    <3>2. F[i - 1] \in W /\ Q[i] \in W
      BY <1>0, <3>1
    <3>3. F[i - 1] \o Q[i] \in W
      BY <3>2 DEF W
    <3> QED
      BY <2>2, <3>3
  <2> QED
    BY <2>1, <2>2
<1>2. h \in [V -> V]
  <2> HIDE DEF D, Unfold
  <2> QED
    BY <1>1
<1>3. m \in [D -> Nat]
  BY <1>0
<1>4. \A F, G \in V : \A i \in D :
        (\A y \in D : m[y] < m[i] => F[y] = G[y]) => h[F][i] = h[G][i]
  <2> SUFFICES ASSUME NEW F \in V, NEW G \in V, NEW i \in D,
                      \A y \in D : m[y] < m[i] => F[y] = G[y]
               PROVE  h[F][i] = h[G][i]
    OBVIOUS
  <2>1. Unfold(F, i) = Unfold(G, i)
    <3>1. i # 1 => i - 1 \in D /\ m[i - 1] < m[i]
      OBVIOUS
    <3>2. i # 1 => F[i - 1] = G[i - 1]
      <4> HIDE DEF D, m
      <4> QED
        BY <3>1
    <3> QED
      BY <3>2
  <2>2. h[F][i] = Unfold(F, i) /\ h[G][i] = Unfold(G, i)
    <3> HIDE DEF V, D, Unfold
    <3> QED
      OBVIOUS
  <2> QED
    BY <2>1, <2>2
<1>5. PICK F \in V : F = h[F]
  <2>1. \E w : w \in W
    BY <1>0 DEF W
  <2>2. V = [D -> W]
    OBVIOUS
  <2> HIDE DEF D, V, h, m
  <2>3. Recursive(h, m, D, V)
    BY <1>2, <1>3, <1>4 DEF Recursive, Maps
  <2> QED
    BY <2>1, <2>2, <2>3, Recursion
<1>6. F = [i \in D |-> Unfold(F, i)]
  <2> HIDE DEF V, D, Unfold
  <2> QED
    BY <1>5
<1> QED
  BY <1>6 DEF Flattens

\* FlattenSeq by the sequences one after the other.
LEMMA FlattenOf ==
  ASSUME NEW S, NEW Q \in Seq(Seq(S)), Q # <<>>
  PROVE  \E f \in [1 .. Len(Q) -> Seq(S)] :
           /\ f[1] = Q[1] /\ \A i \in 2 .. Len(Q) : f[i] = f[i - 1] \o Q[i]
           /\ FlattenSeq(Q) = f[Len(Q)]
<1> DEFINE c == CHOOSE f : Flattens(f, Q)
<1>0. Len(Q) \in Nat \ {0} /\ \A i \in 1 .. Len(Q) : Q[i] \in Seq(S)
  OBVIOUS
<1>1. Flattens(c, Q)
  BY FlattenExists, Zenon
<1>2. FlattenSeq(Q) = c[Len(Q)]
  <2>1. Len(Q) # 0
    BY <1>0
  <2> QED
    BY <2>1, Zenon DEF FlattenSeq, Flattens
<1> HIDE DEF c
<1>3. DOMAIN c = 1 .. Len(Q) /\ c[1] = Q[1] /\ \A i \in 2 .. Len(Q) : c[i] = c[i - 1] \o Q[i]
  <2>1. c = [i \in 1 .. Len(Q) |-> IF i = 1 THEN Q[i] ELSE c[i - 1] \o Q[i]]
    BY <1>1 DEF Flattens
  <2>2. DOMAIN c = 1 .. Len(Q)
    BY <2>1, Zenon
  <2>3. \A i \in 1 .. Len(Q) : c[i] = IF i = 1 THEN Q[i] ELSE c[i - 1] \o Q[i]
    BY <2>1, Zenon
  <2>4. c[1] = Q[1]
    BY <1>0, <2>3
  <2>5. ASSUME NEW i \in 2 .. Len(Q) PROVE c[i] = c[i - 1] \o Q[i]
    <3>1. i \in 1 .. Len(Q) /\ i # 1
      BY <1>0
    <3> QED
      BY <2>3, <3>1, Zenon
  <2> QED
    BY <2>2, <2>4, <2>5
<1>4. \A i \in 1 .. Len(Q) : c[i] \in Seq(S)
  <2> DEFINE P == {k \in Nat : k + 1 \in 1 .. Len(Q) => c[k + 1] \in Seq(S)}
  <2>1. 0 \in P
    BY <1>0, <1>3
  <2>2. ASSUME NEW k \in Nat, k \in P PROVE k + 1 \in P
    <3> SUFFICES ASSUME (k + 1) + 1 \in 1 .. Len(Q) PROVE c[(k + 1) + 1] \in Seq(S)
      OBVIOUS
    <3>1. k + 1 \in 1 .. Len(Q) /\ (k + 1) + 1 \in 2 .. Len(Q) /\ ((k + 1) + 1) - 1 = k + 1
      BY <1>0
    <3>2. c[k + 1] \in Seq(S) /\ Q[(k + 1) + 1] \in Seq(S)
      BY <1>0, <2>2, <3>1
    <3>3. c[(k + 1) + 1] = c[k + 1] \o Q[(k + 1) + 1]
      BY <1>3, <3>1
    <3> QED
      BY <3>2, <3>3
  <2>3. \A k \in Nat : k \in P
    <3> HIDE DEF P
    <3> QED
      BY <2>1, <2>2, Induction
  <2> TAKE i \in 1 .. Len(Q)
  <2>4. i - 1 \in Nat /\ (i - 1) + 1 = i
    OBVIOUS
  <2> QED
    BY <2>3, <2>4
<1>5. c \in [1 .. Len(Q) -> Seq(S)]
  <2>1. c = [i \in 1 .. Len(Q) |-> c[i]]
    BY <1>1, <1>3 DEF Flattens
  <2> QED
    BY <1>4, <2>1
<1> QED
  BY <1>2, <1>3, <1>5

\* What is in front of each piece, and what is in it.
Pieced(F, Q, S) ==
  /\ F \in [0 .. Len(Q) -> Seq(S)] /\ F[0] = <<>>
  /\ \A i \in 1 .. Len(Q) : F[i] = F[i - 1] \o Q[i]

\* FlattenSeq of a sequence of sequences is the last of its prefixes.
LEMMA FlattenPieces ==
  ASSUME NEW S, NEW Q \in Seq(Seq(S))
  PROVE  \E F : Pieced(F, Q, S) /\ FlattenSeq(Q) = F[Len(Q)]
<1>1. CASE Q = <<>>
  <2> DEFINE F == [i \in 0 .. 0 |-> <<>>]
  <2>1. Len(Q) = 0 /\ FlattenSeq(Q) = <<>>
    BY <1>1 DEF FlattenSeq
  <2>2. <<>> \in Seq(S)
    OBVIOUS
  <2>3. F \in [0 .. 0 -> Seq(S)] /\ F[0] = <<>>
    BY <2>2
  <2> HIDE DEF F
  <2> QED
    BY <2>1, <2>3 DEF Pieced
<1>2. CASE Q # <<>>
  <2>1. PICK f \in [1 .. Len(Q) -> Seq(S)] :
           /\ f[1] = Q[1] /\ \A i \in 2 .. Len(Q) : f[i] = f[i - 1] \o Q[i]
           /\ FlattenSeq(Q) = f[Len(Q)]
    BY <1>2, FlattenOf
  <2>2. Len(Q) \in Nat \ {0} /\ \A i \in 1 .. Len(Q) : Q[i] \in Seq(S)
    BY <1>2
  <2> DEFINE F == [i \in 0 .. Len(Q) |-> IF i = 0 THEN <<>> ELSE f[i]]
             W == Seq(S)
  <2>3. F \in [0 .. Len(Q) -> W] /\ F[0] = <<>> /\ \A i \in 1 .. Len(Q) : F[i] = f[i]
    <3>1. <<>> \in W /\ f \in [1 .. Len(Q) -> W]
      OBVIOUS
    <3> HIDE DEF W
    <3> QED
      BY <2>2, <3>1
  <2> HIDE DEF F
  <2>4. ASSUME NEW i \in 1 .. Len(Q) PROVE F[i] = F[i - 1] \o Q[i]
    <3>1. CASE i = 1
      <4>1. <<>> \o Q[1] = Q[1]
        BY <2>2
      <4>2. 1 - 1 = 0 /\ 1 \in 1 .. Len(Q)
        BY <2>2
      <4> QED
        BY <2>1, <2>3, <3>1, <4>1, <4>2
    <3>2. CASE i # 1
      <4>1. i \in 2 .. Len(Q) /\ i - 1 \in 1 .. Len(Q)
        BY <2>2, <3>2
      <4> QED
        BY <2>1, <2>3, <4>1
    <3> QED
      BY <3>1, <3>2
  <2>5. FlattenSeq(Q) = F[Len(Q)]
    <3>1. Len(Q) \in 1 .. Len(Q)
      BY <2>2
    <3> QED
      BY <2>1, <2>3, <3>1, Zenon
  <2>6. Pieced(F, Q, S)
    BY <2>3, <2>4 DEF Pieced
  <2> QED
    BY <2>5, <2>6
<1> QED
  BY <1>1, <1>2

\* The lengths add up, and what is in front stays.
PieceAt(F, Q, S, i) ==
  /\ Len(F[i]) = Len(F[i - 1]) + Len(Q[i])
  /\ Q[i] \in Seq(S) /\ Len(Q[i]) \in Nat
  /\ \A k \in 1 .. Len(F[i - 1]) : F[i][k] = F[i - 1][k]
  /\ \A k \in 1 .. Len(Q[i]) : F[i][Len(F[i - 1]) + k] = Q[i][k]

\* The prefixes are sequences, each longer than the one before by its piece.
LEMMA PiecedFacts ==
  ASSUME NEW S, NEW Q \in Seq(Seq(S)), NEW F, Pieced(F, Q, S)
  PROVE  /\ Len(Q) \in Nat /\ \A i \in 0 .. Len(Q) : F[i] \in Seq(S) /\ Len(F[i]) \in Nat
         /\ Len(F[0]) = 0
         /\ \A i \in 1 .. Len(Q) : PieceAt(F, Q, S, i)
<1>1. /\ F \in [0 .. Len(Q) -> Seq(S)] /\ F[0] = <<>> /\ Len(Q) \in Nat
      /\ \A i \in 1 .. Len(Q) : F[i] = F[i - 1] \o Q[i] /\ Q[i] \in Seq(S)
  BY DEF Pieced
<1>2. \A i \in 0 .. Len(Q) : F[i] \in Seq(S) /\ Len(F[i]) \in Nat
  <2> DEFINE W == Seq(S)
  <2>1. \A i \in 0 .. Len(Q) : F[i] \in W
    <3> HIDE DEF W
    <3> QED
      BY <1>1 DEF W
  <2> QED
    BY <2>1
<1>3. ASSUME NEW i \in 1 .. Len(Q)
      PROVE  PieceAt(F, Q, S, i)
  <2> DEFINE p == F[i - 1]
             q == Q[i]
  <2>1. p \in Seq(S) /\ q \in Seq(S) /\ F[i] = p \o q
    <3>1. i - 1 \in 0 .. Len(Q)
      BY <1>1
    <3> QED
      BY <1>1, <1>2, <3>1
  <2> HIDE DEF p, q
  <2>2. /\ Len(p \o q) = Len(p) + Len(q) /\ Len(q) \in Nat
        /\ \A k \in 1 .. Len(p) : (p \o q)[k] = p[k]
        /\ \A k \in 1 .. Len(q) : (p \o q)[Len(p) + k] = q[k]
    BY <2>1
  <2> QED
    BY <2>1, <2>2 DEF p, q, PieceAt
<1> QED
  BY <1>1, <1>2, <1>3

\* A shorter prefix is the beginning of a longer one.
LEMMA PiecedOrder ==
  ASSUME NEW S, NEW Q \in Seq(Seq(S)), NEW F, Pieced(F, Q, S)
  PROVE  \A i, j \in 0 .. Len(Q) : i <= j =>
           /\ Len(F[i]) <= Len(F[j]) /\ \A k \in 1 .. Len(F[i]) : F[j][k] = F[i][k]
<1>1. /\ Len(Q) \in Nat /\ \A i \in 0 .. Len(Q) : Len(F[i]) \in Nat
      /\ \A i \in 1 .. Len(Q) : /\ Len(F[i]) = Len(F[i - 1]) + Len(Q[i]) /\ Len(Q[i]) \in Nat
                               /\ \A k \in 1 .. Len(F[i - 1]) : F[i][k] = F[i - 1][k]
  <2>1. Len(Q) \in Nat /\ \A i \in 0 .. Len(Q) : Len(F[i]) \in Nat
    BY PiecedFacts
  <2>2. ASSUME NEW i \in 1 .. Len(Q)
        PROVE  /\ Len(F[i]) = Len(F[i - 1]) + Len(Q[i]) /\ Len(Q[i]) \in Nat
               /\ \A k \in 1 .. Len(F[i - 1]) : F[i][k] = F[i - 1][k]
    <3>1. PieceAt(F, Q, S, i)
      BY PiecedFacts
    <3> QED
      BY <3>1 DEF PieceAt
  <2> QED
    BY <2>1, <2>2
<1> SUFFICES ASSUME NEW i \in 0 .. Len(Q)
             PROVE  \A j \in 0 .. Len(Q) : i <= j =>
                      Len(F[i]) <= Len(F[j]) /\ \A k \in 1 .. Len(F[i]) : F[j][k] = F[i][k]
  OBVIOUS
<1> DEFINE P == {n \in Nat : i + n \in 0 .. Len(Q) =>
                   Len(F[i]) <= Len(F[i + n]) /\ \A k \in 1 .. Len(F[i]) : F[i + n][k] = F[i][k]}
<1>2. 0 \in P
  <2>1. i + 0 = i
    OBVIOUS
  <2> QED
    BY <1>1, <2>1
<1>3. ASSUME NEW n \in Nat, n \in P PROVE n + 1 \in P
  <2> SUFFICES ASSUME i + (n + 1) \in 0 .. Len(Q)
               PROVE  Len(F[i]) <= Len(F[i + (n + 1)])
                      /\ \A k \in 1 .. Len(F[i]) : F[i + (n + 1)][k] = F[i][k]
    OBVIOUS
  <2> DEFINE a == i + n
             b == i + (n + 1)
  <2>1. a \in 0 .. Len(Q) /\ b \in 1 .. Len(Q) /\ b - 1 = a /\ b \in 0 .. Len(Q)
    BY <1>1
  <2>2. Len(F[i]) <= Len(F[a]) /\ \A k \in 1 .. Len(F[i]) : F[a][k] = F[i][k]
    BY <1>3, <2>1
  <2> HIDE DEF a, b
  <2>3. Len(F[b]) = Len(F[a]) + Len(Q[b]) /\ \A k \in 1 .. Len(F[a]) : F[b][k] = F[a][k]
    BY <1>1, <2>1
  <2>4. Len(F[i]) \in Nat /\ Len(F[a]) \in Nat /\ Len(Q[b]) \in Nat
    BY <1>1, <2>1
  <2>5. Len(F[i]) <= Len(F[b]) /\ \A k \in 1 .. Len(F[i]) : F[b][k] = F[i][k]
    <3>1. \A k \in 1 .. Len(F[i]) : k \in 1 .. Len(F[a])
      BY <2>2, <2>4
    <3>2. Len(F[i]) <= Len(F[b])
      <4>1. Len(F[i]) <= Len(F[a]) /\ Len(F[b]) = Len(F[a]) + Len(Q[b])
        BY <2>2, <2>3
      <4>2. \A x, y, z \in Nat : x <= y => x <= y + z
        OBVIOUS
      <4> QED
        BY <2>4, <4>1, <4>2
    <3> QED
      BY <2>2, <2>3, <3>1, <3>2
  <2> QED
    BY <2>5 DEF b
<1>4. \A n \in Nat : n \in P
  <2> HIDE DEF P
  <2> QED
    BY <1>2, <1>3, Induction
<1>5. ASSUME NEW j \in 0 .. Len(Q), i <= j
      PROVE  Len(F[i]) <= Len(F[j]) /\ \A k \in 1 .. Len(F[i]) : F[j][k] = F[i][k]
  <2>1. j - i \in Nat /\ i + (j - i) = j
    BY <1>5
  <2>2. j - i \in P
    BY <1>4, <2>1
  <2> QED
    BY <1>5, <2>1, <2>2
<1> QED
  BY <1>5

\* Every position is in one piece.
LEMMA PiecedWhere ==
  ASSUME NEW S, NEW Q \in Seq(Seq(S)), NEW F, Pieced(F, Q, S),
         NEW n \in 0 .. Len(Q), NEW p \in 1 .. Len(F[n])
  PROVE  \E i \in 1 .. n : Len(F[i - 1]) < p /\ p <= Len(F[i])
<1>1. /\ Len(Q) \in Nat /\ Len(F[0]) = 0 /\ \A i \in 0 .. Len(Q) : Len(F[i]) \in Nat
  BY PiecedFacts
<1> DEFINE T == {i \in 0 .. n : p <= Len(F[i])}
<1>2. T \subseteq Nat /\ n \in T
  BY <1>1
<1>3. PICK i \in T : \A j \in T : i <= j
  <2> HIDE DEF T
  <2> QED
    BY <1>2, Least
<1>4. i # 0
  BY <1>1, <1>3
<1>5. i - 1 \in 0 .. n /\ i - 1 \notin T /\ Len(F[i - 1]) \in Nat
  BY <1>1, <1>3, <1>4
<1> QED
  BY <1>1, <1>3, <1>4, <1>5

\* The first pieces are those of the first part.
LEMMA FlattenPrefix ==
  ASSUME NEW S, NEW Q \in Seq(Seq(S)), NEW F, Pieced(F, Q, S), NEW k \in 0 .. Len(Q)
  PROVE  FlattenSeq(SubSeq(Q, 1, k)) = F[k]
<1> DEFINE q == SubSeq(Q, 1, k)
<1>0. /\ Len(Q) \in Nat /\ k \in Nat /\ q \in Seq(Seq(S)) /\ Len(q) = k
      /\ \A i \in 1 .. k : q[i] = Q[i]
  OBVIOUS
<1> HIDE DEF q
<1>1. PICK G : Pieced(G, q, S) /\ FlattenSeq(q) = G[Len(q)]
  BY <1>0, FlattenPieces
<1>2. /\ G[0] = <<>> /\ F[0] = <<>>
      /\ \A i \in 1 .. k : G[i] = G[i - 1] \o Q[i] /\ F[i] = F[i - 1] \o Q[i]
  <2>1. G[0] = <<>> /\ \A i \in 1 .. k : G[i] = G[i - 1] \o q[i]
    BY <1>0, <1>1 DEF Pieced
  <2>2. F[0] = <<>> /\ \A i \in 1 .. Len(Q) : F[i] = F[i - 1] \o Q[i]
    BY DEF Pieced
  <2>3. \A i \in 1 .. k : i \in 1 .. Len(Q)
    BY <1>0
  <2> QED
    BY <1>0, <2>1, <2>2, <2>3
<1> DEFINE P == {n \in Nat : n <= k => G[n] = F[n]}
<1>3. 0 \in P
  BY <1>2
<1>4. ASSUME NEW n \in Nat, n \in P PROVE n + 1 \in P
  <2> SUFFICES ASSUME n + 1 <= k PROVE G[n + 1] = F[n + 1]
    OBVIOUS
  <2>1. n + 1 \in 1 .. k /\ (n + 1) - 1 = n /\ n <= k
    BY <1>0
  <2>2. G[n] = F[n]
    BY <1>4, <2>1
  <2>3. G[n + 1] = G[n] \o Q[n + 1] /\ F[n + 1] = F[n] \o Q[n + 1]
    BY <1>2, <2>1
  <2> QED
    BY <2>2, <2>3
<1>5. \A n \in Nat : n \in P
  <2> HIDE DEF P
  <2> QED
    BY <1>3, <1>4, Induction
<1>6. G[k] = F[k]
  BY <1>0, <1>5
<1> QED
  BY <1>0, <1>1, <1>6 DEF q

\* Two sequences one behind the other.
LEMMA Joined ==
  ASSUME NEW S, NEW p \in Seq(S), NEW q \in Seq(S)
  PROVE  /\ p \o q \in Seq(S) /\ Len(p \o q) = Len(p) + Len(q)
         /\ Len(p) \in Nat /\ Len(q) \in Nat /\ \A k \in 1 .. Len(p) : (p \o q)[k] = p[k]
         /\ \A k \in 1 .. Len(q) : (p \o q)[Len(p) + k] = q[k]
  OBVIOUS

\* A part of a sequence.
LEMMA Part ==
  ASSUME NEW S, NEW w \in Seq(S), NEW p \in Nat, NEW n \in Nat, p + n <= Len(w)
  PROVE  /\ SubSeq(w, p + 1, p + n) \in Seq(S) /\ Len(SubSeq(w, p + 1, p + n)) = n
         /\ \A k \in 1 .. n : SubSeq(w, p + 1, p + n)[k] = w[p + k] /\ p + k \in 1 .. Len(w)
<1>1. Len(w) \in Nat /\ (p + n) - (p + 1) + 1 = n /\ \A k \in 1 .. n : p + k \in 1 .. Len(w)
  OBVIOUS
<1>2. /\ SubSeq(w, p + 1, p + n) = [k \in 1 .. n |-> w[p + k]]
      /\ \A k \in 1 .. n : w[p + k] \in S
  BY <1>1
<1> DEFINE q == [k \in 1 .. n |-> w[p + k]]
<1>3. q \in Seq(S) /\ Len(q) = n /\ \A k \in 1 .. n : q[k] = w[p + k]
  BY <1>2
<1> QED
  BY <1>1, <1>2, <1>3
-----------------------------------------------------------------------------
(* HttpServer: a session, from the first head to the last answer.          *)

\* What a client sends, and where request i of it ends.
Sent(r) == Session!FlattenSeq([i \in DOMAIN r |-> Session!Text(r[i])])
Stop(r, i) == Len(Session!FlattenSeq([j \in 1 .. i |-> Session!Text(r[j])]))

\* The values of the variables.
Data == Symbols \cup {Session!NUL}
SessionRequests == [i: Nat, at: Int, left: Nat, body: Seq(Data)]
AnswerRecords == [i: Nat, body: Seq(Data), close: BOOLEAN]
SessionPlaces == {"head", "fix", "handle", "respond", "done", "spin"}

\* The types of the variables.
SessionTypes ==
  /\ requests \in Conversations /\ m_isKeepalive \in BOOLEAN
  /\ pos \in Nat /\ sent \in Nat /\ pos <= sent /\ sent <= Len(Sent(requests))
  /\ client \in {"open", "fin", "rst"} /\ s_pc \in SessionPlaces
  /\ half \in 0 .. Len(requests) /\ req \in SessionRequests /\ req.i \in 0 .. Len(requests)
  /\ isClose \in BOOLEAN /\ clean \in BOOLEAN /\ answers \in Seq(AnswerRecords)
  /\ misses \in 0 .. MaxTimeouts

\* The answers: to requests whose heads have been read, in their order, and
\* closing.
SessionAnswered(j) ==
  /\ answers[j].i \in 1 .. Len(requests) /\ Stop(requests, answers[j].i - 1) < pos
  /\ answers[j].close
  /\ j > 1 => answers[j - 1].i < answers[j].i
  /\ misses = 0 => answers[j].body \in {requests[answers[j].i].body, <<>>}
  /\ clean /\ misses = 0 => answers[j].i = j /\ answers[j].body = requests[j].body
Earlier(i) == \A j \in 1 .. Len(answers) : answers[j].i < i

\* Half a head: the next symbol is its end.
Halved ==
  half # 0 =>
    /\ s_pc \in {"head", "done"} /\ pos = Stop(requests, half - 1) + 1 /\ Earlier(half)
    /\ clean /\ misses = 0 => half = Len(answers) + 1 /\ requests[half].body = <<>>
\* A request that is not answered.
Begun ==
  s_pc \in {"fix", "handle"} =>
    /\ req.i \in 1 .. Len(requests) /\ Stop(requests, req.i - 1) < pos /\ Earlier(req.i)
    /\ isClose
    /\ clean /\ misses = 0 => req.i = Len(answers) + 1
\* What has been read of a body stands at its place.
Filling ==
  s_pc = "fix" /\ misses = 0 =>
    /\ req.at \in Nat /\ DOMAIN req.body = 1 .. Len(requests[req.i].body)
    /\ req.at + req.left = Len(requests[req.i].body)
    /\ pos = Stop(requests, req.i - 1) + 2 + req.at
    /\ \A k \in 1 .. req.at : req.body[k] = requests[req.i].body[k]
\* The request has its own body, or none.
Complete ==
  s_pc = "handle" /\ misses = 0 =>
    /\ req.body \in {requests[req.i].body, <<>>}
    /\ clean => req.body = requests[req.i].body /\ pos = Stop(requests, req.i)
\* Between two requests of a client that is read cleanly.
Between ==
  s_pc \in {"head", "respond"} /\ half = 0 /\ clean /\ misses = 0 =>
    Len(answers) <= Len(requests) /\ pos = Stop(requests, Len(answers))
\* Only a server that keeps connections goes on.
Keeping ==
  /\ s_pc \in {"head", "fix", "handle"} /\ answers # <<>> => m_isKeepalive
  /\ Len(answers) > 1 => m_isKeepalive

\* The inductive invariant.
SessionInv ==
  /\ SessionTypes /\ \A j \in 1 .. Len(answers) : SessionAnswered(j)
  /\ Halved /\ Begun /\ Filling /\ Complete /\ Between /\ Keeping

-----------------------------------------------------------------------------
(* A conversation on the wire. *)

\* A head in front of a body.
LEMMA TextOf ==
  ASSUME NEW h \in Symbols, NEW e \in Symbols, NEW b \in Seq(Symbols)
  PROVE  /\ <<h, e>> \o b \in Seq(Symbols) /\ Len(<<h, e>> \o b) = 2 + Len(b)
         /\ Len(b) \in Nat /\ (<<h, e>> \o b)[1] = h /\ (<<h, e>> \o b)[2] = e
         /\ \A k \in 1 .. Len(b) : (<<h, e>> \o b)[2 + k] = b[k]
<1>1. PICK t : t = <<h, e>>
  OBVIOUS
<1>2. t \in Seq(Symbols) /\ Len(t) = 2 /\ t[1] = h /\ t[2] = e
  BY <1>1
<1>3. /\ t \o b \in Seq(Symbols) /\ Len(t \o b) = Len(t) + Len(b) /\ Len(b) \in Nat
      /\ \A k \in 1 .. Len(t) : (t \o b)[k] = t[k]
      /\ \A k \in 1 .. Len(b) : (t \o b)[Len(t) + k] = b[k]
  <2>1. t \in Seq(Symbols)
    BY <1>2
  <2> QED
    BY <2>1, Joined
<1>4. 1 \in 1 .. Len(t) /\ 2 \in 1 .. Len(t)
  BY <1>2
<1> QED
  BY <1>1, <1>2, <1>3, <1>4

\* Where request i stands on the wire.
Placed(r, i) ==
  /\ r[i].body \in Seq(Symbols) /\ Len(r[i].body) \in Nat
  /\ Stop(r, i - 1) \in Nat /\ Stop(r, i) = Stop(r, i - 1) + 2 + Len(r[i].body)
  /\ Stop(r, i) <= Len(Sent(r))
  /\ Sent(r)[Stop(r, i - 1) + 1] = r[i].head
  /\ Sent(r)[Stop(r, i - 1) + 2] = r[i].end
  /\ \A k \in 1 .. Len(r[i].body) :
       Sent(r)[Stop(r, i - 1) + 2 + k] = r[i].body[k]

\* The texts of the requests.
Texts(r) == [i \in DOMAIN r |-> Session!Text(r[i])]
RequestForms == [head: Symbols, end: Symbols, body: Seq(Symbols)]

\* The requests of a conversation and what each is on the wire.
LEMMA TextsFacts ==
  ASSUME Session!SessionAssumption, NEW r \in Conversations
  PROVE  /\ Len(r) \in Nat /\ DOMAIN r = 1 .. Len(r)
         /\ Texts(r) \in Seq(Seq(Symbols)) /\ Len(Texts(r)) = Len(r)
         /\ \A i \in 1 .. Len(r) :
              /\ r[i] \in RequestForms /\ Texts(r)[i] = Session!Text(r[i])
              /\ r[i].body \in Seq(Symbols) /\ Len(r[i].body) \in Nat
              /\ Len(Texts(r)[i]) = 2 + Len(r[i].body)
              /\ Texts(r)[i][1] = r[i].head /\ Texts(r)[i][2] = r[i].end
              /\ \A k \in 1 .. Len(r[i].body) : Texts(r)[i][2 + k] = r[i].body[k]
<1>1. r \in Seq(RequestForms)
  BY DEF Session!SessionAssumption, RequestForms
<1>2. /\ Len(r) \in Nat /\ DOMAIN r = 1 .. Len(r)
      /\ \A i \in 1 .. Len(r) : r[i] \in RequestForms
  BY <1>1
<1>3. ASSUME NEW x \in RequestForms
      PROVE  /\ Session!Text(x) \in Seq(Symbols) /\ Len(Session!Text(x)) = 2 + Len(x.body)
             /\ x.body \in Seq(Symbols) /\ Len(x.body) \in Nat
             /\ Session!Text(x)[1] = x.head /\ Session!Text(x)[2] = x.end
             /\ \A k \in 1 .. Len(x.body) : Session!Text(x)[2 + k] = x.body[k]
  <2>1. x.head \in Symbols /\ x.end \in Symbols /\ x.body \in Seq(Symbols)
    BY DEF RequestForms
  <2> QED
    BY <2>1, TextOf DEF Session!Text
<1>4. \A i \in 1 .. Len(r) : Texts(r)[i] = Session!Text(r[i]) /\ Texts(r)[i] \in Seq(Symbols)
  BY <1>2, <1>3 DEF Texts
<1>5. Texts(r) \in Seq(Seq(Symbols)) /\ Len(Texts(r)) = Len(r)
  <2> DEFINE W == Seq(Symbols)
  <2>1. Texts(r) \in [1 .. Len(r) -> W]
    <3>1. Texts(r) = [i \in 1 .. Len(r) |-> Texts(r)[i]]
      BY <1>2, Zenon DEF Texts
    <3>2. \A i \in 1 .. Len(r) : Texts(r)[i] \in W
      BY <1>4
    <3> HIDE DEF W
    <3> QED
      BY <3>1, <3>2
  <2> HIDE DEF W
  <2>2. Texts(r) \in Seq(W) /\ Len(Texts(r)) = Len(r)
    BY <1>2, <2>1
  <2> QED
    BY <2>2 DEF W
<1> QED
  BY <1>2, <1>3, <1>4, <1>5

\* FlattenSeq is the same for the instance.
LEMMA SessionFlatten == \A q : Session!FlattenSeq(q) = FlattenSeq(q)
  BY Zenon DEF Session!FlattenSeq, FlattenSeq, FoldRight, FoldRight, Session!MapThenFoldSet,
     MapThenFoldSet

\* FlattenPieces for the instance.
LEMMA SessionPieces ==
  ASSUME NEW S, NEW Q \in Seq(Seq(S))
  PROVE  \E F : Pieced(F, Q, S) /\ Session!FlattenSeq(Q) = F[Len(Q)]
  BY FlattenPieces, SessionFlatten

\* FlattenPrefix for the instance.
LEMMA SessionPrefix ==
  ASSUME NEW S, NEW Q \in Seq(Seq(S)), NEW F, Pieced(F, Q, S), NEW k \in 0 .. Len(Q)
  PROVE  Session!FlattenSeq(SubSeq(Q, 1, k)) = F[k]
  BY FlattenPrefix, SessionFlatten

\* The ends of the r are those of the texts in front.
LEMMA EndsFacts ==
  ASSUME Session!SessionAssumption, NEW r \in Conversations
  PROVE  \E F : /\ Pieced(F, Texts(r), Symbols) /\ Sent(r) = F[Len(r)]
                /\ \A i \in 0 .. Len(r) : Stop(r, i) = Len(F[i])
<1>1. /\ Len(r) \in Nat /\ DOMAIN r = 1 .. Len(r)
      /\ Texts(r) \in Seq(Seq(Symbols)) /\ Len(Texts(r)) = Len(r)
      /\ \A i \in 1 .. Len(r) : Texts(r)[i] = Session!Text(r[i])
  BY TextsFacts
<1>2. PICK F : Pieced(F, Texts(r), Symbols) /\ Session!FlattenSeq(Texts(r)) = F[Len(Texts(r))]
  BY <1>1, SessionPieces
<1>3. ASSUME NEW i \in 0 .. Len(r) PROVE Stop(r, i) = Len(F[i])
  <2> DEFINE q == [j \in 1 .. i |-> Session!Text(r[j])]
  <2>1. q = SubSeq(Texts(r), 1, i)
    <3> DEFINE p == SubSeq(Texts(r), 1, i)
    <3>1. /\ i \in Nat /\ p \in Seq(Seq(Symbols)) /\ Len(p) = i
          /\ \A j \in 1 .. i : p[j] = Texts(r)[j] /\ j \in 1 .. Len(r)
      BY <1>1
    <3> HIDE DEF p
    <3>2. \A j \in 1 .. i : p[j] = Session!Text(r[j]) /\ p[j] \in Seq(Symbols)
      <4> DEFINE W == Seq(Symbols)
      <4>1. p \in Seq(W)
        BY <3>1
      <4> HIDE DEF W
      <4>2. \A j \in 1 .. i : p[j] \in W
        BY <3>1, <4>1
      <4> QED
        BY <1>1, <3>1, <4>2 DEF W
    <3>3. q \in Seq(Seq(Symbols)) /\ Len(q) = i /\ \A j \in 1 .. i : q[j] = p[j]
      <4> DEFINE W == Seq(Symbols)
      <4>1. q \in [1 .. i -> W] /\ \A j \in 1 .. i : q[j] = p[j]
        <5>1. \A j \in 1 .. i : Session!Text(r[j]) \in W
          BY <3>2
        <5> HIDE DEF W
        <5> QED
          BY <3>2, <5>1
      <4> HIDE DEF W, q
      <4>2. q \in Seq(W) /\ Len(q) = i
        BY <3>1, <4>1
      <4> QED
        BY <4>1, <4>2 DEF W
    <3> HIDE DEF q
    <3>4. q = p
      BY <3>1, <3>3, SameSequence
    <3> QED
      BY <3>4 DEF p
  <2>2. i \in 0 .. Len(Texts(r))
    BY <1>1
  <2>3. Session!FlattenSeq(SubSeq(Texts(r), 1, i)) = F[i]
    BY <1>1, <1>2, <2>2, SessionPrefix
  <2>4. Stop(r, i) = Len(Session!FlattenSeq(q))
    BY DEF Stop
  <2> HIDE DEF q
  <2> QED
    BY <2>1, <2>3, <2>4
<1>4. Sent(r) = F[Len(r)]
  BY <1>1, <1>2 DEF Sent, Texts, Stop
<1> QED
  BY <1>2, <1>3, <1>4

\* Hence where they stand.
LEMMA WireFacts ==
  ASSUME Session!SessionAssumption, NEW r \in Conversations
  PROVE  /\ Len(r) \in Nat /\ DOMAIN r = 1 .. Len(r)
         /\ Sent(r) \in Seq(Symbols) /\ Len(Sent(r)) \in Nat /\ Stop(r, 0) = 0
         /\ \A i \in 0 .. Len(r) : Stop(r, i) \in Nat
         /\ \A i \in 1 .. Len(r) : Placed(r, i)
         /\ \A i, j \in 0 .. Len(r) : i < j => Stop(r, i) < Stop(r, j)
<1>1. /\ Len(r) \in Nat /\ DOMAIN r = 1 .. Len(r)
      /\ Texts(r) \in Seq(Seq(Symbols)) /\ Len(Texts(r)) = Len(r)
  BY TextsFacts
<1>2. PICK F : /\ Pieced(F, Texts(r), Symbols) /\ Sent(r) = F[Len(r)]
               /\ \A i \in 0 .. Len(r) : Stop(r, i) = Len(F[i])
  BY EndsFacts
<1>3. /\ \A i \in 0 .. Len(r) : F[i] \in Seq(Symbols) /\ Len(F[i]) \in Nat
      /\ Len(F[0]) = 0
      /\ \A i \in 1 .. Len(r) : PieceAt(F, Texts(r), Symbols, i)
  BY <1>1, <1>2, PiecedFacts
<1>4. \A i, j \in 0 .. Len(r) : i <= j =>
        Len(F[i]) <= Len(F[j]) /\ \A k \in 1 .. Len(F[i]) : F[j][k] = F[i][k]
  BY <1>1, <1>2, PiecedOrder
<1>5. ASSUME NEW i \in 1 .. Len(r) PROVE Placed(r, i)
  <2>1. /\ i - 1 \in 0 .. Len(r) /\ i \in 0 .. Len(r)
        /\ Len(r) \in 0 .. Len(r) /\ i <= Len(r)
    BY <1>1
  <2>2. /\ r[i].body \in Seq(Symbols) /\ Len(r[i].body) \in Nat
        /\ Len(Texts(r)[i]) = 2 + Len(r[i].body)
        /\ Texts(r)[i][1] = r[i].head /\ Texts(r)[i][2] = r[i].end
        /\ \A k \in 1 .. Len(r[i].body) : Texts(r)[i][2 + k] = r[i].body[k]
    BY TextsFacts
  <2>3. /\ Len(F[i]) = Len(F[i - 1]) + Len(Texts(r)[i])
        /\ \A k \in 1 .. Len(Texts(r)[i]) : F[i][Len(F[i - 1]) + k] = Texts(r)[i][k]
    BY <1>3 DEF PieceAt
  <2>4. /\ Len(F[i]) <= Len(Sent(r)) /\ \A k \in 1 .. Len(F[i]) : Sent(r)[k] = F[i][k]
    BY <1>2, <1>4, <2>1
  <2>5. /\ Stop(r, i) = Len(F[i]) /\ Stop(r, i - 1) = Len(F[i - 1])
        /\ Len(F[i]) \in Nat /\ Len(F[i - 1]) \in Nat
    BY <1>2, <1>3, <2>1
  <2>6. ASSUME NEW k \in 1 .. Len(Texts(r)[i]) PROVE Sent(r)[Stop(r, i - 1) + k] = Texts(r)[i][k]
    <3>1. Len(F[i - 1]) + k \in 1 .. Len(F[i])
      <4>1. \A x, y \in Nat : \A z \in 1 .. y : x + z \in 1 .. x + y
        OBVIOUS
      <4>2. Len(Texts(r)[i]) \in Nat
        BY <2>2
      <4> QED
        BY <2>3, <2>5, <4>1, <4>2
    <3> QED
      BY <2>3, <2>4, <2>5, <3>1
  <2>7. 1 \in 1 .. Len(Texts(r)[i]) /\ 2 \in 1 .. Len(Texts(r)[i])
        /\ \A k \in 1 .. Len(r[i].body) : 2 + k \in 1 .. Len(Texts(r)[i])
                                                 /\ Stop(r, i - 1) + (2 + k) = Stop(r, i - 1) + 2 + k
    <3>1. \A x, y \in Nat : /\ 1 \in 1 .. 2 + y /\ 2 \in 1 .. 2 + y
                            /\ \A k \in 1 .. y : 2 + k \in 1 .. 2 + y /\ x + (2 + k) = x + 2 + k
      OBVIOUS
    <3>2. PICK x \in Nat, y \in Nat : x = Stop(r, i - 1) /\ y = Len(r[i].body)
      BY <2>2, <2>5
    <3>3. Len(Texts(r)[i]) = 2 + y
      BY <2>2, <3>2
    <3> QED
      BY <3>1, <3>2, <3>3
  <2>8. Stop(r, i) = Stop(r, i - 1) + 2 + Len(r[i].body)
    <3>1. \A x, y \in Nat : x + (2 + y) = x + 2 + y
      OBVIOUS
    <3> QED
      BY <2>2, <2>3, <2>5, <3>1
  <2> QED
    BY <2>2, <2>4, <2>5, <2>6, <2>7, <2>8 DEF Placed
<1>6. Sent(r) \in Seq(Symbols) /\ Len(Sent(r)) \in Nat /\ Stop(r, 0) = 0
  <2>1. 0 \in 0 .. Len(r) /\ Len(r) \in 0 .. Len(r)
    BY <1>1
  <2> QED
    BY <1>2, <1>3, <2>1
<1>7. \A i \in 0 .. Len(r) : Stop(r, i) \in Nat
  BY <1>2, <1>3
<1>8. ASSUME NEW i \in 0 .. Len(r), NEW j \in 0 .. Len(r), i < j
      PROVE  Stop(r, i) < Stop(r, j)
  <2>1. j \in 1 .. Len(r) /\ j - 1 \in 0 .. Len(r) /\ i <= j - 1
    BY <1>1, <1>8
  <2>2. Stop(r, j) = Stop(r, j - 1) + 2 + Len(r[j].body) /\ Len(r[j].body) \in Nat
    BY <1>5, <2>1 DEF Placed
  <2>3. Stop(r, i) <= Stop(r, j - 1)
    BY <1>2, <1>4, <2>1
  <2> QED
    BY <1>7, <2>1, <2>2, <2>3
<1> QED
  BY <1>1, <1>5, <1>6, <1>7, <1>8

\* A head stands only in front of its request.
LEMMA HeadPlace ==
  ASSUME Session!SessionAssumption, NEW r \in Conversations, NEW p \in 1 .. Len(Sent(r)),
         NEW i \in 1 .. Len(r), Sent(r)[p] = r[i].head
  PROVE  p = Stop(r, i - 1) + 1
<1>1. /\ Len(r) \in Nat /\ DOMAIN r = 1 .. Len(r)
      /\ Texts(r) \in Seq(Seq(Symbols)) /\ Len(Texts(r)) = Len(r)
  BY TextsFacts
<1>2. PICK F : /\ Pieced(F, Texts(r), Symbols) /\ Sent(r) = F[Len(r)]
               /\ \A j \in 0 .. Len(r) : Stop(r, j) = Len(F[j])
  BY EndsFacts
<1>3. PICK j \in 1 .. Len(r) : Len(F[j - 1]) < p /\ p <= Len(F[j])
  <2>1. Len(r) \in 0 .. Len(Texts(r)) /\ p \in 1 .. Len(F[Len(r)])
    BY <1>1, <1>2
  <2> QED
    BY <1>1, <1>2, <2>1, PiecedWhere
<1>4. Stop(r, j - 1) < p /\ p <= Stop(r, j)
  <2>1. j - 1 \in 0 .. Len(r) /\ j \in 0 .. Len(r)
    BY <1>1
  <2> QED
    BY <1>2, <1>3, <2>1
<1>5. Placed(r, j) /\ p \in Nat
  BY WireFacts
<1>6. /\ r \in Conversations
      /\ r[i].head = r[j].head => i = j
      /\ r[i].head # r[j].end /\ r[i].head \notin Session!ToSet(r[j].body)
  BY <1>1 DEF Session!SessionAssumption
<1>7. CASE p = Stop(r, j - 1) + 1
  BY <1>5, <1>6, <1>7 DEF Placed
<1>8. CASE p = Stop(r, j - 1) + 2
  BY <1>5, <1>6, <1>8 DEF Placed
<1>9. CASE p > Stop(r, j - 1) + 2
  <2> DEFINE k == p - (Stop(r, j - 1) + 2)
  <2>1. k \in 1 .. Len(r[j].body) /\ Stop(r, j - 1) + 2 + k = p
    <3>1. \A e, b, x \in Nat : x <= e + 2 + b /\ x > e + 2 =>
            x - (e + 2) \in 1 .. b /\ e + 2 + (x - (e + 2)) = x
      OBVIOUS
    <3>2. /\ Stop(r, j - 1) \in Nat /\ Len(r[j].body) \in Nat
          /\ p <= Stop(r, j - 1) + 2 + Len(r[j].body)
      BY <1>4, <1>5 DEF Placed
    <3> QED
      BY <1>5, <1>9, <3>1, <3>2
  <2> HIDE DEF k
  <2>2. Sent(r)[p] = r[j].body[k]
    BY <1>5, <2>1 DEF Placed
  <2>3. r[j].body[k] \in Session!ToSet(r[j].body)
    <3>1. PICK w : w = r[j].body
      OBVIOUS
    <3>2. w \in Seq(Symbols) /\ k \in 1 .. Len(w)
      BY <1>5, <2>1, <3>1 DEF Placed
    <3>3. w[k] \in Session!ToSet(w)
      BY <3>2 DEF Session!ToSet
    <3> QED
      BY <3>1, <3>3
  <2> QED
    BY <1>6, <2>2, <2>3
<1>10. Stop(r, j - 1) \in Nat
  BY <1>5 DEF Placed
<1> QED
  BY <1>4, <1>5, <1>7, <1>8, <1>9, <1>10

-----------------------------------------------------------------------------
(* Every step keeps the invariant. *)

\* The records of requests and answers.
LEMMA SessionRecords ==
  /\ \A x \in SessionRequests : /\ x.i \in Nat /\ x.at \in Int /\ x.left \in Nat
                                /\ x.body \in Seq(Data)
  /\ \A i \in Nat, a \in Int, l \in Nat, b \in Seq(Data) :
       [i |-> i, at |-> a, left |-> l, body |-> b] \in SessionRequests
  /\ \A i \in Nat, b \in Seq(Data), c \in BOOLEAN :
       [i |-> i, body |-> b, close |-> c] \in AnswerRecords
  BY DEF SessionRequests, AnswerRecords

\* The invariant's names for the wire and the ends of its requests.
LEMMA WireNames == Session!Wire = Sent(requests) /\ \A i : Session!EndOf(i) = Stop(requests, i)
  BY DEF Session!Wire, Sent, Session!EndOf, Stop

\* What the invariant says of requests.
LEMMA RequestsFacts ==
  ASSUME Session!SessionAssumption, SessionTypes
  PROVE  /\ Len(requests) \in Nat /\ DOMAIN requests = 1 .. Len(requests)
         /\ Sent(requests) \in Seq(Symbols) /\ Len(Sent(requests)) \in Nat
         /\ Stop(requests, 0) = 0
         /\ \A i \in 0 .. Len(requests) : Stop(requests, i) \in Nat
         /\ \A i \in 1 .. Len(requests) : Placed(requests, i)
         /\ \A i, j \in 0 .. Len(requests) : i < j => Stop(requests, i) < Stop(requests, j)
  BY WireFacts DEF SessionTypes

\* The answers stay what they are while more is read.
LEMMA AnswersStay ==
  ASSUME Session!SessionAssumption, SessionTypes, \A j \in 1 .. Len(answers) : SessionAnswered(j),
         UNCHANGED <<requests, answers>>, pos' \in Nat, pos <= pos',
         clean' => clean, misses' = 0 => misses = 0
  PROVE  \A j \in 1 .. Len(answers)' : SessionAnswered(j)'
<1> SUFFICES ASSUME NEW j \in 1 .. Len(answers) PROVE SessionAnswered(j)'
  OBVIOUS
<1>1. SessionAnswered(j)
  OBVIOUS
<1>2. Stop(requests, answers[j].i - 1) < pos'
  <2>1. answers[j].i - 1 \in 0 .. Len(requests) /\ Stop(requests, answers[j].i - 1) < pos
    BY <1>1, RequestsFacts DEF SessionAnswered
  <2>2. Stop(requests, answers[j].i - 1) \in Nat /\ pos \in Nat
    BY <2>1, RequestsFacts DEF SessionTypes
  <2>3. \A x, y, z \in Nat : x < y /\ y <= z => x < z
    OBVIOUS
  <2> QED
    BY <2>1, <2>2, <2>3
<1> QED
  BY <1>1, <1>2 DEF SessionAnswered

\* The client closes.
LEMMA NextClientCloses ==
  ASSUME Session!SessionAssumption, SessionInv, NEW how \in {"fin", "rst"},
         Session!ClientCloses(how)
  PROVE  SessionInv'
<1> USE DEF SessionInv
<1>1. /\ client' = how /\ sent' \in pos .. Len(Sent(requests))
      /\ UNCHANGED <<requests, m_isKeepalive, pos, s_pc, half, req, isClose, answers,
                     misses, clean>>
  BY WireNames DEF Session!ClientCloses
<1>2. SessionTypes'
  <2>1. sent' \in Nat /\ pos <= sent' /\ sent' <= Len(Sent(requests))
    BY <1>1, RequestsFacts DEF SessionTypes
  <2> QED
    BY <1>1, <2>1 DEF SessionTypes
<1>3. \A j \in 1 .. Len(answers)' : SessionAnswered(j)'
  <2>1. pos' \in Nat /\ pos <= pos'
    BY <1>1 DEF SessionTypes
  <2> QED
    BY <1>1, <2>1, AnswersStay
<1>4. Halved' /\ Begun' /\ Filling' /\ Complete' /\ Between' /\ Keeping'
  BY <1>1 DEF Halved, Begun, Filling, Complete, Between, Keeping, Earlier
<1> QED
  BY <1>2, <1>3, <1>4

\* What a read hands out.
LEMMA TakeFacts ==
  ASSUME Session!SessionAssumption, SessionTypes, NEW n, NEW room, Session!Reads(n, room)
  PROVE  /\ n \in Nat \ {0} /\ n \in 1 .. room /\ pos' = pos + n /\ pos' \in Nat /\ pos <= pos'
         /\ pos' <= sent
         /\ UNCHANGED Session!readVars
         /\ Session!Take(n) \in Seq(Symbols) /\ Len(Session!Take(n)) = n
         /\ \A k \in 1 .. n : Session!Take(n)[k] = Sent(requests)[pos + k]
              /\ pos + k \in 1 .. Len(Sent(requests))
<1>1. n \in 1 .. room /\ pos + n <= sent /\ pos' = pos + n /\ UNCHANGED Session!readVars
  BY DEF Session!Reads
<1>2. n \in Nat \ {0} /\ pos \in Nat /\ sent \in Nat /\ sent <= Len(Sent(requests))
  BY <1>1 DEF SessionTypes
<1>3. Sent(requests) \in Seq(Symbols) /\ Len(Sent(requests)) \in Nat
  BY RequestsFacts
<1>4. PICK w : w = Sent(requests)
  OBVIOUS
<1>5. /\ SubSeq(w, pos + 1, pos + n) \in Seq(Symbols) /\ Len(SubSeq(w, pos + 1, pos + n)) = n
      /\ \A k \in 1 .. n : SubSeq(w, pos + 1, pos + n)[k] = w[pos + k] /\ pos + k \in 1 .. Len(w)
  BY <1>1, <1>2, <1>3, <1>4, Part
<1>6. Session!Take(n) = SubSeq(w, pos + 1, pos + n)
  BY <1>4, WireNames DEF Session!Take
<1>7. pos' \in Nat /\ pos <= pos' /\ pos' <= sent
  BY <1>1, <1>2
<1> QED
  BY <1>1, <1>2, <1>4, <1>5, <1>6, <1>7

\* A body that begins behind its head.
Begins(b, length, rest) ==
  /\ b.body \in Seq(Data) /\ b.at \in Nat /\ b.left \in Nat
  /\ DOMAIN b.body = 1 .. length /\ Len(b.body) = length /\ b.at + b.left = length
  /\ \A k \in 1 .. b.at : b.body[k] = rest[k]
  /\ b.left > 0 => b.at = Len(rest)
  /\ b.left = 0 => length <= Len(rest) /\ b.at = length
  /\ length = 0 => b.body = <<>> /\ b.left = 0

\* body.resize(length), with what came behind the head at its front.
LEMMA ResizedFacts ==
  ASSUME NEW length \in Nat, NEW rest \in Seq(Symbols)
  PROVE  Begins(Session!Resized(length, rest), length, rest)
<1>0. PICK b : b = Session!Resized(length, rest)
  OBVIOUS
<1> DEFINE len == IF length >= Len(rest) THEN Len(rest) ELSE length
<1>1. /\ b.body = [i \in 1 .. length |-> IF i <= len THEN rest[i] ELSE Session!NUL]
      /\ b.at = len /\ b.left = length - len
  BY <1>0 DEF Session!Resized
<1>2. Len(rest) \in Nat /\ \A k \in 1 .. Len(rest) : rest[k] \in Symbols
  OBVIOUS
<1>3. len \in Nat /\ len <= length /\ len <= Len(rest)
  BY <1>2
<1>4. length - len > 0 => len = Len(rest)
  BY <1>2
<1> HIDE DEF len
<1>5. \A i \in 1 .. length : (IF i <= len THEN rest[i] ELSE Session!NUL) \in Data
  BY <1>2, <1>3 DEF Data
<1>6. DOMAIN b.body = 1 .. length /\ b.body \in [1 .. length -> Data]
  BY <1>1, <1>5
<1>7. b.body \in Seq(Data) /\ Len(b.body) = length
  BY <1>6
<1>8. \A k \in 1 .. len : b.body[k] = rest[k]
  BY <1>1, <1>3
<1>9. length = 0 => b.body = <<>> /\ length - len = 0
  BY <1>1, <1>3
<1>10. length - len \in Nat /\ len + (length - len) = length /\ (length - len = 0 => len = length)
  BY <1>3
<1>11. Begins(b, length, rest)
  BY <1>1, <1>3, <1>4, <1>6, <1>7, <1>8, <1>9, <1>10 DEF Begins
<1> QED
  BY <1>0, <1>11

\* The place where the head of a request is found, and what is in front.
Found(i) ==
  /\ i \in 1 .. Len(requests) /\ Earlier(i)
  /\ half = 0 => pos = Stop(requests, i - 1)
  /\ half # 0 => half = i /\ pos = Stop(requests, i - 1) + 1
  /\ clean /\ misses = 0 => i = Len(answers) + 1
  /\ clean /\ misses = 0 /\ half # 0 => requests[i].body = <<>>

\* The head that recvRequest reads where it stands is the one of the request at
\* hand.
LEMMA HeadFound ==
  ASSUME Session!SessionAssumption, SessionInv, s_pc = "head",
         NEW i \in DOMAIN requests, NEW x,
         half = 0 => x = requests[i].head, half # 0 => i = half,
         pos + 1 \in 1 .. Len(Sent(requests)), x = Sent(requests)[pos + 1]
  PROVE  Found(i)
<1> USE DEF SessionInv
<1>1. /\ Len(requests) \in Nat /\ DOMAIN requests = 1 .. Len(requests)
      /\ \A k \in 0 .. Len(requests) : Stop(requests, k) \in Nat
      /\ \A k, j \in 0 .. Len(requests) : k < j => Stop(requests, k) < Stop(requests, j)
  BY RequestsFacts
<1>2. i \in 1 .. Len(requests) /\ i - 1 \in 0 .. Len(requests) /\ i - 1 < i
  BY <1>1
<1>3. CASE half # 0
  <2>1. half = i /\ pos = Stop(requests, i - 1) + 1 /\ Earlier(i)
        /\ (clean /\ misses = 0 => i = Len(answers) + 1 /\ requests[i].body = <<>>)
    BY <1>3 DEF Halved
  <2> QED
    BY <1>2, <1>3, <2>1 DEF Found
<1>4. CASE half = 0
  <2>1. pos = Stop(requests, i - 1)
    <3>1. requests \in Conversations
      BY DEF SessionTypes
    <3>2. pos + 1 = Stop(requests, i - 1) + 1
      BY <1>2, <1>4, <3>1, HeadPlace
    <3>3. pos \in Nat /\ Stop(requests, i - 1) \in Nat
      BY <1>1, <1>2 DEF SessionTypes
    <3> QED
      BY <3>2, <3>3
  <2>2. Earlier(i)
    <3> SUFFICES ASSUME NEW j \in 1 .. Len(answers) PROVE answers[j].i < i
      BY DEF Earlier
    <3>1. answers[j].i \in 1 .. Len(requests) /\ Stop(requests, answers[j].i - 1) < pos
      BY DEF SessionAnswered
    <3> DEFINE a == answers[j].i
    <3>2. a \in Nat /\ a - 1 \in 0 .. Len(requests) /\ i \in Nat
      <4>1. a \in 1 .. Len(requests)
        BY <3>1
      <4> HIDE DEF a
      <4>2. PICK l \in Nat : l = Len(requests)
        BY <1>1
      <4>3. a \in 1 .. l /\ i \in 1 .. l
        BY <1>2, <4>1, <4>2
      <4>4. a \in Nat /\ a - 1 \in 0 .. l /\ i \in Nat
        BY <4>3
      <4> QED
        BY <4>2, <4>4
    <3> HIDE DEF a
    <3>3. Stop(requests, a - 1) < Stop(requests, i - 1)
      BY <2>1, <3>1 DEF a
    <3>4. /\ i - 1 < a - 1 => Stop(requests, i - 1) < Stop(requests, a - 1)
          /\ Stop(requests, a - 1) \in Nat /\ Stop(requests, i - 1) \in Nat
      BY <1>1, <1>2, <3>2
    <3>5. ~ i - 1 < a - 1 /\ a # i
      BY <3>3, <3>4
    <3>6. a < i
      BY <3>2, <3>5
    <3> QED
      BY <3>6 DEF a
  <2>3. ASSUME clean, misses = 0 PROVE i = Len(answers) + 1
    <3>1. Len(answers) <= Len(requests) /\ pos = Stop(requests, Len(answers))
      BY <1>4, <2>3 DEF Between
    <3>2. Len(answers) \in Nat
      BY DEF SessionTypes
    <3> DEFINE a == Len(answers)
    <3>3. a \in 0 .. Len(requests)
      BY <1>1, <3>1, <3>2
    <3>4. Stop(requests, a) = Stop(requests, i - 1)
      BY <2>1, <3>1
    <3> HIDE DEF a
    <3>5. ~ a < i - 1 /\ ~ i - 1 < a
      BY <1>1, <1>2, <3>3, <3>4
    <3>6. a \in Nat /\ i \in Nat /\ a = i - 1
      BY <1>1, <1>2, <3>3, <3>5
    <3> QED
      BY <3>6 DEF a
  <2> QED
    BY <1>2, <1>4, <2>1, <2>2, <2>3 DEF Found
<1> QED
  BY <1>3, <1>4

\* The first half of a head.
LEMMA HeadHalf ==
  ASSUME Session!SessionAssumption, SessionInv, s_pc = "head", half = 0, NEW i, Found(i),
         pos' = pos + 1, pos' <= sent, UNCHANGED Session!readVars, half' = i,
         clean' = (clean /\ requests[i].body = <<>>),
         UNCHANGED <<s_pc, req, isClose, answers, misses>>
  PROVE  SessionInv'
<1> USE DEF SessionInv
<1>0. UNCHANGED <<requests, m_isKeepalive, sent, client>>
  BY DEF Session!readVars
<1>1. pos' \in Nat /\ pos <= pos' /\ i # 0 /\ i \in 0 .. Len(requests)
  BY RequestsFacts DEF SessionTypes, Found
<1>2. SessionTypes'
  BY <1>0, <1>1 DEF SessionTypes
<1>3. \A j \in 1 .. Len(answers)' : SessionAnswered(j)'
  BY <1>0, <1>1, AnswersStay
<1>4. Halved'
  <2>1. /\ s_pc' \in {"head", "done"} /\ pos' = Stop(requests, i - 1) + 1
        /\ \A j \in 1 .. Len(answers) : answers[j].i < i
        /\ clean' /\ misses' = 0 => i = Len(answers) + 1 /\ requests[i].body = <<>>
    BY DEF Found, Earlier
  <2> QED
    BY <1>0, <2>1 DEF Halved, Earlier
<1>5. Begun' /\ Filling' /\ Complete' /\ Keeping' /\ Between'
  BY <1>0, <1>1 DEF Begun, Filling, Complete, Keeping, Between
<1> QED
  BY <1>2, <1>3, <1>4, <1>5

\* A whole head, and what is behind it.
LEMMA HeadWhole ==
  ASSUME Session!SessionAssumption, SessionInv, s_pc = "head", NEW i, Found(i),
         NEW n \in Nat \ {0}, NEW stop, stop = (IF half = 0 THEN 2 ELSE 1), ~ n < stop,
         pos' = pos + n, pos' <= sent, UNCHANGED Session!readVars,
         NEW rest \in Seq(Symbols), Len(rest) = n - stop,
         \A k \in 1 .. Len(rest) : rest[k] = Sent(requests)[pos + stop + k],
         Session!Headed(i, rest), clean' = (clean /\ pos + n <= Session!EndOf(i)),
         UNCHANGED <<answers, misses>>
  PROVE  SessionInv'
<1> USE DEF SessionInv
<1>0. UNCHANGED <<requests, m_isKeepalive, sent, client>>
  BY DEF Session!readVars
<1> DEFINE length == IF half = 0 THEN Len(requests[i].body) ELSE 0
           start == Stop(requests, i - 1)
<1>1. PICK b : b = Session!Resized(length, rest)
  OBVIOUS
<1>2. /\ req' = [i |-> i, at |-> b.at, left |-> b.left, body |-> b.body]
      /\ isClose' = TRUE /\ half' = 0
      /\ s_pc' = IF b.left > 0 THEN "fix" ELSE "handle"
  BY <1>1 DEF Session!Headed
<1>3. /\ i \in 1 .. Len(requests) /\ i \in Nat /\ Len(requests) \in Nat
      /\ Earlier(i) /\ pos + stop = start + 2
      /\ start \in Nat /\ pos \in Nat /\ stop \in Nat
      /\ (clean /\ misses = 0 => i = Len(answers) + 1)
      /\ (clean /\ misses = 0 /\ half # 0 => requests[i].body = <<>>)
  <2>1. i \in 1 .. Len(requests) /\ Len(requests) \in Nat /\ i - 1 \in 0 .. Len(requests)
    BY RequestsFacts DEF Found
  <2>2. start \in Nat /\ pos \in Nat
    BY <2>1, RequestsFacts DEF SessionTypes
  <2>3. pos + stop = start + 2 /\ stop \in Nat
    <3>1. CASE half = 0
      BY <2>2, <3>1 DEF Found
    <3>2. CASE half # 0
      BY <2>2, <3>2 DEF Found
    <3> QED
      BY <3>1, <3>2
  <2> HIDE DEF start
  <2>4. i \in Nat
    BY <2>1
  <2>5. /\ Earlier(i) /\ (clean /\ misses = 0 => i = Len(answers) + 1)
        /\ (clean /\ misses = 0 /\ half # 0 => requests[i].body = <<>>)
    BY DEF Found
  <2> QED
    BY <2>1, <2>2, <2>3, <2>4, <2>5
<1>4. /\ requests[i].body \in Seq(Symbols) /\ Len(requests[i].body) \in Nat
      /\ Stop(requests, i) = start + 2 + Len(requests[i].body)
      /\ \A k \in 1 .. Len(requests[i].body) : Sent(requests)[start + 2 + k] = requests[i].body[k]
  BY <1>3, RequestsFacts DEF Placed
<1>5. length \in Nat /\ (half = 0 => length = Len(requests[i].body)) /\ (half # 0 => length = 0)
  BY <1>4
<1> HIDE DEF length
<1>6. /\ b.body \in Seq(Data) /\ b.at \in Nat /\ b.left \in Nat
      /\ DOMAIN b.body = 1 .. length /\ Len(b.body) = length /\ b.at + b.left = length
      /\ \A k \in 1 .. b.at : b.body[k] = rest[k]
      /\ (b.left > 0 => b.at = Len(rest))
      /\ (b.left = 0 => length <= Len(rest) /\ b.at = length)
      /\ (length = 0 => b.body = <<>> /\ b.left = 0)
  <2>1. Begins(b, length, rest)
    BY <1>1, <1>5, ResizedFacts
  <2> QED
    BY <2>1 DEF Begins
<1>7. /\ req' \in SessionRequests /\ req'.i = i /\ req'.at = b.at /\ req'.left = b.left
      /\ req'.body = b.body
  BY <1>2, <1>3, <1>6, SessionRecords
<1> HIDE DEF start
<1>8. pos' \in Nat /\ pos <= pos' /\ start < pos' /\ pos' = start + 2 + Len(rest)
           /\ Len(rest) \in Nat
  <2>1. Len(rest) \in Nat
    OBVIOUS
  <2>2. PICK l \in Nat : l = Len(rest)
    BY <2>1
  <2>3. l = n - stop /\ pos + stop = start + 2
    BY <1>3, <2>2
  <2>4. /\ pos + n = start + 2 + l /\ pos <= pos + n /\ start < pos + n /\ pos + n \in Nat
    BY <1>3, <2>3
  <2> QED
    BY <2>1, <2>2, <2>4
<1>9. \A k \in 1 .. Len(rest) : rest[k] = Sent(requests)[start + 2 + k]
  BY <1>3
<1>10. SessionTypes'
  <2>1. s_pc' \in SessionPlaces /\ isClose' \in BOOLEAN /\ clean' \in BOOLEAN
    BY <1>2 DEF SessionPlaces, SessionTypes
  <2>2. half' \in 0 .. Len(requests) /\ i \in 0 .. Len(requests)
    BY <1>2, <1>3
  <2> QED
    BY <1>0, <1>7, <1>8, <2>1, <2>2 DEF SessionTypes
<1>11. \A j \in 1 .. Len(answers)' : SessionAnswered(j)'
  BY <1>0, <1>8, AnswersStay
<1>12. Halved' /\ Between' /\ Keeping'
  BY <1>0, <1>2 DEF Halved, Between, Keeping
<1>13. Begun'
  <2>1. clean' /\ misses = 0 => i = Len(answers) + 1
    BY <1>3
  <2> QED
    BY <1>0, <1>2, <1>3, <1>7, <1>8, <2>1 DEF Begun, Earlier, start
<1>14. b.left > 0 => half = 0 /\ length = Len(requests[i].body)
  BY <1>5, <1>6
<1>15. \A k \in 1 .. b.at : half = 0 => b.body[k] = requests[i].body[k]
  <2> SUFFICES ASSUME NEW k \in 1 .. b.at, half = 0 PROVE b.body[k] = requests[i].body[k]
    OBVIOUS
  <2>1. k \in 1 .. Len(requests[i].body) /\ k \in 1 .. Len(rest)
    <3>1. b.at <= length /\ b.at <= Len(rest)
      BY <1>6, <1>8
    <3> QED
      BY <1>4, <1>5, <1>6, <1>8, <3>1
  <2> QED
    BY <1>4, <1>6, <1>9, <2>1
<1>16. Filling'
  <2> SUFFICES ASSUME s_pc' = "fix"
               PROVE  /\ b.at \in Nat /\ DOMAIN b.body = 1 .. Len(requests[i].body)
                      /\ b.at + b.left = Len(requests[i].body)
                      /\ pos' = start + 2 + b.at
                      /\ \A k \in 1 .. b.at : b.body[k] = requests[i].body[k]
    BY <1>0, <1>7 DEF Filling, start
  <2>1. b.left > 0
    BY <1>2
  <2> QED
    BY <1>6, <1>8, <1>14, <1>15, <2>1
<1>17. Complete'
  <2> SUFFICES ASSUME s_pc' = "handle", misses = 0
               PROVE  /\ b.body \in {requests[i].body, <<>>}
                      /\ clean' => b.body = requests[i].body /\ pos' = Stop(requests, i)
    BY <1>0, <1>7 DEF Complete
  <2>1. b.left = 0
    BY <1>2, <1>6
  <2>2. CASE half = 0
    <3>1. length = Len(requests[i].body) /\ b.at = length /\ length <= Len(rest)
      BY <1>5, <1>6, <2>1, <2>2
    <3>2. b.body = requests[i].body
      <4>1. Len(b.body) = Len(requests[i].body)
        BY <1>4, <1>6, <3>1
      <4>2. b.body \in Seq(Data) /\ requests[i].body \in Seq(Data)
        BY <1>4, <1>6 DEF Data
      <4>3. \A k \in 1 .. Len(b.body) : b.body[k] = requests[i].body[k]
        BY <1>15, <2>2, <3>1, <4>1
      <4> QED
        BY <4>1, <4>2, <4>3, SameSequence
    <3>3. clean' => pos' <= Stop(requests, i)
      BY WireNames
    <3>4. pos' >= Stop(requests, i)
      <4>1. PICK x \in Nat : x = Len(requests[i].body)
        BY <1>4
      <4>2. PICK y \in Nat : y = Len(rest)
        BY <1>8
      <4>3. x <= y /\ Stop(requests, i) = start + 2 + x /\ pos' = start + 2 + y
        BY <1>4, <1>8, <3>1, <4>1, <4>2
      <4> QED
        BY <1>3, <4>3
    <3>5. Stop(requests, i) \in Nat
      <4>1. i \in 0 .. Len(requests)
        BY <1>3
      <4> QED
        BY <4>1, RequestsFacts
    <3> QED
      BY <1>8, <3>2, <3>3, <3>4, <3>5
  <2>3. CASE half # 0
    <3>1. b.body = <<>>
      BY <1>5, <1>6, <2>3
    <3>2. ASSUME clean' PROVE requests[i].body = <<>> /\ pos' = Stop(requests, i)
      <4>1. requests[i].body = <<>>
        BY <1>3, <2>3, <3>2
      <4>2. Stop(requests, i) = start + 2
        BY <1>3, <1>4, <4>1
      <4>3. pos' <= Stop(requests, i)
        BY <3>2, WireNames
      <4> QED
        BY <1>3, <1>8, <4>1, <4>2, <4>3
    <3> QED
      BY <3>1, <3>2
  <2> QED
    BY <2>2, <2>3
<1> QED
  BY <1>10, <1>11, <1>12, <1>13, <1>16, <1>17

\* recvRequest reads a head.
LEMMA NextReadHead ==
  ASSUME Session!SessionAssumption, SessionInv, NEW n, Session!ReadHead(n)
  PROVE  SessionInv'
<1> USE DEF SessionInv
<1> DEFINE take == Session!Take(n)
           Starts == {i \in DOMAIN requests :
                        IF half = 0 THEN take[1] = requests[i].head ELSE i = half}
           stop == IF half = 0 THEN 2 ELSE 1
<1>1. /\ s_pc = "head" /\ Session!Reads(n, s_buff_size) /\ UNCHANGED <<answers, misses>>
      /\ \/ Starts = {} /\ s_pc' = "done" /\ UNCHANGED <<half, req, isClose, clean>>
         \/ \E i \in Starts :
              \/ /\ n < stop /\ half' = i /\ clean' = (clean /\ requests[i].body = <<>>)
                 /\ UNCHANGED <<s_pc, req, isClose>>
              \/ /\ ~ n < stop /\ Session!Headed(i, SubSeq(take, stop + 1, n))
                 /\ clean' = (clean /\ pos + n <= Session!EndOf(i))
  BY DEF Session!ReadHead
<1>2. /\ n \in Nat \ {0} /\ pos' = pos + n /\ pos' \in Nat /\ pos <= pos' /\ pos' <= sent
      /\ UNCHANGED Session!readVars /\ take \in Seq(Symbols) /\ Len(take) = n
      /\ \A k \in 1 .. n : take[k] = Sent(requests)[pos + k] /\ pos + k \in 1 .. Len(Sent(requests))
  BY <1>1, TakeFacts
<1>3. UNCHANGED <<requests, m_isKeepalive, sent, client>>
  BY <1>2 DEF Session!readVars
<1>4. CASE Starts = {} /\ s_pc' = "done" /\ UNCHANGED <<half, req, isClose, clean>>
  <2>1. half = 0
    <3>1. half \in 0 .. Len(requests) /\ DOMAIN requests = 1 .. Len(requests)
               /\ Len(requests) \in Nat
      BY RequestsFacts DEF SessionTypes
    <3>2. half # 0 => half \in Starts
      BY <3>1
    <3> QED
      BY <1>4, <3>2
  <2>2. SessionTypes'
    BY <1>1, <1>2, <1>3, <1>4 DEF SessionTypes, SessionPlaces
  <2>3. \A j \in 1 .. Len(answers)' : SessionAnswered(j)'
    BY <1>1, <1>2, <1>3, <1>4, AnswersStay
  <2>4. Halved' /\ Begun' /\ Filling' /\ Complete' /\ Between' /\ Keeping'
    BY <1>1, <1>3, <1>4, <2>1 DEF Halved, Begun, Filling, Complete, Between, Keeping
  <2> QED
    BY <2>2, <2>3, <2>4
<1>5. ASSUME NEW i \in Starts PROVE Found(i)
  <2>1. i \in DOMAIN requests /\ (half = 0 => take[1] = requests[i].head) /\ (half # 0 => i = half)
    OBVIOUS
  <2>2. pos + 1 \in 1 .. Len(Sent(requests)) /\ take[1] = Sent(requests)[pos + 1]
    BY <1>2
  <2> HIDE DEF take, Starts
  <2> QED
    BY <1>1, <2>1, <2>2, HeadFound
<1>6. ASSUME NEW i \in Starts, n < stop, half' = i, clean' = (clean /\ requests[i].body = <<>>),
             UNCHANGED <<s_pc, req, isClose>>
      PROVE  SessionInv'
  <2>1. half = 0 /\ n = 1
    BY <1>2, <1>6
  <2>2. Found(i)
    BY <1>5
  <2> HIDE DEF Starts, take
  <2> QED
    BY <1>1, <1>2, <1>6, <2>1, <2>2, HeadHalf
<1>7. ASSUME NEW i \in Starts, ~ n < stop, Session!Headed(i, SubSeq(take, stop + 1, n)),
             clean' = (clean /\ pos + n <= Session!EndOf(i))
      PROVE  SessionInv'
  <2> DEFINE rest == SubSeq(take, stop + 1, n)
  <2>1. Found(i)
    BY <1>5
  <2> HIDE DEF Starts, take, stop
  <2>2. stop \in Nat /\ n - stop \in Nat /\ stop + (n - stop) = n
             /\ stop = (IF half = 0 THEN 2 ELSE 1)
    BY <1>2, <1>7 DEF stop
  <2>3. /\ rest \in Seq(Symbols) /\ Len(rest) = n - stop
        /\ \A k \in 1 .. n - stop : rest[k] = take[stop + k] /\ stop + k \in 1 .. n
    <3>1. stop + (n - stop) <= Len(take)
      BY <1>2, <2>2
    <3>2. PICK m \in Nat : m = n - stop
      BY <2>2
    <3>3. /\ SubSeq(take, stop + 1, stop + m) \in Seq(Symbols)
          /\ Len(SubSeq(take, stop + 1, stop + m)) = m
          /\ \A k \in 1 .. m : /\ SubSeq(take, stop + 1, stop + m)[k] = take[stop + k]
                               /\ stop + k \in 1 .. Len(take)
      BY <1>2, <2>2, <3>1, <3>2, Part
    <3> QED
      BY <1>2, <2>2, <3>2, <3>3
  <2>4. \A k \in 1 .. Len(rest) : rest[k] = Sent(requests)[pos + stop + k]
    <3> TAKE k \in 1 .. Len(rest)
    <3>1. rest[k] = take[stop + k] /\ stop + k \in 1 .. n
      BY <2>3
    <3>2. take[stop + k] = Sent(requests)[pos + (stop + k)]
      BY <1>2, <3>1
    <3>3. pos + (stop + k) = pos + stop + k
      BY <2>2 DEF SessionTypes
    <3> QED
      BY <3>1, <3>2, <3>3
  <2> HIDE DEF rest
  <2>5. Session!Headed(i, rest)
    BY <1>7 DEF rest
  <2>6. /\ s_pc = "head" /\ Found(i) /\ n \in Nat \ {0}
        /\ stop = (IF half = 0 THEN 2 ELSE 1) /\ ~ n < stop
        /\ pos' = pos + n /\ pos' <= sent /\ UNCHANGED Session!readVars
        /\ rest \in Seq(Symbols) /\ Len(rest) = n - stop
        /\ \A k \in 1 .. Len(rest) : rest[k] = Sent(requests)[pos + stop + k]
        /\ Session!Headed(i, rest) /\ clean' = (clean /\ pos + n <= Session!EndOf(i))
        /\ UNCHANGED <<answers, misses>>
    BY <1>1, <1>2, <1>7, <2>1, <2>2, <2>3, <2>4, <2>5
  <2> QED
    BY <2>6, HeadWhole
<1> QED
  BY <1>1, <1>4, <1>6, <1>7

\* A body with the next bytes put in.
Fills(f, g, take) ==
  /\ g.body \in Seq(Data) /\ DOMAIN g.body = DOMAIN f.body /\ Len(g.body) = Len(f.body)
  /\ g.at = f.at + Len(take) /\ g.left = f.left - Len(take)
  /\ \A k \in DOMAIN f.body :
       g.body[k] = IF k \in f.at + 1 .. f.at + Len(take) THEN take[k - f.at] ELSE f.body[k]

\* readFixSize writes what it read behind what it has.
LEMMA FilledFacts ==
  ASSUME NEW f \in SessionRequests, NEW take \in Seq(Symbols)
  PROVE  Fills(f, Session!Filled(f, take), take)
<1>0. PICK g : g = Session!Filled(f, take)
  OBVIOUS
<1>1. /\ g.body = [k \in DOMAIN f.body |->
                     IF k \in f.at + 1 .. f.at + Len(take) THEN take[k - f.at] ELSE f.body[k]]
      /\ g.at = f.at + Len(take) /\ g.left = f.left - Len(take)
  BY <1>0 DEF Session!Filled
<1>2. f.body \in Seq(Data) /\ f.at \in Int /\ Len(take) \in Nat
  BY SessionRecords
<1>3. PICK q \in Seq(Data) : q = f.body
  BY <1>2
<1>4. DOMAIN q = 1 .. Len(q) /\ Len(q) \in Nat /\ \A k \in 1 .. Len(q) : q[k] \in Data
  OBVIOUS
<1>5. ASSUME NEW k \in 1 .. Len(q)
      PROVE  (IF k \in f.at + 1 .. f.at + Len(take) THEN take[k - f.at] ELSE q[k]) \in Data
  <2>1. CASE k \in f.at + 1 .. f.at + Len(take)
    <3>1. k - f.at \in 1 .. Len(take)
      BY <1>2, <2>1
    <3>2. take[k - f.at] \in Symbols
      BY <3>1
    <3> QED
      BY <2>1, <3>2 DEF Data
  <2>2. CASE k \notin f.at + 1 .. f.at + Len(take)
    BY <1>4, <2>2
  <2> QED
    BY <2>1, <2>2
<1>6. g.body \in [1 .. Len(q) -> Data]
  <2> DEFINE Next1(k) == IF k \in f.at + 1 .. f.at + Len(take) THEN take[k - f.at] ELSE q[k]
  <2>1. g.body = [k \in 1 .. Len(q) |-> Next1(k)]
    BY <1>1, <1>3, <1>4
  <2>2. \A k \in 1 .. Len(q) : Next1(k) \in Data
    BY <1>5
  <2> HIDE DEF Next1
  <2> QED
    BY <2>1, <2>2
<1>7. g.body \in Seq(Data) /\ DOMAIN g.body = 1 .. Len(q) /\ Len(g.body) = Len(q)
  BY <1>4, <1>6
<1>8. \A k \in DOMAIN f.body :
       g.body[k] = IF k \in f.at + 1 .. f.at + Len(take) THEN take[k - f.at] ELSE f.body[k]
  BY <1>1, Zenon
<1>9. Fills(f, g, take)
  BY <1>1, <1>3, <1>4, <1>7, <1>8 DEF Fills
<1> QED
  BY <1>0, <1>9

\* The rest of a body is read, or a read past a body that was missed.
LEMMA NextReadFix ==
  ASSUME Session!SessionAssumption, SessionInv, NEW n, Session!ReadFix(n)
  PROVE  SessionInv'
<1> USE DEF SessionInv
<1> DEFINE take == Session!Take(n)
<1>1. /\ s_pc = "fix" /\ Session!Reads(n, req.left)
      /\ UNCHANGED <<half, isClose, answers, misses, clean>>
      /\ \/ s_pc' = "done" /\ UNCHANGED req
         \/ /\ req' = [req EXCEPT !.at = Session!Filled(req, take).at, !.left = Session!Filled(req, take).left,
                                  !.body = Session!Filled(req, take).body]
            /\ s_pc' = IF Session!Filled(req, take).left = 0 THEN "handle" ELSE "fix"
  BY DEF Session!ReadFix
<1>2. /\ n \in Nat \ {0} /\ n \in 1 .. req.left /\ pos' = pos + n /\ pos' \in Nat /\ pos <= pos'
      /\ pos' <= sent
      /\ UNCHANGED Session!readVars /\ take \in Seq(Symbols) /\ Len(take) = n
      /\ \A k \in 1 .. n : take[k] = Sent(requests)[pos + k] /\ pos + k \in 1 .. Len(Sent(requests))
  BY <1>1, TakeFacts
<1> HIDE DEF take
<1>3. UNCHANGED <<requests, m_isKeepalive, sent, client>>
  BY <1>2 DEF Session!readVars
<1>4. half = 0
  BY <1>1 DEF Halved
<1>5. \A j \in 1 .. Len(answers)' : SessionAnswered(j)'
  BY <1>1, <1>2, <1>3, AnswersStay
<1>6. CASE s_pc' = "done" /\ UNCHANGED req
  <2>1. SessionTypes'
    BY <1>1, <1>2, <1>3, <1>6 DEF SessionTypes, SessionPlaces
  <2>2. Halved' /\ Begun' /\ Filling' /\ Complete' /\ Between' /\ Keeping'
    BY <1>1, <1>3, <1>4, <1>6 DEF Halved, Begun, Filling, Complete, Between, Keeping
  <2> QED
    BY <1>5, <2>1, <2>2
<1>7. ASSUME req' = [req EXCEPT !.at = Session!Filled(req, take).at, !.left = Session!Filled(req, take).left,
                                !.body = Session!Filled(req, take).body],
             s_pc' = IF Session!Filled(req, take).left = 0 THEN "handle" ELSE "fix"
      PROVE  SessionInv'
  <2>1. PICK g : g = Session!Filled(req, take)
    OBVIOUS
  <2>2. req \in SessionRequests
    BY DEF SessionTypes
  <2>3. Fills(req, g, take)
    BY <1>2, <2>1, <2>2, FilledFacts
  <2>4. /\ req.i \in Nat /\ req.at \in Int /\ req.left \in Nat /\ req.body \in Seq(Data)
    BY <2>2, SessionRecords
  <2>5. /\ g.body \in Seq(Data) /\ DOMAIN g.body = DOMAIN req.body /\ Len(g.body) = Len(req.body)
        /\ g.at = req.at + n /\ g.left = req.left - n
        /\ \A k \in DOMAIN req.body :
             g.body[k] = IF k \in req.at + 1 .. req.at + n THEN take[k - req.at] ELSE req.body[k]
    BY <1>2, <2>3 DEF Fills
  <2>6. g.at \in Int /\ g.left \in Nat
    BY <1>2, <2>4, <2>5
  <2>7. /\ req' \in SessionRequests /\ req'.i = req.i /\ req'.at = g.at /\ req'.left = g.left
        /\ req'.body = g.body
    BY <1>7, <2>1, <2>2, <2>5, <2>6 DEF SessionRequests
  <2>8. s_pc' = IF g.left = 0 THEN "handle" ELSE "fix"
    BY <1>7, <2>1
  <2>9. SessionTypes'
    <3>1. s_pc' \in SessionPlaces
      BY <2>8 DEF SessionPlaces
    <3> QED
      BY <1>1, <1>2, <1>3, <2>7, <3>1 DEF SessionTypes
  <2>10. Halved' /\ Between' /\ Keeping'
    BY <1>1, <1>3, <1>4, <2>8 DEF Halved, Between, Keeping
  <2>11. /\ req.i \in 1 .. Len(requests) /\ Stop(requests, req.i - 1) < pos /\ Earlier(req.i)
         /\ isClose
         /\ (clean /\ misses = 0 => req.i = Len(answers) + 1)
    BY <1>1 DEF Begun
  <2> DEFINE i == req.i
             start == Stop(requests, i - 1)
             own == requests[i].body
  <2>12. /\ start \in Nat /\ own \in Seq(Symbols) /\ Len(own) \in Nat /\ pos \in Nat
         /\ Stop(requests, i) = start + 2 + Len(own)
         /\ \A k \in 1 .. Len(own) : Sent(requests)[start + 2 + k] = own[k]
    <3>1. Placed(requests, i)
      BY <2>11, RequestsFacts
    <3> QED
      BY <3>1 DEF Placed, SessionTypes
  <2>13. Begun'
    <3>1. start < pos'
      BY <1>2, <2>11, <2>12
    <3> QED
      BY <1>1, <1>3, <2>7, <2>11, <3>1 DEF Begun, Earlier
  <2>14. ASSUME misses = 0
         PROVE  /\ g.at \in Nat /\ DOMAIN g.body = 1 .. Len(own) /\ g.at + g.left = Len(own)
                /\ pos' = start + 2 + g.at /\ \A k \in 1 .. g.at : g.body[k] = own[k]
    <3>1. /\ req.at \in Nat /\ DOMAIN req.body = 1 .. Len(own)
          /\ req.at + req.left = Len(own) /\ pos = start + 2 + req.at
          /\ \A k \in 1 .. req.at : req.body[k] = own[k]
      BY <1>1, <2>14 DEF Filling
    <3> HIDE DEF start, own, i
    <3>2. g.at \in Nat /\ g.at + g.left = Len(own) /\ pos' = start + 2 + g.at
      <4>1. PICK x \in Nat : x = req.at
        BY <3>1
      <4>2. PICK l \in Nat : l = req.left
        BY <2>4
      <4>3. g.at = x + n /\ g.left = l - n /\ x + l = Len(own) /\ pos = start + 2 + x
        BY <2>5, <3>1, <4>1, <4>2
      <4>4. x + n \in Nat /\ (x + n) + (l - n) = x + l /\ (start + 2 + x) + n = start + 2 + (x + n)
        BY <1>2, <2>12
      <4> QED
        BY <1>2, <4>3, <4>4
    <3>3. ASSUME NEW k \in 1 .. g.at PROVE g.body[k] = own[k]
      <4>1. k \in 1 .. Len(own) /\ k \in Nat
        BY <2>6, <2>12, <3>2
      <4>2. CASE k <= req.at
        <5>1. k \in 1 .. req.at /\ k \notin req.at + 1 .. req.at + n
          BY <3>1, <4>1, <4>2
        <5> QED
          BY <2>5, <3>1, <4>1, <5>1
      <4>3. CASE ~ k <= req.at
        <5>1. k \in req.at + 1 .. req.at + n /\ k - req.at \in 1 .. n
          <6>1. PICK x \in Nat : x = req.at
            BY <3>1
          <6>2. k \in 1 .. x + n /\ k > x /\ n \in Nat
            BY <1>2, <2>5, <4>1, <4>3, <6>1
          <6>3. k \in x + 1 .. x + n /\ k - x \in 1 .. n
            BY <6>2
          <6> QED
            BY <6>1, <6>3
        <5>2. g.body[k] = take[k - req.at]
          BY <2>5, <3>1, <4>1, <5>1
        <5>3. pos + (k - req.at) = start + 2 + k
          <6>1. PICK x \in Nat : x = req.at
            BY <3>1
          <6>2. (start + 2 + x) + (k - x) = start + 2 + k
            BY <2>12, <4>1
          <6> QED
            BY <3>1, <6>1, <6>2
        <5> QED
          BY <1>2, <2>12, <4>1, <5>1, <5>2, <5>3
      <4> QED
        BY <4>2, <4>3
    <3> QED
      BY <2>5, <3>1, <3>2, <3>3
  <2>15. Filling'
    BY <1>1, <1>3, <2>7, <2>14 DEF Filling
  <2>16. Complete'
    <3> SUFFICES ASSUME s_pc' = "handle", misses = 0
                 PROVE  g.body = own /\ pos' = Stop(requests, i)
      BY <1>1, <1>3, <2>7 DEF Complete
    <3>1. g.left = 0
      BY <2>8
    <3> HIDE DEF start, own, i
    <3>2. g.at = Len(own) /\ pos' = Stop(requests, i)
      <4>1. g.at \in Nat /\ g.at + 0 = Len(own) /\ pos' = start + 2 + g.at
        BY <2>14, <3>1
      <4>2. g.at = Len(own)
        BY <4>1
      <4> QED
        BY <2>12, <4>1, <4>2
    <3>3. Len(g.body) = Len(own)
      <4>1. DOMAIN g.body = 1 .. Len(g.body) /\ Len(g.body) \in Nat
        BY <2>5
      <4>2. \A x, y \in Nat : 1 .. x = 1 .. y => x = y
        <5> TAKE x \in Nat, y \in Nat
        <5> HAVE 1 .. x = 1 .. y
        <5>1. (x >= 1 => x \in 1 .. x) /\ (y >= 1 => y \in 1 .. y)
          OBVIOUS
        <5>2. (x >= 1 => x <= y) /\ (y >= 1 => y <= x)
          BY <5>1
        <5> QED
          BY <5>2
      <4> QED
        BY <2>12, <2>14, <4>1, <4>2
    <3>4. own \in Seq(Data) /\ \A k \in 1 .. Len(g.body) : g.body[k] = own[k]
      BY <2>12, <2>14, <3>2, <3>3 DEF Data
    <3>5. g.body = own
      BY <2>5, <3>3, <3>4, SameSequence
    <3> QED
      BY <3>2, <3>5
  <2> QED
    BY <1>5, <2>9, <2>10, <2>13, <2>15, <2>16
<1> QED
  BY <1>1, <1>6, <1>7

\* A read of a body times out: from now on the bodies can be wrong.
LEMMA NextMissFix ==
  ASSUME Session!SessionAssumption, SessionInv, Session!MissFix
  PROVE  SessionInv'
<1> USE DEF SessionInv
<1>1. /\ s_pc = "fix" /\ misses < MaxTimeouts /\ misses' = misses + 1
      /\ req' = Session!Missed(req)
      /\ s_pc' \in {"handle", "fix"}
      /\ UNCHANGED <<Session!readVars, pos, half, isClose, answers, clean>>
  BY DEF Session!MissFix
<1>2. UNCHANGED <<requests, m_isKeepalive, sent, client>>
  BY <1>1 DEF Session!readVars
<1>3. misses \in Nat /\ MaxTimeouts \in Nat
  BY DEF SessionTypes, Session!SessionAssumption
<1>4. misses' \in 0 .. MaxTimeouts /\ misses' # 0
  BY <1>1, <1>3
<1>5. req' \in SessionRequests /\ req'.i = req.i
  <2>1. req' = [[req EXCEPT !.at = req.at - 1] EXCEPT !.left = req.left + 1]
    BY <1>1, Zenon DEF Session!Missed
  <2>2. req \in SessionRequests /\ req.at - 1 \in Int /\ req.left + 1 \in Nat
    <3>1. req \in SessionRequests
      BY DEF SessionTypes
    <3>2. req.at \in Int /\ req.left \in Nat
      BY <3>1, SessionRecords
    <3> QED
      BY <3>1, <3>2
  <2> QED
    BY <2>1, <2>2 DEF SessionRequests
<1>6. SessionTypes'
  BY <1>1, <1>2, <1>4, <1>5 DEF SessionTypes, SessionPlaces
<1>7. \A j \in 1 .. Len(answers)' : SessionAnswered(j)'
  BY <1>1, <1>2, <1>4, AnswersStay DEF SessionTypes
<1>8. Begun'
  BY <1>1, <1>2, <1>4, <1>5 DEF Begun, Earlier
<1>9. Halved' /\ Filling' /\ Complete' /\ Between' /\ Keeping'
  BY <1>1, <1>2, <1>4 DEF Halved, Filling, Complete, Between, Keeping
<1> QED
  BY <1>6, <1>7, <1>8, <1>9

\* The session ends, or its response is sent.
LEMMA NextPlace ==
  ASSUME Session!SessionAssumption, SessionInv, s_pc' \in {"done", "spin", "head"},
         s_pc' = "head" => s_pc = "respond" /\ m_isKeepalive, half # 0 => s_pc' = "done",
         UNCHANGED <<Session!readVars, pos, half, req, isClose, answers, misses, clean>>
  PROVE  SessionInv'
<1> USE DEF SessionInv
<1>1. UNCHANGED <<requests, m_isKeepalive, sent, client>>
  BY DEF Session!readVars
<1>2. SessionTypes'
  BY <1>1 DEF SessionTypes, SessionPlaces
<1>3. \A j \in 1 .. Len(answers)' : SessionAnswered(j)'
  <2>1. pos' \in Nat /\ pos <= pos'
    BY DEF SessionTypes
  <2> QED
    BY <1>1, <2>1, AnswersStay
<1>4. Halved' /\ Begun' /\ Filling' /\ Complete' /\ Between' /\ Keeping'
  BY <1>1 DEF Halved, Begun, Filling, Complete, Between, Keeping, Earlier
<1> QED
  BY <1>2, <1>3, <1>4

\* recvRequest fails: the client went, or sent no head that can be parsed.
LEMMA NextFail == ASSUME Session!SessionAssumption, SessionInv, Session!Fail PROVE SessionInv'
<1>1. /\ s_pc' = "done"
      /\ UNCHANGED <<Session!readVars, pos, half, req, isClose, answers, misses, clean>>
  BY DEF Session!Fail
<1> QED
  BY <1>1, NextPlace

\* sendResponse answers the request, and the session ends or goes on.
LEMMA NextRespond ==
  ASSUME Session!SessionAssumption, SessionInv, Session!Respond
  PROVE  SessionInv'
<1>1. /\ s_pc = "respond" /\ s_pc' \in {"done", "spin", "head"}
      /\ (s_pc' = "head" => m_isKeepalive)
      /\ UNCHANGED <<Session!readVars, pos, half, req, isClose, answers, misses, clean>>
  BY DEF Session!Respond
<1>2. half = 0
  BY <1>1 DEF SessionInv, Halved
<1> QED
  BY <1>1, <1>2, NextPlace

\* A request is answered.
LEMMA NextHandle ==
  ASSUME Session!SessionAssumption, SessionInv, NEW keep \in BOOLEAN, Session!Handle(keep)
  PROVE  SessionInv'
<1> USE DEF SessionInv
<1>0. PICK a : a = [i |-> req.i, body |-> req.body, close |-> isClose \/ ~ m_isKeepalive]
  OBVIOUS
<1>1. /\ s_pc = "handle" /\ s_pc' = "respond" /\ isClose' = ~ keep
      /\ answers' = Append(answers, a)
      /\ UNCHANGED <<Session!readVars, pos, half, req, misses, clean>>
  BY <1>0, Zenon DEF Session!Handle
<1>2. UNCHANGED <<requests, m_isKeepalive, sent, client>>
  BY <1>1 DEF Session!readVars
<1>3. /\ req.i \in 1 .. Len(requests) /\ Stop(requests, req.i - 1) < pos /\ Earlier(req.i)
      /\ isClose
      /\ (clean /\ misses = 0 => req.i = Len(answers) + 1)
      /\ (misses = 0 => req.body \in {requests[req.i].body, <<>>})
      /\ (clean /\ misses = 0 => req.body = requests[req.i].body /\ pos = Stop(requests, req.i))
      /\ half = 0
  BY <1>1 DEF Begun, Complete, Halved
<1>4. a \in AnswerRecords /\ a.i = req.i /\ a.body = req.body /\ a.close
  <2>1. req.i \in Nat /\ req.body \in Seq(Data) /\ (isClose \/ ~ m_isKeepalive) \in BOOLEAN
    BY SessionRecords DEF SessionTypes
  <2> QED
    BY <1>0, <1>3, <2>1, SessionRecords
<1> DEFINE m == Len(answers)
<1>5. /\ m \in Nat /\ answers' \in Seq(AnswerRecords) /\ Len(answers') = m + 1
      /\ answers'[m + 1] = a /\ \A j \in 1 .. m : answers'[j] = answers[j]
  BY <1>1, <1>4 DEF SessionTypes
<1> HIDE DEF m
<1>6. SessionTypes'
  <2>1. isClose' \in BOOLEAN /\ s_pc' \in SessionPlaces
    BY <1>1 DEF SessionPlaces
  <2> QED
    BY <1>1, <1>2, <1>5, <2>1 DEF SessionTypes
<1>7. ASSUME NEW j \in 1 .. m + 1 PROVE SessionAnswered(j)'
  <2>1. CASE j \in 1 .. m
    <3>1. SessionAnswered(j)
      BY <2>1 DEF m
    <3>2. j > 1 => j - 1 \in 1 .. m
      BY <1>5, <2>1
    <3> QED
      BY <1>1, <1>2, <1>5, <2>1, <3>1, <3>2 DEF SessionAnswered
  <2>2. CASE j = m + 1
    <3>1. answers'[j] = a
      BY <1>5, <2>2
    <3>2. j > 1 => answers'[j - 1].i < a.i
      <4> SUFFICES ASSUME j > 1 PROVE answers'[j - 1].i < a.i
        OBVIOUS
      <4>1. j - 1 \in 1 .. m
        BY <1>5, <2>2
      <4>2. answers[j - 1].i < req.i
        BY <1>3, <4>1 DEF Earlier, m
      <4> QED
        BY <1>4, <1>5, <4>1, <4>2
    <3>3. clean /\ misses = 0 => a.i = j /\ a.body = requests[j].body
      BY <1>3, <1>4, <2>2 DEF m
    <3> QED
      BY <1>1, <1>2, <1>3, <1>4, <3>1, <3>2, <3>3 DEF SessionAnswered
  <2>3. j \in 1 .. m \/ j = m + 1
    BY <1>5
  <2> QED
    BY <2>1, <2>2, <2>3
<1>8. Between'
  <2> SUFFICES ASSUME clean, misses = 0
               PROVE  m + 1 <= Len(requests) /\ pos = Stop(requests, m + 1)
    BY <1>1, <1>2, <1>5 DEF Between
  <2>1. req.i = m + 1
    BY <1>3 DEF m
  <2> QED
    BY <1>3, <2>1
<1>9. Keeping'
  <2>1. Len(answers') > 1 => answers # <<>>
    BY <1>5 DEF m
  <2> QED
    BY <1>1, <1>2, <2>1 DEF Keeping
<1>10. Halved' /\ Begun' /\ Filling' /\ Complete'
  BY <1>1, <1>3 DEF Halved, Begun, Filling, Complete
<1> QED
  BY <1>5, <1>6, <1>7, <1>8, <1>9, <1>10

\* The invariant of the sessions.
LEMMA SessionInit == ASSUME Session!SessionAssumption, Session!Init PROVE SessionInv
<1>1. /\ requests \in Conversations /\ m_isKeepalive \in BOOLEAN
      /\ pos = 0 /\ sent = Len(Session!Wire) /\ client = "open" /\ s_pc = "head" /\ half = 0
      /\ req = Session!None
      /\ isClose = TRUE /\ answers = <<>> /\ misses = 0 /\ clean = TRUE
  BY DEF Session!Init
<1>2. Len(requests) \in Nat /\ Len(Sent(requests)) \in Nat /\ Stop(requests, 0) = 0
  BY <1>1, WireFacts
<1>3. req \in SessionRequests /\ req.i = 0
  <2>1. <<>> \in Seq(Data)
    OBVIOUS
  <2>2. Session!None \in SessionRequests
    BY <2>1 DEF Session!None, SessionRequests
  <2>3. Session!None.i = 0
    BY DEF Session!None
  <2> QED
    BY <1>1, <2>2, <2>3
<1>4. SessionTypes
  <2>1. <<>> \in Seq(AnswerRecords) /\ MaxTimeouts \in Nat
    BY DEF Session!SessionAssumption
  <2>2. sent = Len(Sent(requests))
    BY <1>1, WireNames
  <2>3. 0 \in 0 .. MaxTimeouts /\ 0 \in 0 .. Len(requests) /\ 0 <= Len(Sent(requests))
    BY <1>2, <2>1
  <2> QED
    BY <1>1, <1>2, <1>3, <2>1, <2>2, <2>3 DEF SessionTypes, SessionPlaces
<1>5. Len(answers) = 0
  BY <1>1
<1>6. \A j \in 1 .. Len(answers) : SessionAnswered(j)
  BY <1>5
<1>7. Halved /\ Begun /\ Filling /\ Complete /\ Between /\ Keeping
  BY <1>1, <1>2, <1>5 DEF Halved, Begun, Filling, Complete, Between, Keeping
<1> QED
  BY <1>4, <1>6, <1>7 DEF SessionInv

\* Every step of the session keeps the invariant.
LEMMA SessionNext == ASSUME Session!SessionAssumption, SessionInv, Session!Next PROVE SessionInv'
<1>1. ASSUME NEW n, Session!ReadHead(n) PROVE SessionInv'
  BY <1>1, NextReadHead
<1>2. ASSUME NEW n, Session!ReadFix(n) PROVE SessionInv'
  BY <1>2, NextReadFix
<1>3. ASSUME NEW keep \in BOOLEAN, Session!Handle(keep) PROVE SessionInv'
  BY <1>3, NextHandle
<1>4. ASSUME NEW how \in {"fin", "rst"}, Session!ClientCloses(how) PROVE SessionInv'
  BY <1>4, NextClientCloses
<1> QED
  BY <1>1, <1>2, <1>3, <1>4, NextMissFix, NextFail, NextRespond DEF Session!Next, Session!Serve

\* So does a step of others.
LEMMA SessionStay == ASSUME SessionInv, UNCHANGED Session!vars PROVE SessionInv'
  BY DEF SessionInv, SessionTypes, SessionAnswered, Earlier, Halved, Begun, Filling, Complete,
         Between, Keeping, Session!vars

\* What it says of the module's invariants.
LEMMA SessionTells ==
  ASSUME Session!SessionAssumption, SessionInv
  PROVE  Session!TypeOK /\ Session!AnswersExact
<1> USE DEF SessionInv
<1>1. Session!TypeOK
  <2>1. req.left \in Nat /\ pos \in 0 .. sent /\ sent <= Len(Session!Wire)
    BY SessionRecords, WireNames DEF SessionTypes
  <2> QED
    BY <2>1 DEF Session!TypeOK, SessionTypes, SessionPlaces
<1>2. DOMAIN answers = 1 .. Len(answers)
  BY DEF SessionTypes
<1>3. Session!AnswersExact
  BY <1>2 DEF Session!AnswersExact, SessionAnswered, Keeping
<1> QED
  BY <1>1, <1>3
-----------------------------------------------------------------------------
(* HttpConnection: recvResponse, with a body of declared length or one in  *)
(* chunks.  First the number that the digits of a size are.                *)

\* A set of numbers that are not too large has a greatest one.
LEMMA Greatest ==
  ASSUME NEW n \in Nat, NEW s, s \subseteq 1 .. n, s # {}
  PROVE  Connection!Max(s) \in s /\ \A y \in s : y <= Connection!Max(s)
<1> DEFINE T == {k \in Nat : \A y \in s : y <= k}
<1>1. n \in T
  OBVIOUS
<1>2. PICK k \in T : \A j \in T : k <= j
  <2>1. T \subseteq Nat /\ T # {}
    BY <1>1
  <2> HIDE DEF T
  <2> QED
    BY <2>1, Least
<1>3. k \in s
  <2>1. CASE k \notin s
    <3>1. PICK y \in s : TRUE
      OBVIOUS
    <3>2. k >= 1 /\ k - 1 \in Nat
      BY <3>1
    <3>3. \A x \in s : x <= k - 1
      BY <2>1
    <3>4. k - 1 \in T
      BY <3>2, <3>3
    <3> QED
      BY <1>2, <3>4
  <2> QED
    BY <2>1
<1>4. \E x \in s : \A y \in s : x >= y
  BY <1>3
<1> QED
  BY <1>4 DEF Connection!Max

Bit(d) == IF d = "1" THEN 1 ELSE 0

\* What the fold over the digits s computes: a number for every set of places.
Digits(s, F) ==
  /\ F \in [SUBSET DOMAIN s -> Nat]
  /\ \A S \in SUBSET DOMAIN s :
       F[S] = IF S = {} THEN 0 ELSE 2 * F[S \ {Connection!Max(S)}] + Bit(s[Connection!Max(S)])

\* Number is a sum over the places of the digits.
LEMMA DigitsExist ==
  ASSUME NEW n \in Nat, NEW s, DOMAIN s = 1 .. n
  PROVE  \E F : Digits(s, F) /\ Connection!Number(s) = F[1 .. n]
<1> DEFINE D == SUBSET (1 .. n)
           V == [D -> Nat]
           Unfold(F, S) == IF S = {} THEN 0
                ELSE 2 * F[S \ {Connection!Max(S)}] + Bit(s[Connection!Max(S)])
           h == [F \in V |-> [S \in D |-> Unfold(F, S)]]
           m == [S \in D |-> Cardinality(S)]
<1>0. IsFiniteSet(1 .. n)
  <2>1. 1 \in Int /\ n \in Int
    OBVIOUS
  <2> QED
    BY <2>1, FS_Interval
<1>1. \A S \in D : S # {} => /\ Connection!Max(S) \in S /\ S \ {Connection!Max(S)} \in D
  BY Greatest
<1>2. \A S \in D : Cardinality(S) \in Nat
  BY <1>0, FS_Subset, FS_CardinalityType
<1>3. \A S \in D : S # {} => Cardinality(S \ {Connection!Max(S)}) = Cardinality(S) - 1
  <2> SUFFICES ASSUME NEW S \in D, S # {}
               PROVE  Cardinality(S \ {Connection!Max(S)}) = Cardinality(S) - 1
    OBVIOUS
  <2>1. IsFiniteSet(S) /\ Connection!Max(S) \in S
    BY <1>0, <1>1, FS_Subset
  <2> QED
    BY <2>1, FS_RemoveElement
<1>b. \A x : Bit(x) \in Nat
  BY DEF Bit
<1>4. \A F \in V, S \in D : Unfold(F, S) \in Nat
  <2> TAKE F \in V, S \in D
  <2>1. CASE S = {}
    BY <2>1
  <2>2. CASE S # {}
    <3>1. Bit(s[Connection!Max(S)]) \in Nat /\ S \ {Connection!Max(S)} \in D
      BY <1>1, <1>b, <2>2
    <3>2. F[S \ {Connection!Max(S)}] \in Nat
      <4> HIDE DEF D
      <4> QED
        BY <3>1
    <3> QED
      BY <2>2, <3>1, <3>2
  <2> QED
    BY <2>1, <2>2
<1>5. h \in [V -> V]
  <2> HIDE DEF D, Unfold
  <2> QED
    BY <1>4
<1>6. m \in [D -> Nat]
  <2> HIDE DEF D
  <2> QED
    BY <1>2
<1>7. \A F, G \in V : \A S \in D :
        (\A y \in D : m[y] < m[S] => F[y] = G[y]) => h[F][S] = h[G][S]
  <2> SUFFICES ASSUME NEW F \in V, NEW G \in V, NEW S \in D,
                      \A y \in D : m[y] < m[S] => F[y] = G[y]
               PROVE  h[F][S] = h[G][S]
    OBVIOUS
  <2>1. Unfold(F, S) = Unfold(G, S)
    <3>1. S # {} => S \ {Connection!Max(S)} \in D /\ m[S \ {Connection!Max(S)}] < m[S]
      <4> SUFFICES ASSUME S # {}
                   PROVE  S \ {Connection!Max(S)} \in D /\ m[S \ {Connection!Max(S)}] < m[S]
        OBVIOUS
      <4>1. S \ {Connection!Max(S)} \in D
        BY <1>1
      <4>2. Cardinality(S \ {Connection!Max(S)}) < Cardinality(S)
        BY <1>2, <1>3
      <4> QED
        BY <4>1, <4>2
    <3>2. S # {} => F[S \ {Connection!Max(S)}] = G[S \ {Connection!Max(S)}]
      <4> HIDE DEF D, m
      <4> QED
        BY <3>1
    <3> QED
      BY <3>2
  <2>2. h[F][S] = Unfold(F, S) /\ h[G][S] = Unfold(G, S)
    <3> HIDE DEF V, D, Unfold
    <3> QED
      OBVIOUS
  <2> QED
    BY <2>1, <2>2
<1>8. PICK F \in V : F = h[F]
  <2>1. V = [D -> Nat] /\ 0 \in Nat
    OBVIOUS
  <2> HIDE DEF D, V, h, m
  <2>2. Recursive(h, m, D, V)
    BY <1>5, <1>6, <1>7 DEF Recursive, Maps
  <2>3. \E F \in V : F = h[F]
    BY <2>1, <2>2, RecursionOfNumbers
  <2> QED
    BY <2>3
<1>9. F = [S \in D |-> Unfold(F, S)]
  <2> HIDE DEF V, D, Unfold
  <2> QED
    BY <1>8
<1> DEFINE Eq(it) == it = [S \in SUBSET DOMAIN s |->
                 IF S = {} THEN 0 ELSE 2 * it[S \ {Connection!Max(S)}] + (IF s[Connection!Max(S)] = "1" THEN 1 ELSE 0)]
           c == CHOOSE it : Eq(it)
<1>10. Connection!Number(s) = c[DOMAIN s]
  BY Zenon DEF Connection!Number, Connection!FoldLeft, Connection!MapThenFoldSet
<1>11. Eq(c)
  <2>1. Eq(F)
    BY <1>9 DEF Bit
  <2> HIDE DEF Eq
  <2> QED
    BY <2>1
<1>12. c = [S \in D |-> Unfold(c, S)]
  BY <1>11 DEF Bit
<1> HIDE DEF c, Eq
<1>13. \A S \in D : c[S] = Unfold(c, S)
  <2> HIDE DEF D, Unfold
  <2> QED
    BY <1>12
<1>16. c[{}] = 0
  BY <1>13
<1>17. \A S \in SUBSET (1 .. n) : S # {} => c[S] = 2 * c[S \ {Connection!Max(S)}] + Bit(s[Connection!Max(S)])
  BY <1>13, Zenon
<1>14. \A S \in D : c[S] \in Nat
  <2> DEFINE P == {k \in Nat : \A S \in D : Cardinality(S) = k => c[S] \in Nat}
  <2>1. 0 \in P
    <3> SUFFICES ASSUME NEW S \in D, Cardinality(S) = 0 PROVE c[S] \in Nat
      OBVIOUS
    <3>1. S = {}
      BY <1>0, FS_Subset, FS_EmptySet
    <3>2. c[S] = 0
      BY <1>16, <3>1
    <3> QED
      BY <3>2
  <2>2. ASSUME NEW k \in Nat, k \in P PROVE k + 1 \in P
    <3> SUFFICES ASSUME NEW S \in D, Cardinality(S) = k + 1 PROVE c[S] \in Nat
      OBVIOUS
    <3>1. CASE S = {}
      <4>1. c[S] = 0
        BY <1>16, <3>1
      <4> QED
        BY <4>1
    <3>2. CASE S # {}
      <4>1. S \ {Connection!Max(S)} \in D /\ Cardinality(S \ {Connection!Max(S)}) = k
        BY <1>1, <1>3, <3>2
      <4>2. c[S \ {Connection!Max(S)}] \in Nat /\ Bit(s[Connection!Max(S)]) \in Nat
        BY <1>b, <2>2, <4>1
      <4>3. c[S] = 2 * c[S \ {Connection!Max(S)}] + Bit(s[Connection!Max(S)])
        BY <1>17, <3>2
      <4> QED
        BY <4>2, <4>3
    <3> QED
      BY <3>1, <3>2
  <2>3. \A k \in Nat : k \in P
    <3> HIDE DEF P
    <3> QED
      BY <2>1, <2>2, Induction
  <2> TAKE S \in D
  <2> QED
    BY <1>2, <2>3
<1>15. c \in [D -> Nat]
  <2>1. c = [S \in D |-> c[S]]
    <3> HIDE DEF D, Unfold
    <3> QED
      BY <1>12
  <2> QED
    BY <1>14, <2>1
<1>18. \A S \in SUBSET DOMAIN s : c[S] = IF S = {} THEN 0
            ELSE 2 * c[S \ {Connection!Max(S)}] + Bit(s[Connection!Max(S)])
  BY <1>13, Zenon
<1> QED
  BY <1>10, <1>15, <1>18 DEF Digits

\* Numbers of any digits, of one and of two.
LEMMA NumberFacts ==
  /\ \A n \in Nat : \A s : DOMAIN s = 1 .. n => Connection!Number(s) \in Nat
  /\ \A x : Connection!Number(<<x>>) = Bit(x)
  /\ \A x, y : Connection!Number(<<x, y>>) = 2 * Bit(x) + Bit(y)
<1>1. ASSUME NEW n \in Nat, NEW s, DOMAIN s = 1 .. n PROVE Connection!Number(s) \in Nat
  <2>1. PICK F : Digits(s, F) /\ Connection!Number(s) = F[1 .. n]
    BY <1>1, DigitsExist
  <2> QED
    BY <1>1, <2>1 DEF Digits
<1>2. \A x : Bit(x) \in Nat
  BY DEF Bit
<1>3. ASSUME NEW s, NEW F, Digits(s, F), 1 \in DOMAIN s, DOMAIN s \subseteq Nat
      PROVE  F[{1}] = Bit(s[1])
  <2>1. {1} \in SUBSET DOMAIN s /\ {1} \subseteq 1 .. 1
    BY <1>3
  <2>2. Connection!Max({1}) = 1
    BY <2>1, Greatest
  <2>3. {1} \ {1} = {} /\ {} \in SUBSET DOMAIN s
    OBVIOUS
  <2>4. F[{}] = 0
    BY <1>3, <2>3 DEF Digits
  <2>5. F[{1}] = 2 * F[{1} \ {1}] + Bit(s[1])
    BY <1>3, <2>1, <2>2 DEF Digits
  <2>6. F[{1}] = 2 * 0 + Bit(s[1])
    BY <2>3, <2>4, <2>5
  <2> QED
    BY <1>2, <2>6
<1>4. ASSUME NEW x PROVE Connection!Number(<<x>>) = Bit(x)
  <2>1. PICK s : s = <<x>>
    OBVIOUS
  <2>2. DOMAIN s = 1 .. 1 /\ s[1] = x /\ 1 .. 1 = {1}
    BY <2>1
  <2>3. PICK F : Digits(s, F) /\ Connection!Number(s) = F[1 .. 1]
    BY <2>2, DigitsExist
  <2>4. F[{1}] = Bit(s[1])
    BY <1>3, <2>2, <2>3
  <2> QED
    BY <2>1, <2>2, <2>3, <2>4
<1>5. ASSUME NEW x, NEW y PROVE Connection!Number(<<x, y>>) = 2 * Bit(x) + Bit(y)
  <2>1. PICK s : s = <<x, y>>
    OBVIOUS
  <2>2. DOMAIN s = 1 .. 2 /\ s[1] = x /\ s[2] = y /\ 1 .. 2 = {1, 2}
    BY <2>1
  <2>3. PICK F : Digits(s, F) /\ Connection!Number(s) = F[1 .. 2]
    BY <2>2, DigitsExist
  <2>4. F[{1}] = Bit(x)
    BY <1>3, <2>2, <2>3
  <2>5. Connection!Max({1, 2}) = 2 /\ {1, 2} \ {2} = {1}
    <3>1. {1, 2} \subseteq 1 .. 2
      OBVIOUS
    <3>2. Connection!Max({1, 2}) \in {1, 2} /\ \A z \in {1, 2} : z <= Connection!Max({1, 2})
      BY <3>1, Greatest
    <3> QED
      BY <3>2
  <2>6. F[{1, 2}] = 2 * F[{1, 2} \ {2}] + Bit(s[2])
    BY <2>2, <2>3, <2>5 DEF Digits
  <2> QED
    BY <2>1, <2>2, <2>3, <2>4, <2>5, <2>6
<1> QED
  BY <1>1, <1>4, <1>5

-----------------------------------------------------------------------------
(* What is on the wire.                                                    *)

\* What may stand on the wire behind a head, and anywhere.
Later == Connection!Bits \cup Connection!ToSet(Connection!CRLF) \cup Connection!Bytes
Alphabet == {"head", "end", Connection!NUL} \cup Later

\* The response that is on the wire, its chunk i, what is in front of chunk
\* i + 1, and where chunk i ends; behind the last one is the chunk of size 0.
From(w) == CHOOSE r \in Responses : w = Connection!OnWire(r)
Chunks(w) == From(w).chunks
ChunkCount(w) == Len(Chunks(w))
ChunkOf(w, i) == IF i <= ChunkCount(w) THEN Chunks(w)[i] ELSE <<>>
Before(w, i) == Connection!FlattenSeq(SubSeq(Chunks(w), 1, i))
EndAt(w, i) == IF i = 0 THEN 2 ELSE w.ends[i]
SizePlaces(c) == IF Len(c) > 1 THEN 2 ELSE 1

\* Behind place e of the sequence q stands the chunk c.
Framed(q, e, c) ==
  /\ c \in Seq(Connection!Bytes) /\ Len(c) \in 0 .. 3 /\ e + SizePlaces(c) + 4 + Len(c) <= Len(q)
  /\ \A k \in 1 .. SizePlaces(c) : q[e + k] \in Connection!Bits
  /\ Len(c) = IF SizePlaces(c) = 2 THEN 2 * Bit(q[e + 1]) + Bit(q[e + 2]) ELSE Bit(q[e + 1])
  /\ q[e + SizePlaces(c) + 1] = "cr" /\ q[e + SizePlaces(c) + 2] = "lf"
  /\ \A k \in 1 .. Len(c) : q[e + SizePlaces(c) + 2 + k] = c[k]
  /\ q[e + SizePlaces(c) + 3 + Len(c)] = "cr" /\ q[e + SizePlaces(c) + 4 + Len(c)] = "lf"

\* The digits of a size.
Figures(n) == IF n = 0 THEN <<"0">> ELSE Connection!Size(n)

\* The size in front of a chunk has one digit or two, and they are its length.
LEMMA SizeFacts ==
  ASSUME NEW n \in 0 .. 3, NEW s, s = Figures(n)
  PROVE  /\ s \in Seq(Later) /\ Len(s) = IF n > 1 THEN 2 ELSE 1
         /\ \A k \in 1 .. Len(s) : s[k] \in Connection!Bits
         /\ n = IF Len(s) = 2 THEN 2 * Bit(s[1]) + Bit(s[2]) ELSE Bit(s[1])
<1>1. "0" \in Connection!Bits /\ "1" \in Connection!Bits /\ Connection!Bits \subseteq Later
           /\ Bit("0") = 0 /\ Bit("1") = 1
  BY DEF Connection!Bits, Later, Bit
<1>2. CASE n = 0
  <2>1. s = <<"0">>
    BY <1>2 DEF Figures
  <2>2. s \in Seq(Later) /\ Len(s) = 1 /\ s[1] = "0"
             /\ \A k \in 1 .. Len(s) : s[k] \in Connection!Bits
    BY <1>1, <2>1
  <2> QED
    BY <1>1, <1>2, <2>2
<1>3. CASE n = 1
  <2>1. s = <<"1">>
    BY <1>3 DEF Figures, Connection!Size
  <2>2. s \in Seq(Later) /\ Len(s) = 1 /\ s[1] = "1"
             /\ \A k \in 1 .. Len(s) : s[k] \in Connection!Bits
    BY <1>1, <2>1
  <2> QED
    BY <1>1, <1>3, <2>2
<1>4. CASE n = 2
  <2>1. s = <<"1", "0">>
    BY <1>4 DEF Figures, Connection!Size
  <2>2. s \in Seq(Later) /\ Len(s) = 2 /\ s[1] = "1" /\ s[2] = "0"
             /\ \A k \in 1 .. Len(s) : s[k] \in Connection!Bits
    BY <1>1, <2>1
  <2> QED
    BY <1>1, <1>4, <2>2
<1>5. CASE n = 3
  <2>1. s = <<"1", "1">>
    BY <1>5 DEF Figures, Connection!Size
  <2>2. s \in Seq(Later) /\ Len(s) = 2 /\ s[1] = "1" /\ s[2] = "1"
             /\ \A k \in 1 .. Len(s) : s[k] \in Connection!Bits
    BY <1>1, <2>1
  <2> QED
    BY <1>1, <1>5, <2>2
<1> QED
  BY <1>2, <1>3, <1>4, <1>5

\* The text of a chunk: its size, the bytes, and a line end behind each.
Framing(c) == IF Len(c) = 0 THEN Connection!LastChunk ELSE Connection!Chunk(c)

\* What a chunk is on the wire: its size, CRLF, its bytes and CRLF.
LEMMA ChunkFacts ==
  ASSUME NEW c \in Seq(Connection!Bytes), Len(c) \in 0 .. 3, NEW t, t = Framing(c)
  PROVE  t \in Seq(Later) /\ Len(t) = SizePlaces(c) + 4 + Len(c) /\ Framed(t, 0, c)
<1> DEFINE s == Figures(Len(c))
<1>1. /\ s \in Seq(Later) /\ Len(s) = SizePlaces(c)
      /\ \A k \in 1 .. Len(s) : s[k] \in Connection!Bits
      /\ Len(c) = IF Len(s) = 2 THEN 2 * Bit(s[1]) + Bit(s[2]) ELSE Bit(s[1])
  <2>1. Len(c) \in 0 .. 3
    OBVIOUS
  <2> QED
    BY <2>1, SizeFacts DEF SizePlaces
<1>2. Connection!CRLF \in Seq(Later) /\ Len(Connection!CRLF) = 2 /\ Connection!CRLF[1] = "cr"
           /\ Connection!CRLF[2] = "lf"
  <2>1. "cr" \in Connection!ToSet(Connection!CRLF) /\ "lf" \in Connection!ToSet(Connection!CRLF)
    BY DEF Connection!ToSet, Connection!CRLF
  <2> QED
    BY <2>1 DEF Connection!CRLF, Later
<1>3. c \in Seq(Later) /\ Len(c) \in Nat
  BY DEF Later
<1>4. t = s \o Connection!CRLF \o c \o Connection!CRLF
  <2>1. CASE Len(c) = 0
    <3>1. c = <<>>
      BY <2>1
    <3>2. s \o Connection!CRLF \o <<>> = s \o Connection!CRLF
      <4>1. s \o Connection!CRLF \in Seq(Later)
        BY <1>1, <1>2, Joined
      <4> HIDE DEF s
      <4> QED
        BY <4>1
    <3>3. t = <<"0">> \o Connection!CRLF \o Connection!CRLF /\ s = <<"0">>
      BY <2>1, Zenon DEF Connection!LastChunk, Framing, Figures
    <3> QED
      BY <3>1, <3>2, <3>3, Zenon
  <2>2. CASE Len(c) # 0
    BY <2>2, Zenon DEF Connection!Chunk, Framing, Figures
  <2> QED
    BY <2>1, <2>2
<1> HIDE DEF s
<1>5. PICK u : u = s \o Connection!CRLF
  OBVIOUS
<1>6. /\ u \in Seq(Later) /\ Len(u) = SizePlaces(c) + 2
      /\ \A k \in 1 .. SizePlaces(c) : u[k] = s[k]
      /\ u[SizePlaces(c) + 1] = "cr" /\ u[SizePlaces(c) + 2] = "lf"
  <2>1. /\ u \in Seq(Later) /\ Len(u) = Len(s) + Len(Connection!CRLF)
        /\ \A k \in 1 .. Len(s) : u[k] = s[k]
        /\ \A k \in 1 .. Len(Connection!CRLF) : u[Len(s) + k] = Connection!CRLF[k]
    <3>1. s \in Seq(Later) /\ Connection!CRLF \in Seq(Later)
      BY <1>1, <1>2
    <3> QED
      BY <3>1, <1>5, Joined
  <2> QED
    BY <1>1, <1>2, <2>1
<1>7. PICK v : v = u \o c
  OBVIOUS
<1>8. SizePlaces(c) \in 1 .. 2
  BY DEF SizePlaces
<1>9. /\ v \in Seq(Later) /\ Len(v) = SizePlaces(c) + 2 + Len(c)
      /\ \A k \in 1 .. SizePlaces(c) + 2 : v[k] = u[k]
      /\ \A k \in 1 .. Len(c) : v[SizePlaces(c) + 2 + k] = c[k]
  <2>1. /\ v \in Seq(Later) /\ Len(v) = Len(u) + Len(c) /\ \A k \in 1 .. Len(u) : v[k] = u[k]
        /\ \A k \in 1 .. Len(c) : v[Len(u) + k] = c[k]
    <3>1. u \in Seq(Later) /\ c \in Seq(Later)
      BY <1>3, <1>6
    <3> QED
      BY <3>1, <1>7, Joined
  <2> QED
    BY <1>6, <1>8, <2>1
<1>10. /\ t \in Seq(Later) /\ Len(t) = SizePlaces(c) + 4 + Len(c)
       /\ \A k \in 1 .. SizePlaces(c) + 2 + Len(c) : t[k] = v[k]
       /\ t[SizePlaces(c) + 2 + Len(c) + 1] = "cr" /\ t[SizePlaces(c) + 2 + Len(c) + 2] = "lf"
  <2>1. t = v \o Connection!CRLF
    BY <1>4, <1>5, <1>7
  <2>2. /\ t \in Seq(Later) /\ Len(t) = Len(v) + Len(Connection!CRLF)
        /\ \A k \in 1 .. Len(v) : t[k] = v[k]
        /\ \A k \in 1 .. Len(Connection!CRLF) : t[Len(v) + k] = Connection!CRLF[k]
    <3>1. v \in Seq(Later) /\ Connection!CRLF \in Seq(Later)
      BY <1>2, <1>9
    <3> QED
      BY <3>1, <2>1, Joined
  <2>3. t[Len(v) + 1] = "cr" /\ t[Len(v) + 2] = "lf" /\ Len(t) = Len(v) + 2
    BY <1>2, <2>2
  <2>4. Len(v) + 2 = SizePlaces(c) + 4 + Len(c)
    BY <1>3, <1>8, <1>9
  <2> QED
    BY <1>9, <2>2, <2>3, <2>4
<1>11. PICK d : d = SizePlaces(c)
  OBVIOUS
<1>12. /\ \A k \in 1 .. d : t[k] = s[k] /\ 0 + k = k
       /\ t[d + 1] = "cr" /\ t[d + 2] = "lf" /\ \A k \in 1 .. Len(c) : t[d + 2 + k] = c[k]
  <2>1. /\ \A k \in 1 .. d : k \in 1 .. d + 2 /\ k \in 1 .. d + 2 + Len(c)
        /\ d + 1 \in 1 .. d + 2 + Len(c) /\ d + 2 \in 1 .. d + 2 + Len(c)
        /\ d + 1 \in 1 .. d + 2 /\ d + 2 \in 1 .. d + 2
        /\ \A k \in 1 .. Len(c) : d + 2 + k \in 1 .. d + 2 + Len(c)
    BY <1>3, <1>8, <1>11
  <2>2. \A k \in 1 .. d + 2 : t[k] = u[k]
    <3>1. \A k \in 1 .. d + 2 : k \in 1 .. d + 2 + Len(c)
      BY <1>3, <1>8, <1>11
    <3> QED
      BY <1>9, <1>10, <1>11, <3>1
  <2>3. \A k \in 1 .. Len(c) : t[d + 2 + k] = c[k]
    BY <1>9, <1>10, <1>11, <2>1
  <2>4. \A k \in 1 .. d : t[k] = s[k] /\ 0 + k = k
    BY <1>6, <1>11, <2>1, <2>2
  <2> QED
    BY <1>6, <1>11, <2>1, <2>2, <2>3, <2>4
<1>13. /\ 0 + d + 4 + Len(c) = d + 4 + Len(c) /\ 0 + d + 3 + Len(c) = d + 2 + Len(c) + 1
       /\ d + 4 + Len(c) = d + 2 + Len(c) + 2 /\ 0 + d + 1 = d + 1 /\ 0 + d + 2 = d + 2
       /\ 1 \in 1 .. d /\ (d = 2 => 2 \in 1 .. d) /\ 0 + 1 = 1 /\ 0 + 2 = 2
       /\ \A k \in 1 .. Len(c) : 0 + d + 2 + k = d + 2 + k
  BY <1>3, <1>8, <1>11
<1>14. Framed(t, 0, c)
  <2>1. Len(c) = IF d = 2 THEN 2 * Bit(t[0 + 1]) + Bit(t[0 + 2]) ELSE Bit(t[0 + 1])
    BY <1>1, <1>11, <1>12, <1>13
  <2>2. \A k \in 1 .. d : t[0 + k] \in Connection!Bits
    BY <1>1, <1>11, <1>12
  <2>3. 0 + d + 4 + Len(c) <= Len(t)
    <3>1. d + 4 + Len(c) \in Nat
      BY <1>3, <1>8, <1>11
    <3> QED
      BY <1>10, <1>11, <1>13, <3>1
  <2>4. t[0 + d + 1] = "cr" /\ t[0 + d + 2] = "lf" /\ \A k \in 1 .. Len(c) : t[0 + d + 2 + k] = c[k]
    BY <1>12, <1>13
  <2>5. t[0 + d + 3 + Len(c)] = "cr" /\ t[0 + d + 4 + Len(c)] = "lf"
    BY <1>10, <1>11, <1>13
  <2> QED
    BY <1>11, <2>1, <2>2, <2>3, <2>4, <2>5 DEF Framed
<1> QED
  BY <1>10, <1>14

\* The pieces of a response, the first of them the head.
LEMMA PiecesFacts ==
  ASSUME Connection!ConnectionAssumption, NEW r \in Responses
  PROVE  /\ Connection!Pieces(r) \in Seq(Seq(Alphabet))
         /\ Connection!Pieces(r)[1] = Connection!Top /\ Len(r.chunks) \in Nat
         /\ Len(Connection!Pieces(r)) = Len(r.chunks) + (IF r.kind = "length" THEN 1 ELSE 2)
         /\ \A i \in 2 .. Len(Connection!Pieces(r)) : Connection!Pieces(r)[i] \in Seq(Later)
         /\ r.kind = "length" => \A i \in 1 .. Len(r.chunks) : Connection!Pieces(r)[i + 1] = r.chunks[i]
         /\ r.kind = "chunked" =>
              /\ \A i \in 1 .. Len(r.chunks) : Connection!Pieces(r)[i + 1] = Framing(r.chunks[i])
              /\ Connection!Pieces(r)[Len(r.chunks) + 2] = Framing(<<>>)
<1>1. /\ r.kind \in {"length", "chunked"} /\ r.chunks \in Seq(Seq(Connection!Bytes))
      /\ \A i \in DOMAIN r.chunks : Len(r.chunks[i]) \in 1 .. 3
  BY DEF Connection!ConnectionAssumption
<1>2. PICK q : q = r.chunks
  OBVIOUS
<1>3. /\ Len(q) \in Nat /\ DOMAIN q = 1 .. Len(q)
      /\ \A i \in 1 .. Len(q) : q[i] \in Seq(Connection!Bytes) /\ Len(q[i]) \in 1 .. 3
  <2> DEFINE W == Seq(Connection!Bytes)
  <2>1. q \in Seq(W)
    BY <1>1, <1>2
  <2> HIDE DEF W
  <2>2. Len(q) \in Nat /\ DOMAIN q = 1 .. Len(q) /\ \A i \in 1 .. Len(q) : q[i] \in W
    BY <2>1
  <2> QED
    BY <1>1, <1>2, <2>2 DEF W
<1> DEFINE V == Seq(Later)
           W == Seq(Alphabet)
<1>4. V \subseteq W /\ Seq(Connection!Bytes) \subseteq V
  <2>1. Connection!Bytes \subseteq Later /\ Later \subseteq Alphabet
    BY DEF Later, Alphabet
  <2> QED
    BY <2>1
<1>5. Connection!Top \in W
  BY DEF Connection!Top, Alphabet
<1>6. <<Connection!Top>> \in Seq(W) /\ Len(<<Connection!Top>>) = 1
           /\ <<Connection!Top>>[1] = Connection!Top
  <2> HIDE DEF W
  <2> QED
    BY <1>5
<1>7. CASE r.kind = "length"
  <2>1. q \in Seq(W) /\ \A i \in 1 .. Len(q) : q[i] \in V
    <3>1. \A i \in 1 .. Len(q) : q[i] \in V /\ q[i] \in W
      BY <1>3, <1>4
    <3>2. q \in Seq(Seq(Connection!Bytes))
      BY <1>1, <1>2
    <3> DEFINE U == Seq(Connection!Bytes)
    <3>3. q \in Seq(U)
      BY <3>2
    <3> HIDE DEF U, V, W
    <3> QED
      BY <3>1, <3>3
  <2>2. Connection!Pieces(r) = <<Connection!Top>> \o q
    BY <1>2, <1>7, Zenon DEF Connection!Pieces
  <2> HIDE DEF V, W
  <2>3. PICK p : p = <<Connection!Top>>
    OBVIOUS
  <2>4. /\ p \o q \in Seq(W) /\ Len(p \o q) = Len(p) + Len(q)
        /\ \A k \in 1 .. Len(p) : (p \o q)[k] = p[k]
        /\ \A k \in 1 .. Len(q) : (p \o q)[Len(p) + k] = q[k]
    <3>1. p \in Seq(W) /\ q \in Seq(W)
      BY <1>6, <2>1, <2>3
    <3> QED
      BY <3>1, Joined
  <2>5. PICK t : t = Connection!Pieces(r)
    OBVIOUS
  <2>6. /\ t \in Seq(W) /\ Len(t) = 1 + Len(q) /\ t[1] = Connection!Top
        /\ \A k \in 1 .. Len(q) : t[1 + k] = q[k]
    BY <1>6, <2>2, <2>3, <2>4, <2>5
  <2>7. \A i \in 2 .. Len(t) : i - 1 \in 1 .. Len(q) /\ 1 + (i - 1) = i
    BY <1>3, <2>6
  <2>8. \A i \in 2 .. Len(t) : t[i] \in V
    BY <2>1, <2>6, <2>7
  <2>9. \A i \in 1 .. Len(q) : 1 + i = i + 1
    BY <1>3
  <2>10. Len(t) = Len(q) + 1 /\ \A i \in 1 .. Len(q) : t[i + 1] = q[i]
    BY <1>3, <2>6, <2>9
  <2> QED
    BY <1>2, <1>3, <1>7, <2>5, <2>6, <2>8, <2>10 DEF W, V
<1>8. CASE r.kind = "chunked"
  <2> DEFINE x == [i \in 1 .. Len(q) |-> Framing(q[i])]
  <2>1. \A i \in 1 .. Len(q) : Framing(q[i]) \in V /\ Framing(q[i]) = Connection!Chunk(q[i])
    <3> TAKE i \in 1 .. Len(q)
    <3>1. q[i] \in Seq(Connection!Bytes) /\ Len(q[i]) \in 1 .. 3
      BY <1>3
    <3>2. Len(q[i]) \in 0 .. 3 /\ Len(q[i]) # 0
      <4>1. \A n \in 1 .. 3 : n \in 0 .. 3 /\ n # 0
        OBVIOUS
      <4> QED
        BY <3>1, <4>1
    <3>3. Framing(q[i]) \in V
      BY <3>1, <3>2, ChunkFacts
    <3> QED
      BY <3>2, <3>3, Zenon DEF Framing
  <2>2. Framing(<<>>) \in V /\ Framing(<<>>) = Connection!LastChunk
    <3>1. <<>> \in Seq(Connection!Bytes) /\ Len(<<>>) = 0
      OBVIOUS
    <3>2. 0 \in 0 .. 3
      OBVIOUS
    <3> QED
      BY <3>1, <3>2, ChunkFacts DEF Framing
  <2>3. Connection!Pieces(r) = <<Connection!Top>> \o x \o <<Framing(<<>>)>>
    <3>1. [i \in DOMAIN q |-> Connection!Chunk(q[i])] = x
      BY <1>3, <2>1
    <3>2. r.kind # "length"
      BY <1>8
    <3>3. Connection!Pieces(r) = <<Connection!Top>> \o [i \in DOMAIN q |-> Connection!Chunk(q[i])] \o <<Connection!LastChunk>>
      BY <1>2, <3>2, Zenon DEF Connection!Pieces
    <3> HIDE DEF x
    <3> QED
      BY <2>2, <3>1, <3>3
  <2> HIDE DEF V
  <2>4. x \in [1 .. Len(q) -> V] /\ \A i \in 1 .. Len(q) : x[i] = Framing(q[i])
    BY <2>1
  <2>5. x \in Seq(W) /\ Len(x) = Len(q) /\ \A i \in 1 .. Len(q) : x[i] \in V
    <3>1. x \in [1 .. Len(q) -> W]
      BY <1>4, <2>4
    <3> HIDE DEF W, x
    <3> QED
      BY <1>3, <2>4, <3>1
  <2> HIDE DEF W, x
  <2>6. PICK p : p = <<Connection!Top>>
    OBVIOUS
  <2>7. PICK z : z = <<Framing(<<>>)>>
    OBVIOUS
  <2>8. z \in Seq(W) /\ Len(z) = 1 /\ z[1] = Framing(<<>>)
    BY <1>4, <2>2, <2>7
  <2>9. p \in Seq(W) /\ Len(p) = 1 /\ p[1] = Connection!Top
    BY <1>6, <2>6
  <2>10. PICK y : y = p \o x
    OBVIOUS
  <2>11. /\ y \in Seq(W) /\ Len(y) = 1 + Len(q) /\ y[1] = Connection!Top
         /\ \A k \in 1 .. Len(q) : y[1 + k] = x[k]
    <3>1. /\ y \in Seq(W) /\ Len(y) = Len(p) + Len(x) /\ \A k \in 1 .. Len(p) : y[k] = p[k]
          /\ \A k \in 1 .. Len(x) : y[Len(p) + k] = x[k]
      <4>1. p \in Seq(W) /\ x \in Seq(W)
        BY <2>5, <2>9
      <4> QED
        BY <2>10, <4>1, Joined
    <3> QED
      BY <2>5, <2>9, <3>1
  <2>12. PICK t : t = Connection!Pieces(r)
    OBVIOUS
  <2>13. /\ t \in Seq(W) /\ Len(t) = Len(q) + 2 /\ \A k \in 1 .. Len(q) + 1 : t[k] = y[k]
         /\ t[Len(q) + 2] = Framing(<<>>)
    <3>1. t = y \o z
      BY <2>3, <2>6, <2>7, <2>10, <2>12
    <3>2. /\ t \in Seq(W) /\ Len(t) = Len(y) + Len(z) /\ \A k \in 1 .. Len(y) : t[k] = y[k]
          /\ \A k \in 1 .. Len(z) : t[Len(y) + k] = z[k]
      <4>1. y \in Seq(W) /\ z \in Seq(W)
        BY <2>8, <2>11
      <4> QED
        BY <3>1, <4>1, Joined
    <3>3. Len(y) + Len(z) = Len(q) + 2 /\ Len(y) + 1 = Len(q) + 2 /\ Len(y) = Len(q) + 1
      BY <1>3, <2>8, <2>11
    <3> QED
      BY <2>8, <3>2, <3>3
  <2>14. \A k \in 1 .. Len(q) : 1 + k = k + 1 /\ k + 1 \in 1 .. Len(q) + 1
    BY <1>3
  <2>15. \A k \in 1 .. Len(q) : t[k + 1] = Framing(q[k])
    BY <2>4, <2>11, <2>13, <2>14
  <2>16. t[1] = Connection!Top
    <3>1. 1 \in 1 .. Len(q) + 1
      BY <1>3
    <3> QED
      BY <2>11, <2>13, <3>1
  <2>17. \A i \in 2 .. Len(t) : i = Len(q) + 2 \/ (i - 1 \in 1 .. Len(q) /\ (i - 1) + 1 = i)
    BY <1>3, <2>13
  <2>18. \A i \in 2 .. Len(t) : t[i] \in V
    BY <2>1, <2>2, <2>13, <2>15, <2>17
  <2> QED
    BY <1>2, <1>3, <1>8, <2>12, <2>13, <2>15, <2>16, <2>18 DEF W, V
<1> QED
  BY <1>1, <1>7, <1>8

\* FlattenSeq is the same for the instance.
LEMMA ConnectionFlatten == \A q : Connection!FlattenSeq(q) = FlattenSeq(q)
  BY Zenon DEF Connection!FlattenSeq, FlattenSeq, FoldRight, FoldRight,
     Connection!MapThenFoldSet, MapThenFoldSet

\* FlattenPieces for the instance.
LEMMA ConnectionPieces ==
  ASSUME NEW S, NEW Q \in Seq(Seq(S))
  PROVE  \E F : Pieced(F, Q, S) /\ Connection!FlattenSeq(Q) = F[Len(Q)]
  BY FlattenPieces, ConnectionFlatten

\* FlattenPrefix for the instance.
LEMMA ConnectionPrefix ==
  ASSUME NEW S, NEW Q \in Seq(Seq(S)), NEW F, Pieced(F, Q, S), NEW k \in 0 .. Len(Q)
  PROVE  Connection!FlattenSeq(SubSeq(Q, 1, k)) = F[k]
  BY FlattenPrefix, ConnectionFlatten

\* A response on the wire begins with its head, which does not occur in it again.
Headed(w) ==
  /\ w.wire \in Seq(Alphabet) /\ Len(w.wire) \in Nat /\ Len(w.wire) >= 2
  /\ w.wire[1] = "head" /\ w.wire[2] = "end" /\ \A k \in 3 .. Len(w.wire) : w.wire[k] \in Later

\* OnWire begins with the head.
LEMMA HeadFacts ==
  ASSUME Connection!ConnectionAssumption, NEW r \in Responses
  PROVE  \E F : /\ Pieced(F, Connection!Pieces(r), Alphabet)
                     /\ Connection!OnWire(r).wire = F[Len(Connection!Pieces(r))]
                /\ Len(F[1]) = 2 /\ F[1][1] = "head" /\ F[1][2] = "end"
                /\ Headed(Connection!OnWire(r))
<1>1. /\ Connection!Pieces(r) \in Seq(Seq(Alphabet)) /\ Connection!Pieces(r)[1] = Connection!Top
      /\ Len(Connection!Pieces(r)) \in Nat
      /\ Len(Connection!Pieces(r)) >= 1
      /\ \A i \in 2 .. Len(Connection!Pieces(r)) : Connection!Pieces(r)[i] \in Seq(Later)
  <2>1. /\ Connection!Pieces(r) \in Seq(Seq(Alphabet))
        /\ Connection!Pieces(r)[1] = Connection!Top /\ Len(r.chunks) \in Nat
        /\ Len(Connection!Pieces(r)) = Len(r.chunks) + (IF r.kind = "length" THEN 1 ELSE 2)
        /\ \A i \in 2 .. Len(Connection!Pieces(r)) : Connection!Pieces(r)[i] \in Seq(Later)
    BY PiecesFacts
  <2>2. Len(Connection!Pieces(r)) \in Nat /\ Len(Connection!Pieces(r)) >= 1
    <3>1. \A n \in Nat : n + 1 \in Nat /\ n + 1 >= 1 /\ n + 2 \in Nat /\ n + 2 >= 1
      OBVIOUS
    <3>2. Len(Connection!Pieces(r)) = Len(r.chunks) + 1
               \/ Len(Connection!Pieces(r)) = Len(r.chunks) + 2
      BY <2>1
    <3> QED
      BY <2>1, <3>1, <3>2
  <2> QED
    BY <2>1, <2>2
<1>2. PICK Q : Q = Connection!Pieces(r)
  OBVIOUS
<1>3. PICK F : Pieced(F, Q, Alphabet) /\ Connection!FlattenSeq(Q) = F[Len(Q)]
  BY <1>1, <1>2, ConnectionPieces
<1>4. /\ \A i \in 0 .. Len(Q) : F[i] \in Seq(Alphabet) /\ Len(F[i]) \in Nat
      /\ Len(F[0]) = 0 /\ \A i \in 1 .. Len(Q) : PieceAt(F, Q, Alphabet, i)
  BY <1>1, <1>2, <1>3, PiecedFacts
<1>5. \A i, j \in 0 .. Len(Q) : i <= j =>
        Len(F[i]) <= Len(F[j]) /\ \A k \in 1 .. Len(F[i]) : F[j][k] = F[i][k]
  BY <1>1, <1>2, <1>3, PiecedOrder
<1>6. Len(F[1]) = 2 /\ F[1][1] = "head" /\ F[1][2] = "end"
  <2>1. 1 \in 1 .. Len(Q) /\ Q[1] = Connection!Top
    BY <1>1, <1>2
  <2>2. Len(Connection!Top) = 2 /\ Connection!Top[1] = "head" /\ Connection!Top[2] = "end"
             /\ 1 \in 1 .. 2 /\ 2 \in 1 .. 2
    BY DEF Connection!Top
  <2>3. /\ Len(F[1]) = Len(F[1 - 1]) + Len(Connection!Top)
        /\ \A k \in 1 .. Len(Connection!Top) : F[1][Len(F[1 - 1]) + k] = Connection!Top[k]
    BY <1>4, <2>1 DEF PieceAt
  <2>4. Len(F[1]) = 0 + 2 /\ \A k \in 1 .. 2 : F[1][0 + k] = Connection!Top[k]
    BY <1>4, <2>2, <2>3
  <2> QED
    BY <2>2, <2>4
<1>7. PICK w : w = F[Len(Q)]
  OBVIOUS
<1>8. w \in Seq(Alphabet) /\ Len(w) \in Nat /\ Len(w) >= 2 /\ w[1] = "head" /\ w[2] = "end"
  <2>1. 1 \in 0 .. Len(Q) /\ Len(Q) \in 0 .. Len(Q) /\ 1 <= Len(Q)
    BY <1>1, <1>2
  <2>2. 2 <= Len(w) /\ \A k \in 1 .. 2 : w[k] = F[1][k]
    BY <1>5, <1>6, <1>7, <2>1
  <2>3. w \in Seq(Alphabet) /\ Len(w) \in Nat
    BY <1>4, <1>7, <2>1
  <2> QED
    BY <1>6, <2>2, <2>3
<1>9. ASSUME NEW k \in 3 .. Len(w) PROVE w[k] \in Later
  <2>1. k \in 1 .. Len(F[Len(Q)]) /\ Len(Q) \in 0 .. Len(Q)
    BY <1>1, <1>2, <1>7, <1>8
  <2>2. PICK i \in 1 .. Len(Q) : Len(F[i - 1]) < k /\ k <= Len(F[i])
    BY <1>1, <1>2, <1>3, <2>1, PiecedWhere
  <2>3. i # 1 /\ i \in 2 .. Len(Q) /\ i \in 0 .. Len(Q) /\ i <= Len(Q)
    <3>1. k > 2 /\ k \in Nat
      BY <1>8
    <3>2. i # 1
      <4>1. i = 1 => k <= 2
        BY <1>6, <2>2
      <4> QED
        BY <3>1, <4>1
    <3> QED
      BY <1>1, <1>2, <3>2
  <2>4. /\ Len(F[i]) = Len(F[i - 1]) + Len(Q[i])
        /\ \A j \in 1 .. Len(Q[i]) : F[i][Len(F[i - 1]) + j] = Q[i][j]
    BY <1>4, <2>2 DEF PieceAt
  <2>5. Len(F[i - 1]) \in Nat /\ Len(F[i]) \in Nat /\ k \in Nat
    BY <1>4, <2>2, <2>3
  <2>6. PICK j : j = k - Len(F[i - 1])
    OBVIOUS
  <2>7. Q[i] \in Seq(Later) /\ Len(Q[i]) \in Nat
    BY <1>1, <1>2, <2>3
  <2>8. j \in 1 .. Len(Q[i]) /\ Len(F[i - 1]) + j = k
    <3>1. \A x, y, z \in Nat : x < z /\ z <= x + y => z - x \in 1 .. y /\ x + (z - x) = z
      OBVIOUS
    <3> QED
      BY <2>2, <2>4, <2>5, <2>6, <2>7, <3>1
  <2>9. F[i][k] = Q[i][j] /\ Q[i][j] \in Later
    BY <2>4, <2>7, <2>8
  <2>10. k \in 1 .. Len(F[i]) /\ Len(Q) \in 0 .. Len(Q)
    BY <2>1, <2>2, <2>5
  <2>11. w[k] = F[i][k]
    BY <1>5, <1>7, <2>3, <2>10
  <2> QED
    BY <2>9, <2>11
<1>10. Connection!OnWire(r).wire = w
  BY <1>2, <1>3, <1>7, Zenon DEF Connection!OnWire
<1>11. Headed(Connection!OnWire(r))
  BY <1>8, <1>9, <1>10 DEF Headed
<1> QED
  BY <1>2, <1>3, <1>6, <1>7, <1>10, <1>11

\* The body of OnWire is that of its chunks, one after the other.
LEMMA BodyFacts ==
  ASSUME Connection!ConnectionAssumption, NEW r \in Responses
  PROVE  \E G : /\ Pieced(G, r.chunks, Connection!Bytes)
                     /\ Connection!OnWire(r).body = G[Len(r.chunks)]
                /\ \A i \in 0 .. Len(r.chunks) : Connection!FlattenSeq(SubSeq(r.chunks, 1, i)) = G[i]
<1>1. r.chunks \in Seq(Seq(Connection!Bytes))
  BY DEF Connection!ConnectionAssumption
<1>2. PICK G : Pieced(G, r.chunks, Connection!Bytes)
           /\ Connection!FlattenSeq(r.chunks) = G[Len(r.chunks)]
  BY <1>1, ConnectionPieces
<1>3. \A i \in 0 .. Len(r.chunks) : Connection!FlattenSeq(SubSeq(r.chunks, 1, i)) = G[i]
  BY <1>1, <1>2, ConnectionPrefix
<1>4. Connection!OnWire(r).body = G[Len(r.chunks)]
  BY <1>2, Zenon DEF Connection!OnWire
<1> QED
  BY <1>2, <1>3, <1>4

\* A body of declared length stands behind its head.
Plainly(w) ==
  Len(w.wire) = 2 + Len(w.body) /\ \A k \in 1 .. Len(w.body) : w.wire[2 + k] = w.body[k]

\* OnWire of a response with a Content-Length.
LEMMA LengthFacts ==
  ASSUME Connection!ConnectionAssumption, NEW r \in Responses, r.kind = "length"
  PROVE  Plainly(Connection!OnWire(r))
<1>1. PICK F : /\ Pieced(F, Connection!Pieces(r), Alphabet)
                    /\ Connection!OnWire(r).wire = F[Len(Connection!Pieces(r))]
               /\ Len(F[1]) = 2
  BY HeadFacts
<1>2. PICK G : Pieced(G, r.chunks, Connection!Bytes) /\ Connection!OnWire(r).body = G[Len(r.chunks)]
  BY BodyFacts
<1>3. PICK n : n = Len(r.chunks)
  OBVIOUS
<1>4. /\ Connection!Pieces(r) \in Seq(Seq(Alphabet)) /\ n \in Nat
      /\ Len(Connection!Pieces(r)) = n + 1
      /\ \A i \in 1 .. n : Connection!Pieces(r)[i + 1] = r.chunks[i]
  BY <1>3, PiecesFacts
<1>5. r.chunks \in Seq(Seq(Connection!Bytes))
  BY DEF Connection!ConnectionAssumption
<1>6. /\ \A i \in 0 .. n + 1 : F[i] \in Seq(Alphabet) /\ Len(F[i]) \in Nat
      /\ \A i \in 1 .. n + 1 : PieceAt(F, Connection!Pieces(r), Alphabet, i)
  BY <1>1, <1>4, PiecedFacts
<1>7. /\ \A i \in 0 .. n : G[i] \in Seq(Connection!Bytes) /\ Len(G[i]) \in Nat
      /\ Len(G[0]) = 0 /\ \A i \in 1 .. n : PieceAt(G, r.chunks, Connection!Bytes, i)
  BY <1>2, <1>3, <1>5, PiecedFacts
<1> DEFINE Same(i) == Len(F[i + 1]) = 2 + Len(G[i])
         /\ \A k \in 1 .. Len(G[i]) : F[i + 1][2 + k] = G[i][k]
           P == {i \in Nat : i <= n => Same(i)}
<1>8. 0 \in P
  <2>1. 0 + 1 = 1 /\ 2 + 0 = 2 /\ 1 .. 0 = {}
    OBVIOUS
  <2>2. Same(0)
    BY <1>1, <1>7, <2>1
  <2> QED
    BY <2>2
<1>9. ASSUME NEW i \in Nat, i \in P PROVE i + 1 \in P
  <2> SUFFICES ASSUME i + 1 <= n PROVE Same(i + 1)
    OBVIOUS
  <2>1. Same(i)
    BY <1>4, <1>9
  <2>2. PICK c : c = r.chunks[i + 1]
    OBVIOUS
  <2>3. i + 1 \in 1 .. n /\ i + 2 \in 1 .. n + 1 /\ (i + 1) - 1 = i /\ (i + 2) - 1 = i + 1
             /\ (i + 1) + 1 = i + 2
    BY <1>4
  <2>4. Connection!Pieces(r)[i + 2] = c
    BY <1>4, <2>2, <2>3
  <2>5. /\ Len(F[i + 2]) = Len(F[i + 1]) + Len(c)
        /\ \A k \in 1 .. Len(F[i + 1]) : F[i + 2][k] = F[i + 1][k]
        /\ \A k \in 1 .. Len(c) : F[i + 2][Len(F[i + 1]) + k] = c[k]
    <3>1. PieceAt(F, Connection!Pieces(r), Alphabet, i + 2)
      BY <1>6, <2>3
    <3> QED
      BY <2>3, <2>4, <3>1 DEF PieceAt
  <2>6. /\ Len(G[i + 1]) = Len(G[i]) + Len(c)
        /\ \A k \in 1 .. Len(G[i]) : G[i + 1][k] = G[i][k]
        /\ \A k \in 1 .. Len(c) : G[i + 1][Len(G[i]) + k] = c[k]
    <3>1. PieceAt(G, r.chunks, Connection!Bytes, i + 1)
      BY <1>7, <2>3
    <3> QED
      BY <2>2, <2>3, <3>1 DEF PieceAt
  <2>7. Len(c) \in Nat /\ Len(G[i]) \in Nat /\ Len(G[i + 1]) \in Nat
    <3>1. i \in 0 .. n /\ i + 1 \in 0 .. n
      BY <1>4
    <3>2. PieceAt(G, r.chunks, Connection!Bytes, i + 1)
      BY <1>7, <2>3
    <3> QED
      BY <1>7, <2>2, <3>1, <3>2 DEF PieceAt
  <2>8. Len(F[i + 2]) = 2 + Len(G[i + 1])
    BY <2>1, <2>5, <2>6, <2>7
  <2>9. ASSUME NEW k \in 1 .. Len(G[i + 1]) PROVE F[i + 2][2 + k] = G[i + 1][k]
    <3>1. CASE k <= Len(G[i])
      <4>1. k \in 1 .. Len(G[i]) /\ 2 + k \in 1 .. Len(F[i + 1])
        BY <2>1, <2>7, <3>1
      <4> QED
        BY <2>1, <2>5, <2>6, <4>1
    <3>2. CASE k > Len(G[i])
      <4>1. PICK j : j = k - Len(G[i])
        OBVIOUS
      <4>2. j \in 1 .. Len(c) /\ Len(G[i]) + j = k /\ Len(F[i + 1]) + j = 2 + k
        <5>1. /\ Len(F[i + 1]) = 2 + Len(G[i]) /\ k \in Nat
              /\ Len(G[i]) < k /\ k <= Len(G[i]) + Len(c)
          BY <2>1, <2>6, <2>7, <3>2
        <5> DEFINE Within(x, y, z) ==
                     x < z /\ z <= x + y =>
                       z - x \in 1 .. y /\ x + (z - x) = z /\ (2 + x) + (z - x) = 2 + z
        <5>2. \A x, y, z \in Nat : Within(x, y, z)
          OBVIOUS
        <5> HIDE DEF Within
        <5>3. Within(Len(G[i]), Len(c), k)
          BY <2>7, <5>1, <5>2
        <5> QED
          BY <4>1, <5>1, <5>3 DEF Within
      <4> QED
        BY <2>5, <2>6, <4>2
    <3> QED
      BY <2>7, <3>1, <3>2
  <2> QED
    BY <2>3, <2>8, <2>9
<1>10. n \in P
  <2> HIDE DEF P
  <2> QED
    BY <1>4, <1>8, <1>9, Induction
<1>11. Same(n)
  BY <1>4, <1>10
<1> QED
  BY <1>1, <1>2, <1>3, <1>4, <1>11 DEF Plainly

\* What is on the wire, as a response.
LEMMA FromFacts ==
  ASSUME NEW w \in {Connection!OnWire(r) : r \in Responses}
  PROVE  From(w) \in Responses /\ w = Connection!OnWire(From(w))
<1>1. \E r \in Responses : w = Connection!OnWire(r)
  OBVIOUS
<1> QED
  BY <1>1, Zenon DEF From

\* A body in chunks grows with each of them.
Growing(w) ==
  /\ ChunkCount(w) \in Nat /\ Before(w, 0) = <<>> /\ Before(w, ChunkCount(w)) = w.body
  /\ w.body \in Seq(Connection!Bytes)
  /\ \A i \in 0 .. ChunkCount(w) : Before(w, i) \in Seq(Connection!Bytes)
  /\ \A i \in 1 .. ChunkCount(w) :
       /\ ChunkOf(w, i) \in Seq(Connection!Bytes) /\ Len(ChunkOf(w, i)) \in 1 .. 3
       /\ Before(w, i) = Before(w, i - 1) \o ChunkOf(w, i)
       /\ Len(Before(w, i - 1)) < Len(w.body)

\* Every response on the wire grows by its chunks.
LEMMA GrowFacts ==
  ASSUME Connection!ConnectionAssumption, NEW w \in {Connection!OnWire(r) : r \in Responses}
  PROVE  Growing(w)
<1>1. PICK r \in Responses : r = From(w) /\ w = Connection!OnWire(r)
  BY FromFacts
<1>2. PICK G : /\ Pieced(G, r.chunks, Connection!Bytes)
                    /\ Connection!OnWire(r).body = G[Len(r.chunks)]
               /\ \A i \in 0 .. Len(r.chunks) : Connection!FlattenSeq(SubSeq(r.chunks, 1, i)) = G[i]
  BY BodyFacts
<1>3. PICK n : n = ChunkCount(w)
  OBVIOUS
<1>4. n = Len(r.chunks) /\ Chunks(w) = r.chunks
  BY <1>1, <1>3 DEF ChunkCount, Chunks
<1>5. r.chunks \in Seq(Seq(Connection!Bytes))
           /\ \A i \in DOMAIN r.chunks : Len(r.chunks[i]) \in 1 .. 3
  BY DEF Connection!ConnectionAssumption
<1>6. /\ n \in Nat /\ \A i \in 0 .. n : G[i] \in Seq(Connection!Bytes) /\ Len(G[i]) \in Nat
      /\ \A i \in 1 .. n : PieceAt(G, r.chunks, Connection!Bytes, i)
  BY <1>2, <1>4, <1>5, PiecedFacts
<1>7. \A i \in 0 .. n : Before(w, i) = G[i]
  BY <1>2, <1>4 DEF Before
<1>8. \A i, j \in 0 .. n : i <= j => Len(G[i]) <= Len(G[j])
  BY <1>2, <1>4, <1>5, PiecedOrder
<1>9. w.body = G[n] /\ n \in 0 .. n /\ 0 \in 0 .. n
  BY <1>1, <1>2, <1>4, <1>6
<1>10. ASSUME NEW i \in 1 .. n
       PROVE  /\ ChunkOf(w, i) \in Seq(Connection!Bytes) /\ Len(ChunkOf(w, i)) \in 1 .. 3
              /\ Before(w, i) = Before(w, i - 1) \o ChunkOf(w, i)
              /\ Len(Before(w, i - 1)) < Len(w.body)
  <2>1. i \in 0 .. n /\ i - 1 \in 0 .. n /\ i <= n
    BY <1>6
  <2>2. PICK c : c = r.chunks[i]
    OBVIOUS
  <2>3. ChunkOf(w, i) = c
    BY <1>3, <1>4, <2>1, <2>2 DEF ChunkOf
  <2>4. c \in Seq(Connection!Bytes) /\ Len(c) \in Nat /\ Len(G[i]) = Len(G[i - 1]) + Len(c)
    BY <1>6, <2>2 DEF PieceAt
  <2>5. i \in DOMAIN r.chunks
    <3> DEFINE W == Seq(Connection!Bytes)
    <3>1. r.chunks \in Seq(W)
      BY <1>5
    <3> HIDE DEF W
    <3> QED
      BY <1>4, <3>1
  <2>6. Len(c) \in 1 .. 3
    BY <1>5, <2>2, <2>5
  <2>7. G[i] = G[i - 1] \o c
    BY <1>2, <1>4, <2>2 DEF Pieced
  <2>8. Len(G[i - 1]) \in Nat /\ Len(G[i]) <= Len(G[n]) /\ Len(G[n]) \in Nat /\ Len(G[i]) \in Nat
    BY <1>6, <1>8, <1>9, <2>1
  <2>9. Len(G[i - 1]) < Len(G[n])
    <3>1. \A x, y, z, l \in Nat : y = x + l /\ y <= z /\ l >= 1 => x < z
      OBVIOUS
    <3>2. Len(c) >= 1
      BY <2>6
    <3> QED
      BY <2>4, <2>8, <3>1, <3>2
  <2> QED
    BY <1>7, <1>9, <2>1, <2>3, <2>4, <2>6, <2>7, <2>9
<1>11. Before(w, 0) = <<>>
  BY <1>2, <1>7, <1>9 DEF Pieced
<1> QED
  BY <1>3, <1>6, <1>7, <1>9, <1>10, <1>11 DEF Growing

\* The chunks stand on the wire one behind the other.
Segmented(w) ==
  /\ ChunkCount(w) \in Nat /\ DOMAIN w.ends = 1 .. ChunkCount(w) + 1
  /\ Len(w.ends) = ChunkCount(w) + 1
  /\ EndAt(w, 0) = 2 /\ EndAt(w, ChunkCount(w) + 1) = Len(w.wire)
  /\ \A i \in 0 .. ChunkCount(w) + 1 : EndAt(w, i) \in Nat
  /\ \A i \in 1 .. ChunkCount(w) + 1 :
       /\ Framed(w.wire, EndAt(w, i - 1), ChunkOf(w, i))
       /\ EndAt(w, i) = EndAt(w, i - 1) + SizePlaces(ChunkOf(w, i)) + 4 + Len(ChunkOf(w, i))
       /\ EndAt(w, i) <= Len(w.wire) /\ (Len(ChunkOf(w, i)) = 0 <=> i = ChunkCount(w) + 1)

\* A chunk is framed the same where it stands in a longer sequence.
LEMMA FramedPart ==
  ASSUME NEW t, NEW c, Framed(t, 0, c), NEW q, NEW e \in Nat, Len(t) = SizePlaces(c) + 4 + Len(c),
         e + Len(t) <= Len(q), \A k \in 1 .. Len(t) : q[e + k] = t[k]
  PROVE  Framed(q, e, c)
<1>1. PICK d : d = SizePlaces(c)
  OBVIOUS
<1>2. PICK n : n = Len(c)
  OBVIOUS
<1>3. d \in 1 .. 2 /\ n \in 0 .. 3
  <2>1. Len(c) \in 0 .. 3
    BY Zenon DEF Framed
  <2> QED
    BY <1>1, <1>2, <2>1 DEF SizePlaces
<1>4. /\ \A k \in 1 .. d : t[0 + k] \in Connection!Bits
      /\ n = IF d = 2 THEN 2 * Bit(t[0 + 1]) + Bit(t[0 + 2]) ELSE Bit(t[0 + 1])
      /\ t[0 + d + 1] = "cr" /\ t[0 + d + 2] = "lf"
      /\ \A k \in 1 .. n : t[0 + d + 2 + k] = c[k]
      /\ t[0 + d + 3 + n] = "cr" /\ t[0 + d + 4 + n] = "lf"
      /\ c \in Seq(Connection!Bytes)
  BY <1>1, <1>2 DEF Framed
<1>5. Len(t) = d + 4 + n
  BY <1>1, <1>2
<1>6. ASSUME NEW k \in 1 .. Len(t) PROVE q[e + k] = t[k]
  OBVIOUS
<1>7. /\ \A k \in 1 .. d : 0 + k = k /\ k \in 1 .. Len(t)
      /\ d + 1 \in 1 .. Len(t) /\ 0 + d + 1 = d + 1 /\ e + (d + 1) = e + d + 1
      /\ d + 2 \in 1 .. Len(t) /\ 0 + d + 2 = d + 2 /\ e + (d + 2) = e + d + 2
      /\ \A k \in 1 .. n : d + 2 + k \in 1 .. Len(t) /\ 0 + d + 2 + k = d + 2 + k
                           /\ e + (d + 2 + k) = e + d + 2 + k
      /\ d + 3 + n \in 1 .. Len(t) /\ 0 + d + 3 + n = d + 3 + n /\ e + (d + 3 + n) = e + d + 3 + n
      /\ d + 4 + n \in 1 .. Len(t) /\ 0 + d + 4 + n = d + 4 + n /\ e + (d + 4 + n) = e + d + 4 + n
      /\ 1 \in 1 .. d /\ (d = 2 => 2 \in 1 .. d) /\ 0 + 1 = 1 /\ 0 + 2 = 2
      /\ e + Len(t) = e + d + 4 + n
  <2> DEFINE m == d + 4 + n
  <2>1. /\ \A k \in 1 .. d : 0 + k = k /\ k \in 1 .. m
        /\ d + 1 \in 1 .. m /\ 0 + d + 1 = d + 1 /\ e + (d + 1) = e + d + 1
        /\ d + 2 \in 1 .. m /\ 0 + d + 2 = d + 2 /\ e + (d + 2) = e + d + 2
    BY <1>3
  <2>2. \A k \in 1 .. n : /\ d + 2 + k \in 1 .. m /\ 0 + d + 2 + k = d + 2 + k
                          /\ e + (d + 2 + k) = e + d + 2 + k
    BY <1>3
  <2>3. /\ d + 3 + n \in 1 .. m /\ 0 + d + 3 + n = d + 3 + n /\ e + (d + 3 + n) = e + d + 3 + n
        /\ d + 4 + n \in 1 .. m /\ 0 + d + 4 + n = d + 4 + n /\ e + (d + 4 + n) = e + d + 4 + n
    BY <1>3
  <2>4. /\ 1 \in 1 .. d /\ (d = 2 => 2 \in 1 .. d) /\ 0 + 1 = 1 /\ 0 + 2 = 2
        /\ e + m = e + d + 4 + n
    BY <1>3
  <2>5. Len(t) = m
    BY <1>5
  <2> HIDE DEF m
  <2> QED
    BY <2>1, <2>2, <2>3, <2>4, <2>5
<1>8. \A k \in 1 .. d : q[e + k] = t[k] /\ q[e + k] \in Connection!Bits
  <2> TAKE k \in 1 .. d
  <2>1. k \in 1 .. Len(t) /\ t[0 + k] = t[k]
    BY <1>7
  <2> QED
    BY <1>4, <1>6, <2>1
<1>9. n = IF d = 2 THEN 2 * Bit(q[e + 1]) + Bit(q[e + 2]) ELSE Bit(q[e + 1])
  BY <1>4, <1>7, <1>8
<1>10. q[e + d + 1] = "cr" /\ q[e + d + 2] = "lf"
  <2>1. q[e + (d + 1)] = t[d + 1] /\ q[e + (d + 2)] = t[d + 2]
    BY <1>6, <1>7
  <2>2. t[d + 1] = "cr" /\ t[d + 2] = "lf"
    BY <1>4, <1>7
  <2>3. e + (d + 1) = e + d + 1 /\ e + (d + 2) = e + d + 2
    BY <1>7
  <2> QED
    BY <2>1, <2>2, <2>3
<1>11. q[e + d + 3 + n] = "cr" /\ q[e + d + 4 + n] = "lf"
  <2>1. q[e + (d + 3 + n)] = t[d + 3 + n] /\ q[e + (d + 4 + n)] = t[d + 4 + n]
    BY <1>6, <1>7
  <2>2. t[d + 3 + n] = "cr" /\ t[d + 4 + n] = "lf"
    BY <1>4, <1>7
  <2>3. e + (d + 3 + n) = e + d + 3 + n /\ e + (d + 4 + n) = e + d + 4 + n
    BY <1>7
  <2> QED
    BY <2>1, <2>2, <2>3
<1>12. \A k \in 1 .. n : q[e + d + 2 + k] = c[k]
  <2> TAKE k \in 1 .. n
  <2>1. d + 2 + k \in 1 .. Len(t) /\ 0 + d + 2 + k = d + 2 + k /\ e + (d + 2 + k) = e + d + 2 + k
    BY <1>7
  <2>2. q[e + (d + 2 + k)] = t[d + 2 + k] /\ t[0 + d + 2 + k] = c[k]
    BY <1>4, <1>6, <2>1
  <2> QED
    BY <2>1, <2>2
<1>13. e + d + 4 + n <= Len(q)
  BY <1>7
<1> QED
  BY <1>1, <1>2, <1>3, <1>4, <1>8, <1>9, <1>10, <1>11, <1>12, <1>13 DEF Framed

\* A chunked response on the wire is made of its chunks, and of the last one of
\* size 0.
LEMMA SegmentFacts ==
  ASSUME Connection!ConnectionAssumption, NEW w \in {Connection!OnWire(r) : r \in Responses},
         w.kind = "chunked"
  PROVE  Segmented(w)
<1>1. PICK r \in Responses : r = From(w) /\ w = Connection!OnWire(r)
  BY FromFacts
<1>2. r.kind = "chunked"
  BY <1>1 DEF Connection!OnWire
<1>3. PICK F : /\ Pieced(F, Connection!Pieces(r), Alphabet)
                    /\ Connection!OnWire(r).wire = F[Len(Connection!Pieces(r))]
               /\ Len(F[1]) = 2
  BY HeadFacts
<1>4. PICK n : n = ChunkCount(w)
  OBVIOUS
<1>5. n = Len(r.chunks) /\ Chunks(w) = r.chunks
  BY <1>1, <1>4 DEF ChunkCount, Chunks
<1>6. PICK P : P = Connection!Pieces(r)
  OBVIOUS
<1>7. /\ P \in Seq(Seq(Alphabet)) /\ n \in Nat /\ Len(P) = n + 2
      /\ \A i \in 2 .. Len(P) : P[i] \in Seq(Later)
      /\ \A i \in 1 .. n : P[i + 1] = Framing(r.chunks[i])
      /\ P[n + 2] = Framing(<<>>)
  <2>1. /\ P \in Seq(Seq(Alphabet)) /\ n \in Nat
        /\ Len(P) = n + (IF r.kind = "length" THEN 1 ELSE 2)
        /\ \A i \in 2 .. Len(P) : P[i] \in Seq(Later)
        /\ r.kind = "chunked" =>
              /\ \A i \in 1 .. n : P[i + 1] = Framing(r.chunks[i])
              /\ P[n + 2] = Framing(<<>>)
    BY <1>5, <1>6, PiecesFacts
  <2>2. r.kind # "length"
    BY <1>2
  <2> QED
    BY <1>2, <2>1, <2>2
<1>8. /\ \A i \in 0 .. n + 2 : F[i] \in Seq(Alphabet) /\ Len(F[i]) \in Nat
      /\ \A i \in 1 .. n + 2 : PieceAt(F, P, Alphabet, i)
  BY <1>3, <1>6, <1>7, PiecedFacts
<1>9. \A i, j \in 0 .. n + 2 : i <= j =>
        Len(F[i]) <= Len(F[j]) /\ \A k \in 1 .. Len(F[i]) : F[j][k] = F[i][k]
  <2>1. P \in Seq(Seq(Alphabet)) /\ Pieced(F, P, Alphabet)
    BY <1>3, <1>6, <1>7
  <2>2. \A i, j \in 0 .. Len(P) : i <= j =>
          Len(F[i]) <= Len(F[j]) /\ \A k \in 1 .. Len(F[i]) : F[j][k] = F[i][k]
    BY <2>1, PiecedOrder
  <2> QED
    BY <1>7, <2>2
<1>10. w.wire = F[n + 2] /\ n + 2 \in 0 .. n + 2
  BY <1>1, <1>3, <1>6, <1>7
<1>11. /\ DOMAIN w.ends = 1 .. n + 1
       /\ \A i \in 1 .. n + 1 : w.ends[i] = Len(Connection!FlattenSeq(SubSeq(P, 1, i + 1)))
  <2>1. w.ends = [i \in 1 .. Len(P) - 1 |-> Len(Connection!FlattenSeq(SubSeq(P, 1, i + 1)))]
    <3>1. w.ends = Connection!Ends(r)
      BY <1>1 DEF Connection!OnWire
    <3> QED
      BY <1>6, <3>1, Zenon DEF Connection!Ends
  <2>2. Len(P) - 1 = n + 1
    BY <1>7
  <2> QED
    BY <2>1, <2>2
<1>12. \A i \in 1 .. n + 1 : w.ends[i] = Len(F[i + 1])
  <2> TAKE i \in 1 .. n + 1
  <2>1. i + 1 \in 0 .. Len(P)
    BY <1>7
  <2>2. Connection!FlattenSeq(SubSeq(P, 1, i + 1)) = F[i + 1]
    <3>1. P \in Seq(Seq(Alphabet)) /\ Pieced(F, P, Alphabet)
      BY <1>3, <1>6, <1>7
    <3> QED
      BY <2>1, <3>1, ConnectionPrefix
  <2> QED
    BY <1>11, <2>2
<1>13. \A i \in 0 .. n + 1 : EndAt(w, i) = Len(F[i + 1]) /\ EndAt(w, i) \in Nat
  <2> TAKE i \in 0 .. n + 1
  <2>1. i + 1 \in 0 .. n + 2
    BY <1>7
  <2>2. CASE i = 0
    BY <1>3, <2>2 DEF EndAt
  <2>3. CASE i # 0
    <3>1. i \in 1 .. n + 1
      BY <1>7, <2>3
    <3>2. EndAt(w, i) = w.ends[i]
      BY <2>3 DEF EndAt
    <3> QED
      BY <1>8, <1>12, <2>1, <3>1, <3>2
  <2> QED
    BY <2>2, <2>3
<1>14. \A i \in 1 .. n + 1 :
         /\ ChunkOf(w, i) \in Seq(Connection!Bytes) /\ Len(ChunkOf(w, i)) \in 0 .. 3
         /\ (Len(ChunkOf(w, i)) = 0 <=> i = n + 1)
  <2> TAKE i \in 1 .. n + 1
  <2>1. CASE i \in 1 .. n
    <3>1. ChunkOf(w, i) \in Seq(Connection!Bytes) /\ Len(ChunkOf(w, i)) \in 1 .. 3
      BY <1>4, <2>1, GrowFacts DEF Growing
    <3>2. \A k \in 1 .. 3 : k \in 0 .. 3 /\ k # 0
      OBVIOUS
    <3>3. i # n + 1
      BY <1>7, <2>1
    <3> QED
      BY <3>1, <3>2, <3>3
  <2>2. CASE i = n + 1
    <3>1. ~ (i <= n)
      BY <1>7, <2>2
    <3>2. ChunkOf(w, i) = <<>>
      BY <1>4, <3>1 DEF ChunkOf
    <3>3. <<>> \in Seq(Connection!Bytes) /\ Len(<<>>) = 0 /\ 0 \in 0 .. 3
      OBVIOUS
    <3> QED
      BY <2>2, <3>2, <3>3
  <2>3. i \in 1 .. n \/ i = n + 1
    BY <1>7
  <2> QED
    BY <2>1, <2>2, <2>3
<1>15. \A i \in 1 .. n + 1 : P[i + 1] = Framing(ChunkOf(w, i))
  <2> TAKE i \in 1 .. n + 1
  <2>1. CASE i \in 1 .. n
    <3>1. i <= n
      BY <1>7, <2>1
    <3>2. ChunkOf(w, i) = r.chunks[i]
      BY <1>4, <1>5, <3>1 DEF ChunkOf
    <3> QED
      BY <1>7, <2>1, <3>2
  <2>2. CASE i = n + 1
    <3>1. ~ (i <= n) /\ i + 1 = n + 2
      BY <1>7, <2>2
    <3>2. ChunkOf(w, i) = <<>>
      BY <1>4, <3>1 DEF ChunkOf
    <3> QED
      BY <1>7, <3>1, <3>2
  <2>3. i \in 1 .. n \/ i = n + 1
    BY <1>7
  <2> QED
    BY <2>1, <2>2, <2>3
<1>16. ASSUME NEW i \in 1 .. n + 1
       PROVE  /\ Framed(w.wire, EndAt(w, i - 1), ChunkOf(w, i))
              /\ EndAt(w, i) = EndAt(w, i - 1) + SizePlaces(ChunkOf(w, i)) + 4 + Len(ChunkOf(w, i))
              /\ EndAt(w, i) <= Len(w.wire)
  <2>1. /\ i + 1 \in 1 .. n + 2 /\ i - 1 \in 0 .. n + 1 /\ i \in 0 .. n + 1 /\ (i + 1) - 1 = i
        /\ (i - 1) + 1 = i /\ i + 1 \in 0 .. n + 2 /\ i + 1 <= n + 2 /\ i \in 0 .. n + 2
    BY <1>7
  <2>2. PICK c : c = ChunkOf(w, i)
    OBVIOUS
  <2>3. PICK t : t = Framing(c)
    OBVIOUS
  <2>4. PICK e : e = EndAt(w, i - 1)
    OBVIOUS
  <2>5. /\ t \in Seq(Later) /\ Len(t) = SizePlaces(c) + 4 + Len(c) /\ Framed(t, 0, c)
    <3>1. c \in Seq(Connection!Bytes) /\ Len(c) \in 0 .. 3
      BY <1>14, <2>2
    <3> QED
      BY <2>3, <3>1, ChunkFacts
  <2>6. P[i + 1] = t
    BY <1>15, <2>2, <2>3
  <2>7. /\ Len(F[i + 1]) = Len(F[i]) + Len(t)
        /\ \A k \in 1 .. Len(t) : F[i + 1][Len(F[i]) + k] = t[k]
    <3>1. PieceAt(F, P, Alphabet, i + 1)
      BY <1>8, <2>1
    <3> QED
      BY <2>1, <2>6, <3>1 DEF PieceAt
  <2>8. e = Len(F[i]) /\ e \in Nat /\ EndAt(w, i) = Len(F[i + 1]) /\ Len(F[i + 1]) \in Nat
    BY <1>13, <2>1, <2>4
  <2>9. Len(F[i + 1]) <= Len(w.wire) /\ \A k \in 1 .. Len(F[i + 1]) : w.wire[k] = F[i + 1][k]
    BY <1>9, <1>10, <2>1
  <2>10. PICK m : m = Len(t)
    OBVIOUS
  <2>11. m \in Nat
    BY <2>5, <2>10
  <2>12. ASSUME NEW k \in 1 .. m PROVE w.wire[e + k] = t[k]
    <3>1. e + k \in 1 .. e + m
      BY <2>8, <2>11
    <3>2. e + k \in 1 .. Len(F[i + 1])
      BY <2>7, <2>8, <2>10, <3>1
    <3> QED
      BY <2>7, <2>8, <2>9, <2>10, <3>2
  <2>13. EndAt(w, i) = e + SizePlaces(c) + 4 + Len(c)
    <3>1. SizePlaces(c) \in Nat /\ Len(c) \in Nat
      BY <1>14, <2>2 DEF SizePlaces
    <3>2. \A x, y, z \in Nat : x + (y + 4 + z) = x + y + 4 + z
      OBVIOUS
    <3> QED
      BY <2>5, <2>7, <2>8, <3>1, <3>2
  <2>14. Framed(w.wire, e, c)
    <3>1. PICK q : q = w.wire
      OBVIOUS
    <3>2. q \in Seq(Alphabet) /\ e + Len(t) <= Len(q)
      BY <1>8, <1>10, <2>7, <2>8, <2>9, <3>1
    <3>3. \A k \in 1 .. Len(t) : q[e + k] = t[k]
      BY <2>10, <2>12, <3>1
    <3>4. Framed(t, 0, c) /\ t \in Seq(Later) /\ e \in Nat /\ Len(t) = SizePlaces(c) + 4 + Len(c)
      BY <2>5, <2>8
    <3> QED
      <4>1. /\ Framed(t, 0, c) /\ e \in Nat /\ Len(t) = SizePlaces(c) + 4 + Len(c)
            /\ e + Len(t) <= Len(q) /\ \A k \in 1 .. Len(t) : q[e + k] = t[k]
        BY <3>2, <3>3, <3>4
      <4>2. Framed(q, e, c)
        BY <4>1, FramedPart
      <4> QED
        BY <3>1, <4>2
  <2> QED
    BY <2>2, <2>4, <2>8, <2>9, <2>13, <2>14
<1>17. EndAt(w, 0) = 2 /\ EndAt(w, n + 1) = Len(w.wire)
  <2>1. n + 1 \in 0 .. n + 1 /\ (n + 1) + 1 = n + 2
    BY <1>7
  <2> QED
    BY <1>10, <1>13, <2>1 DEF EndAt
<1>18. Len(w.ends) = n + 1
  <2>1. w.ends = [i \in 1 .. n + 1 |-> w.ends[i]]
    <3>1. w.ends = Connection!Ends(r)
      BY <1>1 DEF Connection!OnWire
    <3>2. w.ends = [i \in 1 .. Len(P) - 1 |-> Len(Connection!FlattenSeq(SubSeq(P, 1, i + 1)))]
      BY <1>6, <3>1, Zenon DEF Connection!Ends
    <3> QED
      BY <1>11, <3>2
  <2>2. n + 1 \in Nat
    BY <1>7
  <2> QED
    BY <2>1, <2>2
<1> QED
  BY <1>4, <1>7, <1>11, <1>13, <1>14, <1>16, <1>17, <1>18 DEF Segmented

-----------------------------------------------------------------------------
(* What the parser of a chunk does.                                        *)

\* How many digits a line begins with.
Leads(b, n) ==
  /\ n \in 0 .. Len(b) /\ \A k \in 1 .. n : b[k] \in Connection!Bits
  /\ n < Len(b) => b[n + 1] \notin Connection!Bits

\* Every sequence has a longest beginning of digits.
LEMMA LeadExists ==
  ASSUME NEW b \in Seq(Later)
  PROVE  \E n : Leads(b, n)
<1> DEFINE T == {k \in Nat : k >= Len(b) \/ (k < Len(b) /\ b[k + 1] \notin Connection!Bits)}
<1>1. Len(b) \in Nat
  OBVIOUS
<1>2. Len(b) \in T /\ T \subseteq Nat
  BY <1>1
<1>3. PICK n \in T : \A k \in T : n <= k
  <2> HIDE DEF T
  <2> QED
    BY <1>2, Least
<1>4. n \in 0 .. Len(b)
  BY <1>1, <1>2, <1>3
<1>5. ASSUME NEW k \in 1 .. n PROVE b[k] \in Connection!Bits
  <2>1. k - 1 \in Nat /\ k - 1 < n /\ k - 1 < Len(b) /\ (k - 1) + 1 = k
    BY <1>1, <1>4
  <2>2. k - 1 \notin T
    BY <1>3, <1>4, <2>1
  <2> QED
    BY <2>1, <2>2
<1>6. n < Len(b) => b[n + 1] \notin Connection!Bits
  BY <1>1, <1>3, <1>4
<1> QED
  BY <1>4, <1>5, <1>6 DEF Leads

\* What the line parser finds in a buffer that begins with n digits.
ParsedAs(b, n) ==
  /\ Connection!Parsed(b).content_len = Connection!Number(SubSeq(b, 1, n))
  /\ Connection!Parsed(b).rest = SubSeq(b, n + 3, Len(b))
  /\ Connection!Parsed(b).state \in {"error", "more", "finished"}
  /\ n = 0 => Connection!Parsed(b).state = "error"
  /\ (/\ n > 0
      /\ n < Len(b) => b[n + 1] = "cr"
      /\ n + 1 < Len(b) => b[n + 2] = "lf") =>
        Connection!Parsed(b).state = IF n + 1 < Len(b) THEN "finished" ELSE "more"

\* What the chunk parser does is determined by the digits in front.
LEMMA ParsedFacts ==
  ASSUME NEW b \in Seq(Later), NEW n, Leads(b, n), Len(b) > 0
  PROVE  ParsedAs(b, n)
<1>1. Len(b) \in Nat /\ n \in Nat /\ n <= Len(b)
  BY DEF Leads
<1> DEFINE I == {i \in 1 .. Len(b) : b[i] \notin Connection!Bits}
           stop == IF I # {} THEN Connection!Min(I) ELSE 0
           len == IF stop = 0 THEN Len(b) ELSE stop - 1
           m == Connection!Min({len + 2, Len(b)})
           eol == SubSeq(b, len + 1, m)
           verdict == CASE len = 0 \/ ~ Connection!IsPrefix(eol, Connection!CRLF) -> "error"
                      [] len > 0 /\ eol = Connection!CRLF -> "finished"
                      [] OTHER -> "more"
<1>2. /\ Connection!Parsed(b).state = verdict
      /\ Connection!Parsed(b).content_len = Connection!Number(SubSeq(b, 1, len))
      /\ Connection!Parsed(b).rest = SubSeq(b, len + 3, Len(b))
  BY DEF Connection!Parsed, Connection!SelectInSeq
<1>3. len = n
  <2>1. CASE n < Len(b)
    <3>1. n + 1 \in I
      BY <1>1, <2>1 DEF Leads
    <3>2. \A i \in I : n + 1 <= i
      BY <1>1 DEF Leads
    <3>3. \A x \in I : (\A y \in I : x <= y) => x = n + 1
      BY <1>1, <3>1, <3>2
    <3>4. Connection!Min(I) = n + 1
      <4>1. \E x \in I : \A y \in I : x <= y
        BY <3>1, <3>2
      <4> HIDE DEF I
      <4> QED
        BY <3>3, <4>1, Zenon DEF Connection!Min
    <3> HIDE DEF I
    <3> QED
      BY <1>1, <3>1, <3>4
  <2>2. CASE n = Len(b)
    <3>1. I = {}
      BY <2>2 DEF Leads
    <3> HIDE DEF I
    <3> QED
      BY <2>2, <3>1
  <2> QED
    BY <1>1, <2>1, <2>2
<1> HIDE DEF I, stop, len, m, eol, verdict
<1>4. /\ m = IF n + 2 <= Len(b) THEN n + 2 ELSE Len(b)
      /\ eol = SubSeq(b, n + 1, m)
      /\ verdict = IF n = 0 \/ ~ Connection!IsPrefix(eol, Connection!CRLF) THEN "error"
                 ELSE IF eol = Connection!CRLF THEN "finished" ELSE "more"
  <2>1. {n + 2, Len(b)} \subseteq Nat /\ {n + 2, Len(b)} # {}
    BY <1>1
  <2>2. PICK x \in {n + 2, Len(b)} : \A y \in {n + 2, Len(b)} : x <= y
    BY <2>1, Least
  <2>3. Connection!Min({n + 2, Len(b)}) \in {n + 2, Len(b)}
        /\ \A y \in {n + 2, Len(b)} : Connection!Min({n + 2, Len(b)}) <= y
    BY <2>2, Zenon DEF Connection!Min
  <2>4. m = Connection!Min({n + 2, Len(b)})
    BY <1>3 DEF m
  <2>5. m = IF n + 2 <= Len(b) THEN n + 2 ELSE Len(b)
    BY <1>1, <2>3, <2>4
  <2>6. eol = SubSeq(b, n + 1, m)
    BY <1>3 DEF eol
  <2>7. verdict = IF n = 0 \/ ~ Connection!IsPrefix(eol, Connection!CRLF) THEN "error"
                ELSE IF eol = Connection!CRLF THEN "finished" ELSE "more"
    <3>1. verdict = CASE n = 0 \/ ~ Connection!IsPrefix(eol, Connection!CRLF) -> "error"
                    [] n > 0 /\ eol = Connection!CRLF -> "finished"
                    [] OTHER -> "more"
      BY <1>3, Zenon DEF verdict
    <3>2. n > 0 <=> n # 0
      BY <1>1
    <3>3. CASE n = 0 \/ ~ Connection!IsPrefix(eol, Connection!CRLF)
      <4>1. ~ (n > 0 /\ eol = Connection!CRLF)
        <5>1. CASE n = 0
          BY <3>2, <5>1
        <5>2. CASE ~ Connection!IsPrefix(eol, Connection!CRLF)
          <6>1. Connection!IsPrefix(Connection!CRLF, Connection!CRLF)
            <7>1. Connection!CRLF = <<"cr", "lf">>
              BY DEF Connection!CRLF
            <7> QED
              BY <7>1 DEF Connection!IsPrefix
          <6> QED
            BY <5>2, <6>1
        <5> QED
          BY <3>3, <5>1, <5>2
      <4> QED
        BY <3>1, <3>3, <4>1
    <3>4. CASE ~ (n = 0 \/ ~ Connection!IsPrefix(eol, Connection!CRLF))
      BY <3>1, <3>2, <3>4
    <3> QED
      BY <3>3, <3>4
  <2> QED
    BY <2>5, <2>6, <2>7
<1>5. Connection!CRLF = <<"cr", "lf">> /\ Connection!CRLF \in Seq(Later) /\ Len(Connection!CRLF) = 2
  <2>1. "cr" \in Connection!ToSet(Connection!CRLF) /\ "lf" \in Connection!ToSet(Connection!CRLF)
    BY DEF Connection!ToSet, Connection!CRLF
  <2> QED
    BY <2>1 DEF Connection!CRLF, Later
<1>6. ASSUME n > 0, n < Len(b) => b[n + 1] = "cr", n + 1 < Len(b) => b[n + 2] = "lf"
      PROVE  verdict = IF n + 1 < Len(b) THEN "finished" ELSE "more"
  <2>1. CASE n + 1 < Len(b)
    <3>1. m = n + 2 /\ n + 2 <= Len(b) /\ b[n + 1] = "cr" /\ b[n + 2] = "lf"
      BY <1>1, <1>4, <1>6, <2>1
    <3>2. eol = SubSeq(b, n + 1, n + 2)
      BY <1>4, <3>1
    <3>3. /\ eol \in Seq(Later) /\ Len(eol) = 2
          /\ \A k \in 1 .. 2 : eol[k] = b[n + k]
      <4>1. n \in Nat /\ 2 \in Nat /\ n + 2 <= Len(b)
        BY <1>1, <3>1
      <4> QED
        <5>1. /\ SubSeq(b, n + 1, n + 2) \in Seq(Later) /\ Len(SubSeq(b, n + 1, n + 2)) = 2
              /\ \A k \in 1 .. 2 : SubSeq(b, n + 1, n + 2)[k] = b[n + k]
          BY <4>1, Part
        <5> QED
          BY <3>2, <5>1
    <3>4. eol[1] = "cr" /\ eol[2] = "lf" /\ Connection!CRLF[1] = "cr" /\ Connection!CRLF[2] = "lf"
      BY <1>5, <3>1, <3>3
    <3>5. eol = Connection!CRLF
      BY <1>5, <3>3, <3>4, SameSequence
    <3>6. Connection!IsPrefix(Connection!CRLF, Connection!CRLF)
      BY <1>5 DEF Connection!IsPrefix
    <3>7. n # 0 /\ Connection!IsPrefix(eol, Connection!CRLF)
      BY <1>1, <1>6, <3>5, <3>6
    <3>8. verdict = "finished"
      BY <1>4, <3>5, <3>7
    <3> QED
      BY <2>1, <3>8
  <2>2. CASE ~ (n + 1 < Len(b))
    <3>1. m = Len(b) /\ (Len(b) = n \/ Len(b) = n + 1)
      BY <1>1, <1>4, <2>2
    <3>2. Len(eol) # 2 /\ Connection!IsPrefix(eol, Connection!CRLF)
      <4>1. CASE Len(b) = n
        <5>1. eol = SubSeq(b, n + 1, n)
          BY <1>4, <3>1, <4>1
        <5>2. eol = <<>>
          BY <1>1, <5>1
        <5>3. Connection!IsPrefix(<<>>, Connection!CRLF)
          <6>1. Len(<<>>) = 0 /\ 0 <= 2 /\ SubSeq(<<>>, 1, 0) = <<>>
                     /\ SubSeq(Connection!CRLF, 1, 0) = <<>>
            BY <1>5
          <6> QED
            BY <1>5, <6>1 DEF Connection!IsPrefix
        <5> QED
          BY <5>2, <5>3
      <4>2. CASE Len(b) = n + 1
        <5>1. eol = SubSeq(b, n + 1, n + 1) /\ b[n + 1] = "cr"
          BY <1>1, <1>4, <1>6, <3>1, <4>2
        <5>2. /\ eol \in Seq(Later) /\ Len(eol) = 1 /\ \A k \in 1 .. 1 : eol[k] = b[n + k]
          <6>1. n \in Nat /\ 1 \in Nat /\ n + 1 <= Len(b)
            BY <1>1, <4>2
          <6> QED
            <7>1. /\ SubSeq(b, n + 1, n + 1) \in Seq(Later) /\ Len(SubSeq(b, n + 1, n + 1)) = 1
                  /\ \A k \in 1 .. 1 : SubSeq(b, n + 1, n + 1)[k] = b[n + k]
              BY <6>1, Part
            <7> QED
              BY <5>1, <7>1
        <5>3. eol[1] = "cr"
          BY <5>1, <5>2
        <5>4. SubSeq(eol, 1, 1) = SubSeq(Connection!CRLF, 1, 1)
          <6>1. /\ SubSeq(eol, 0 + 1, 0 + 1) \in Seq(Later) /\ Len(SubSeq(eol, 0 + 1, 0 + 1)) = 1
                /\ \A k \in 1 .. 1 : SubSeq(eol, 0 + 1, 0 + 1)[k] = eol[0 + k]
            <7>1. 0 \in Nat /\ 1 \in Nat /\ 0 + 1 <= Len(eol) /\ eol \in Seq(Later)
              BY <5>2
            <7> QED
              BY <7>1, Part
          <6>2. /\ SubSeq(Connection!CRLF, 0 + 1, 0 + 1) \in Seq(Later)
                /\ Len(SubSeq(Connection!CRLF, 0 + 1, 0 + 1)) = 1
                /\ \A k \in 1 .. 1 : SubSeq(Connection!CRLF, 0 + 1, 0 + 1)[k] = Connection!CRLF[0 + k]
            BY <1>5, Part
          <6>3. Connection!CRLF[1] = "cr"
            BY <1>5
          <6>4. PICK u, v : u = SubSeq(eol, 0 + 1, 0 + 1)
                     /\ v = SubSeq(Connection!CRLF, 0 + 1, 0 + 1)
            OBVIOUS
          <6>5. /\ u \in Seq(Later) /\ v \in Seq(Later) /\ Len(u) = Len(v)
                /\ \A k \in 1 .. Len(u) : u[k] = v[k]
            BY <5>3, <6>1, <6>2, <6>3, <6>4
          <6>6. u = v
            BY <6>5, SameSequence
          <6> QED
            BY <6>4, <6>6
        <5>5. 1 <= 2 /\ Len(eol) = 1 /\ Len(Connection!CRLF) = 2
          BY <1>5, <5>2
        <5> QED
          BY <5>4, <5>5 DEF Connection!IsPrefix
      <4> QED
        BY <3>1, <4>1, <4>2
    <3>3. eol # Connection!CRLF
      BY <1>5, <3>2
    <3> QED
      BY <1>1, <1>4, <1>6, <2>2, <3>2, <3>3
  <2> QED
    BY <2>1, <2>2
<1>7. verdict \in {"error", "more", "finished"} /\ (n = 0 => verdict = "error")
  BY <1>4
<1>8. /\ Connection!Parsed(b).content_len = Connection!Number(SubSeq(b, 1, n))
      /\ Connection!Parsed(b).rest = SubSeq(b, n + 3, Len(b))
      /\ Connection!Parsed(b).state = verdict
  BY <1>2, <1>3
<1> QED
  BY <1>6, <1>7, <1>8 DEF ParsedAs

\* Behind place e of q stand d digits and the end of their line.
Lined(q, e, d) ==
  /\ d \in 1 .. 2 /\ \A k \in 1 .. d : q[e + k] \in Connection!Bits
  /\ q[e + d + 1] = "cr" /\ q[e + d + 2] = "lf"
Value(q, e, d) == IF d = 2 THEN 2 * Bit(q[e + 1]) + Bit(q[e + 2]) ELSE Bit(q[e + 1])

\* The number that the first digits are.
LEMMA FirstDigits ==
  ASSUME NEW b \in Seq(Later)
  PROVE  /\ Len(b) >= 1 => Connection!Number(SubSeq(b, 1, 1)) = Bit(b[1])
         /\ Len(b) >= 2 => Connection!Number(SubSeq(b, 1, 2)) = 2 * Bit(b[1]) + Bit(b[2])
<1>1. Len(b) \in Nat
  OBVIOUS
<1>2. ASSUME Len(b) >= 1 PROVE Connection!Number(SubSeq(b, 1, 1)) = Bit(b[1])
  <2>1. PICK u, v : u = SubSeq(b, 0 + 1, 0 + 1) /\ v = <<b[1]>>
    OBVIOUS
  <2>2. u \in Seq(Later) /\ Len(u) = 1 /\ \A k \in 1 .. 1 : u[k] = b[0 + k]
    <3>1. 0 \in Nat /\ 1 \in Nat /\ 0 + 1 <= Len(b)
      BY <1>1, <1>2
    <3> QED
      BY <2>1, <3>1, Part
  <2>3. v \in Seq(Later) /\ Len(v) = 1 /\ v[1] = b[1]
    BY <1>2, <2>1
  <2>4. Len(u) = Len(v) /\ \A k \in 1 .. Len(u) : u[k] = v[k]
    BY <2>2, <2>3
  <2>5. u = v
    BY <2>2, <2>3, <2>4, SameSequence
  <2>6. 0 + 1 = 1
    OBVIOUS
  <2> QED
    BY <2>1, <2>5, <2>6, NumberFacts, Zenon
<1>3. ASSUME Len(b) >= 2 PROVE Connection!Number(SubSeq(b, 1, 2)) = 2 * Bit(b[1]) + Bit(b[2])
  <2>1. PICK u, v : u = SubSeq(b, 0 + 1, 0 + 2) /\ v = <<b[1], b[2]>>
    OBVIOUS
  <2>2. u \in Seq(Later) /\ Len(u) = 2 /\ \A k \in 1 .. 2 : u[k] = b[0 + k]
    <3>1. 0 \in Nat /\ 2 \in Nat /\ 0 + 2 <= Len(b)
      BY <1>1, <1>3
    <3> QED
      BY <2>1, <3>1, Part
  <2>3. v \in Seq(Later) /\ Len(v) = 2 /\ v[1] = b[1] /\ v[2] = b[2]
    BY <1>3, <2>1
  <2>4. Len(u) = Len(v) /\ \A k \in 1 .. Len(u) : u[k] = v[k]
    <3>1. \A k \in 1 .. 2 : 0 + k = k /\ (k = 1 \/ k = 2)
      OBVIOUS
    <3> QED
      BY <2>2, <2>3, <3>1
  <2>5. u = v
    BY <2>2, <2>3, <2>4, SameSequence
  <2>6. 0 + 1 = 1 /\ 0 + 2 = 2
    OBVIOUS
  <2> QED
    BY <2>1, <2>5, <2>6, NumberFacts, Zenon
<1> QED
  BY <1>2, <1>3

\* What a buffer holds that begins at such a line.
Parses(b, q, e, d) ==
  /\ Len(b) <= d + 1 => Connection!Parsed(b).state = "more"
  /\ Len(b) >= d + 2 =>
       /\ Connection!Parsed(b).state = "finished"
       /\ Connection!Parsed(b).content_len = Value(q, e, d)
       /\ Connection!Parsed(b).rest \in Seq(Later)
       /\ Len(Connection!Parsed(b).rest) = Len(b) - d - 2
       /\ \A k \in 1 .. Len(Connection!Parsed(b).rest) : Connection!Parsed(b).rest[k] = q[e + d + 2 + k]

\* Parsing the beginning of a line: in the middle of it, at its end or behind.
LEMMA LineFacts ==
  ASSUME NEW q, NEW e \in Nat, NEW d, Lined(q, e, d), NEW b \in Seq(Later), Len(b) > 0,
         \A k \in 1 .. Len(b) : b[k] = q[e + k]
  PROVE  Parses(b, q, e, d)
<1>1. d \in 1 .. 2 /\ Len(b) \in Nat
  BY DEF Lined
<1>2. PICK m : m = Len(b)
  OBVIOUS
<1>3. m \in Nat /\ m > 0 /\ \A k \in 1 .. m : b[k] = q[e + k]
  BY <1>1, <1>2
<1>4. "cr" \notin Connection!Bits /\ "lf" \notin Connection!Bits
  BY DEF Connection!Bits
<1>5. CASE m <= d
  <2>1. Leads(b, m)
    <3>1. m \in 0 .. m /\ ~ (m < m) /\ \A k \in 1 .. m : k \in 1 .. d
      BY <1>1, <1>3, <1>5
    <3>2. \A k \in 1 .. m : b[k] \in Connection!Bits
      BY <1>3, <3>1 DEF Lined
    <3> QED
      BY <1>2, <3>1, <3>2 DEF Leads
  <2>2. ParsedAs(b, m)
    BY <2>1, ParsedFacts
  <2>3. ~ (m < m) /\ ~ (m + 1 < m) /\ ~ (m >= d + 2)
    BY <1>1, <1>3, <1>5
  <2>4. Connection!Parsed(b).state = "more"
    BY <1>2, <1>3, <2>2, <2>3 DEF ParsedAs
  <2> QED
    BY <1>2, <2>3, <2>4 DEF Parses
<1>6. CASE m > d
  <2>1. Leads(b, d)
    <3>1. d \in 0 .. m /\ d < m /\ d + 1 \in 1 .. m /\ e + (d + 1) = e + d + 1
          /\ \A k \in 1 .. d : k \in 1 .. m
      BY <1>1, <1>3, <1>6
    <3>2. \A k \in 1 .. d : b[k] \in Connection!Bits
      BY <1>3, <3>1 DEF Lined
    <3>3. b[d + 1] \notin Connection!Bits
      BY <1>3, <1>4, <3>1 DEF Lined
    <3> QED
      BY <1>2, <3>1, <3>2, <3>3 DEF Leads
  <2>2. ParsedAs(b, d)
    BY <2>1, ParsedFacts
  <2>3. d > 0 /\ (d < m => b[d + 1] = "cr") /\ (d + 1 < m => b[d + 2] = "lf")
    <3>1. d > 0 /\ d + 1 \in 1 .. m /\ e + (d + 1) = e + d + 1
      BY <1>1, <1>3, <1>6
    <3>2. d + 1 < m => d + 2 \in 1 .. m /\ e + (d + 2) = e + d + 2
      BY <1>1, <1>3
    <3> QED
      BY <1>3, <3>1, <3>2 DEF Lined
  <2>4. Connection!Parsed(b).state = IF d + 1 < m THEN "finished" ELSE "more"
    BY <1>2, <2>2, <2>3 DEF ParsedAs
  <2>5. Connection!Parsed(b).content_len = Connection!Number(SubSeq(b, 1, d))
             /\ Connection!Parsed(b).rest = SubSeq(b, d + 3, m)
    BY <1>2, <2>2 DEF ParsedAs
  <2>6. CASE d + 1 < m
    <3>1. m >= d + 2 /\ ~ (m <= d + 1) /\ m - d - 2 \in Nat /\ d + 2 \in Nat
          /\ (d + 2) + (m - d - 2) = m /\ (d + 2) + 1 = d + 3
      BY <1>1, <1>3, <2>6
    <3>2. PICK n : n = m - d - 2
      OBVIOUS
    <3>3. /\ SubSeq(b, (d + 2) + 1, (d + 2) + n) \in Seq(Later)
          /\ Len(SubSeq(b, (d + 2) + 1, (d + 2) + n)) = n
          /\ \A k \in 1 .. n : SubSeq(b, (d + 2) + 1, (d + 2) + n)[k] = b[(d + 2) + k]
                               /\ (d + 2) + k \in 1 .. Len(b)
      <4>1. PICK w \in Nat : w = d + 2
        BY <3>1
      <4>2. b \in Seq(Later) /\ n \in Nat /\ w + n <= Len(b)
        <5>1. w + n = m /\ m <= m
          BY <1>3, <3>1, <3>2, <4>1
        <5> QED
          BY <1>2, <3>1, <3>2, <5>1
      <4>3. /\ SubSeq(b, w + 1, w + n) \in Seq(Later) /\ Len(SubSeq(b, w + 1, w + n)) = n
            /\ \A k \in 1 .. n : SubSeq(b, w + 1, w + n)[k] = b[w + k] /\ w + k \in 1 .. Len(b)
        BY <4>2, Part
      <4> QED
        BY <4>1, <4>3
    <3>4. PICK t : t = Connection!Parsed(b).rest
      OBVIOUS
    <3>5. SubSeq(b, (d + 2) + 1, (d + 2) + n) = t
      BY <2>5, <3>1, <3>2, <3>4
    <3>6. t \in Seq(Later) /\ Len(t) = n /\ \A k \in 1 .. n : t[k] = q[e + d + 2 + k]
      <4>1. \A k \in 1 .. n : e + ((d + 2) + k) = e + d + 2 + k
        BY <1>1, <3>1, <3>2
      <4> QED
        BY <1>2, <1>3, <3>3, <3>5, <4>1
    <3>7. Connection!Parsed(b).content_len = Value(q, e, d)
      <4>1. CASE d = 1
        <5>1. Len(b) >= 1 /\ b[1] = q[e + 1]
          BY <1>2, <1>3
        <5> QED
          BY <2>5, <4>1, <5>1, FirstDigits DEF Value
      <4>2. CASE d = 2
        <5>1. Len(b) >= 2 /\ 1 \in 1 .. m /\ 2 \in 1 .. m
          BY <1>2, <1>3, <2>6, <4>2
        <5>2. b[1] = q[e + 1] /\ b[2] = q[e + 2]
          BY <1>3, <5>1
        <5> QED
          BY <2>5, <4>2, <5>1, <5>2, FirstDigits DEF Value
      <4> QED
        BY <1>1, <4>1, <4>2
    <3>8. Connection!Parsed(b).state = "finished"
      BY <2>4, <2>6
    <3> QED
      BY <1>2, <3>1, <3>2, <3>4, <3>6, <3>7, <3>8 DEF Parses
  <2>7. CASE ~ (d + 1 < m)
    <3>1. ~ (m >= d + 2)
      BY <1>1, <1>3, <2>7
    <3>2. Connection!Parsed(b).state = "more"
      BY <2>4, <2>7
    <3> QED
      BY <1>2, <3>1, <3>2 DEF Parses
  <2> QED
    BY <2>6, <2>7
<1> QED
  BY <1>1, <1>3, <1>5, <1>6

\* What any other buffer may hold.
ParsedHolds(b, p) ==
  /\ p.state \in {"error", "more", "finished"} /\ p.content_len \in Nat
  /\ p.rest \in Seq(Later) /\ Len(p.rest) <= Len(b)
  /\ b[1] \notin Connection!Bits => p.state = "error"

\* What the chunk parser leaves is the end of what it was given.
LEMMA HoldFacts ==
  ASSUME NEW b \in Seq(Later), Len(b) > 0
  PROVE  ParsedHolds(b, Connection!Parsed(b))
<1>1. PICK n : Leads(b, n)
  BY LeadExists
<1>2. ParsedAs(b, n)
  BY <1>1, ParsedFacts
<1>3. n \in Nat /\ Len(b) \in Nat /\ n <= Len(b)
  BY <1>1 DEF Leads
<1>4. Connection!Parsed(b).content_len \in Nat
  <2>1. PICK s : s = SubSeq(b, 1, n)
    OBVIOUS
  <2>2. DOMAIN s = 1 .. n
    BY <1>3, <2>1
  <2>3. Connection!Number(s) \in Nat
    BY <1>3, <2>2, NumberFacts
  <2> QED
    BY <1>2, <2>1, <2>3 DEF ParsedAs
<1>5. Connection!Parsed(b).rest \in Seq(Later) /\ Len(Connection!Parsed(b).rest) <= Len(b)
  <2>1. PICK t : t = SubSeq(b, n + 3, Len(b))
    OBVIOUS
  <2>2. t \in Seq(Later) /\ Len(t) <= Len(b)
    <3>1. CASE n + 2 <= Len(b)
      <4>1. Len(b) - n - 2 \in Nat /\ n + 2 \in Nat /\ (n + 2) + 1 = n + 3
            /\ (n + 2) + (Len(b) - n - 2) = Len(b) /\ Len(b) - n - 2 <= Len(b)
        BY <1>3, <3>1
      <4>2. PICK j : j = Len(b) - n - 2
        OBVIOUS
      <4>3. /\ SubSeq(b, (n + 2) + 1, (n + 2) + j) \in Seq(Later)
            /\ Len(SubSeq(b, (n + 2) + 1, (n + 2) + j)) = j
        <5>1. n + 2 \in Nat /\ j \in Nat /\ (n + 2) + j <= Len(b) /\ b \in Seq(Later)
          BY <1>3, <4>1, <4>2
        <5> QED
          BY <5>1, Part
      <4> QED
        BY <2>1, <4>1, <4>2, <4>3
    <3>2. CASE ~ (n + 2 <= Len(b))
      <4>1. t = <<>>
        BY <1>3, <2>1, <3>2
      <4> QED
        BY <1>3, <4>1
    <3> QED
      BY <3>1, <3>2
  <2> QED
    BY <1>2, <2>1, <2>2 DEF ParsedAs
<1>6. ASSUME b[1] \notin Connection!Bits PROVE Connection!Parsed(b).state = "error"
  <2>1. n = 0
    <3>1. n # 0 => 1 \in 1 .. n
      BY <1>3
    <3> QED
      BY <1>1, <1>6, <3>1 DEF Leads
  <2> QED
    BY <1>2, <2>1 DEF ParsedAs
<1>7. Connection!Parsed(b).state \in {"error", "more", "finished"}
  BY <1>2 DEF ParsedAs
<1> QED
  BY <1>4, <1>5, <1>6, <1>7 DEF ParsedHolds

-----------------------------------------------------------------------------
(* The invariant of the receiver.                                          *)

\* The values of the variables.
Bodies == [body: Seq(Alphabet), at: Int, left: Nat]
ConnectionPlaces == {"head", "line", "raw", "fix", "done"}
Outcomes == {"none", "ok", "null", "length_error", "underrun"}

\* The types of the variables.
ConnectionTypes ==
  /\ rsp \in {Connection!OnWire(r) : r \in Responses}
  /\ c_pos \in Nat /\ c_sent \in Nat /\ c_pos <= c_sent /\ c_sent <= Len(rsp.wire)
  /\ c_peer \in {"open", "closed"} /\ c_pc \in ConnectionPlaces
  /\ buf \in Seq(Later) /\ Len(buf) < c_buff_size /\ got \in Bodies
  /\ c_misses \in 0 .. MaxTimeouts /\ reads \in Int /\ result \in Outcomes
  /\ (result = "none") = (c_pc # "done")

\* In the head nothing else has been read, and a length may have been lost.
Heading ==
  c_pc = "head" =>
    /\ c_pos \in {0, 1} /\ buf = <<>> /\ got.body = <<>> /\ c_misses = 0
    /\ reads = IF rsp.kind = "length" /\ rsp.body # <<>> /\ c_pos = 1 THEN -1 ELSE 0

\* A body of declared length: every timeout makes the loop want one more.
Fixed ==
  /\ reads = 0 /\ c_pos >= 2 /\ DOMAIN got.body = 1 .. Len(rsp.body)
  /\ got.left = Len(rsp.wire) - c_pos + c_misses /\ got.at = c_pos - 2 - c_misses
  /\ c_misses = 0 => \A k \in 1 .. got.at : got.body[k] = rsp.body[k]
Declared ==
  rsp.kind = "length" =>
    /\ c_pc \in {"head", "fix", "done"} /\ result # "length_error"
    /\ c_pc = "fix" => Fixed
    /\ result = "ok" => c_misses = 0 /\ (got.body = rsp.body <=> reads = 0)
    /\ result = "underrun" => c_misses > 0

\* As long as the reads have ended where they should, the buffer holds what was
\* read behind the last chunk.
Aligned ==
  /\ reads \in 0 .. ChunkCount(rsp) /\ got.body = Before(rsp, reads)
  /\ c_pos = EndAt(rsp, reads) + Len(buf)
  /\ \A k \in 1 .. Len(buf) : buf[k] = rsp.wire[EndAt(rsp, reads) + k]

\* What a read that ended elsewhere leads to: bytes of a line in the body; a line
\* that does not begin with a digit; one that begins with the second digit of a
\* size; a chunk that runs into its CRLF, or stops in front of one.
Polluted == \E k \in DOMAIN got.body : got.body[k] \notin Connection!Bytes
Stuck ==
  /\ c_pc = "line"
  /\ IF buf # <<>> THEN buf[1] \notin Connection!Bits
     ELSE c_pos < Len(rsp.wire) /\ rsp.wire[c_pos + 1] \notin Connection!Bits
Late ==
  /\ c_pc = "line" /\ buf = <<>>
  /\ \E i \in 1 .. ChunkCount(rsp) :
       /\ Len(ChunkOf(rsp, i)) > 1 /\ c_pos = EndAt(rsp, i - 1) + 1
       /\ got.body = Before(rsp, i - 1)
Cut ==
  /\ c_pc = "raw" /\ buf = <<>> /\ got.left > 0 /\ c_pos + got.left <= Len(rsp.wire)
  /\ \/ rsp.wire[c_pos + got.left] \notin Connection!Bytes
     \/ c_pos + got.left < Len(rsp.wire) /\ rsp.wire[c_pos + got.left + 1] \notin Connection!Bits
Wrong == c_pc = "done" /\ (result # "ok" \/ got.body # rsp.body)
Doomed == Polluted \/ Stuck \/ Late \/ Cut \/ Wrong

\* A body in chunks.
Chunked ==
  rsp.kind = "chunked" =>
    /\ c_pc # "fix" /\ (c_pc \in {"line", "raw"} => c_pos >= 2) /\ (c_pc = "raw" => buf = <<>>)
    /\ result # "underrun" /\ reads \in -1 .. ChunkCount(rsp) + 1
    /\ reads = -1 => Doomed
    /\ reads >= 0 =>
         /\ c_pc # "raw" /\ result # "length_error"
         /\ c_pc = "line" => Aligned
         /\ c_pc = "done" => IF reads = ChunkCount(rsp) + 1 THEN result = "ok"
              /\ got.body = rsp.body
                           ELSE result = "null"

\* The inductive invariant.
ConnectionInv == ConnectionTypes /\ Heading /\ Declared /\ Chunked

\* What is known of the response.
LEMMA OnWireFacts ==
  ASSUME Connection!ConnectionAssumption, ConnectionTypes
  PROVE  /\ Headed(rsp) /\ rsp.kind \in {"length", "chunked"} /\ Growing(rsp)
         /\ rsp.kind = "length" => Plainly(rsp)
         /\ rsp.kind = "chunked" => Segmented(rsp)
<1>1. PICK w : w = rsp
  OBVIOUS
<1>2. w \in {Connection!OnWire(r) : r \in Responses}
  BY <1>1 DEF ConnectionTypes
<1>3. PICK r \in Responses : w = Connection!OnWire(r)
  BY <1>2
<1>4. Headed(w)
  BY <1>3, HeadFacts
<1>5. w.kind = r.kind /\ r.kind \in {"length", "chunked"}
  BY <1>3 DEF Connection!OnWire, Connection!ConnectionAssumption
<1>6. Growing(w)
  BY <1>2, GrowFacts
<1>7. w.kind = "length" => Plainly(w)
  BY <1>3, <1>5, LengthFacts
<1>8. w.kind = "chunked" => Segmented(w)
  BY <1>2, SegmentFacts
<1> QED
  BY <1>1, <1>4, <1>5, <1>6, <1>7, <1>8

\* The fields of a body that is being received.
LEMMA BodyTypes ==
  ASSUME NEW g \in Bodies
  PROVE  g.body \in Seq(Alphabet) /\ g.at \in Int /\ g.left \in Nat
BY DEF Bodies

\* The invariant asks only for what the receiver has.
LEMMA Idles ==
  ASSUME Heading, Declared, Chunked, UNCHANGED <<rsp, c_pos, c_pc, buf, got, result, c_misses,
         reads>>
  PROVE  Heading' /\ Declared' /\ Chunked'
<1>1. Heading'
  BY DEF Heading
<1>2. Declared'
  BY DEF Declared, Fixed
<1>3. Polluted' = Polluted /\ Stuck' = Stuck /\ Late' = Late /\ Cut' = Cut /\ Wrong' = Wrong
  BY DEF Polluted, Stuck, Late, Cut, Wrong
<1>4. Aligned' = Aligned
  BY DEF Aligned
<1>5. Chunked'
  BY <1>3, <1>4 DEF Chunked, Doomed
<1> QED
  BY <1>1, <1>2, <1>5

\* The server closes, or is reset.
LEMMA NextPeerCloses ==
  ASSUME Connection!ConnectionAssumption, ConnectionInv, Connection!PeerCloses
  PROVE  ConnectionInv'
<1>1. UNCHANGED <<rsp, c_pos, c_pc, buf, got, result, c_misses, reads>>
  BY DEF Connection!PeerCloses
<1>2. c_sent' \in c_pos .. Len(rsp.wire) /\ c_peer' = "closed"
  BY DEF Connection!PeerCloses
<1>3. Len(rsp.wire) \in Nat
  BY OnWireFacts DEF ConnectionInv, Headed
<1>4. c_pos \in Nat
  BY DEF ConnectionInv, ConnectionTypes
<1>5. c_sent' \in Nat /\ c_pos <= c_sent' /\ c_sent' <= Len(rsp.wire)
  BY <1>2, <1>3, <1>4
<1>6. ConnectionTypes'
  BY <1>1, <1>2, <1>5 DEF ConnectionInv, ConnectionTypes
<1> QED
  BY <1>1, <1>6, Idles DEF ConnectionInv

\* A read fails.
LEMMA ConnectionFail ==
  ASSUME Connection!ConnectionAssumption, ConnectionInv, Connection!Fail
  PROVE  ConnectionInv'
<1>1. /\ c_pc \in {"head", "line", "raw", "fix"} /\ c_pc' = "done" /\ result' = "null"
      /\ UNCHANGED <<rsp, c_pos, c_sent, c_peer, buf, got, c_misses, reads>>
  BY DEF Connection!Fail, Connection!Return
<1>2. ConnectionTypes'
  BY <1>1 DEF ConnectionInv, ConnectionTypes, ConnectionPlaces, Outcomes
<1>3. Heading' /\ Declared'
  BY <1>1 DEF Heading, Declared
<1>4. Chunked'
  <2> SUFFICES ASSUME rsp.kind = "chunked" PROVE Chunked'
    BY <1>1 DEF Chunked
  <2>1. Wrong'
    BY <1>1 DEF Wrong
  <2>2. ChunkCount(rsp) \in Nat
    BY OnWireFacts DEF ConnectionInv, Growing
  <2>3. reads >= 0 => reads # ChunkCount(rsp) + 1
    <3>1. c_pc = "head" => reads = 0
      BY DEF ConnectionInv, Heading
    <3>2. c_pc = "line" /\ reads >= 0 => reads \in 0 .. ChunkCount(rsp)
      BY DEF ConnectionInv, Chunked, Aligned
    <3>3. c_pc # "fix" /\ (reads >= 0 => c_pc # "raw")
      BY DEF ConnectionInv, Chunked
    <3> QED
      BY <1>1, <2>2, <3>1, <3>2, <3>3
  <2>4. reads' \in -1 .. ChunkCount(rsp') + 1
    BY <1>1 DEF ConnectionInv, Chunked
  <2> QED
    BY <1>1, <2>1, <2>3, <2>4 DEF Chunked, Doomed
<1> QED
  BY <1>2, <1>3, <1>4 DEF ConnectionInv

\* What a read hands out.
LEMMA ReadFacts ==
  ASSUME Connection!ConnectionAssumption, ConnectionTypes, NEW n, NEW room,
         Connection!Reads(n, room)
  PROVE  /\ n \in Nat \ {0} /\ n \in 1 .. room /\ c_pos' = c_pos + n /\ c_pos' \in Nat
         /\ c_pos < c_pos'
         /\ c_pos' <= c_sent /\ c_pos' <= Len(rsp.wire) /\ UNCHANGED <<rsp, c_sent, c_peer>>
         /\ Connection!Take(n) \in Seq(Alphabet) /\ Len(Connection!Take(n)) = n
         /\ \A k \in 1 .. n : Connection!Take(n)[k] = rsp.wire[c_pos + k]
              /\ c_pos + k \in 1 .. Len(rsp.wire)
<1>1. n \in 1 .. room /\ c_pos + n <= c_sent /\ c_pos' = c_pos + n
           /\ UNCHANGED <<rsp, c_sent, c_peer>>
  BY DEF Connection!Reads
<1>2. n \in Nat \ {0} /\ c_pos \in Nat /\ c_sent \in Nat /\ c_sent <= Len(rsp.wire)
  BY <1>1 DEF ConnectionTypes
<1>3. PICK w : w = rsp.wire
  OBVIOUS
<1>4. w \in Seq(Alphabet) /\ Len(w) \in Nat
  BY <1>3, OnWireFacts DEF Headed
<1>5. c_pos' \in Nat /\ c_pos < c_pos' /\ c_pos' <= c_sent /\ c_pos + n <= Len(w)
  BY <1>1, <1>2, <1>3, <1>4
<1>6. /\ SubSeq(w, c_pos + 1, c_pos + n) \in Seq(Alphabet)
      /\ Len(SubSeq(w, c_pos + 1, c_pos + n)) = n
      /\ \A k \in 1 .. n : SubSeq(w, c_pos + 1, c_pos + n)[k] = w[c_pos + k]
           /\ c_pos + k \in 1 .. Len(w)
  <2>1. w \in Seq(Alphabet) /\ c_pos \in Nat /\ n \in Nat /\ c_pos + n <= Len(w)
    BY <1>2, <1>4, <1>5
  <2> QED
    BY <2>1, Part
<1>7. Connection!Take(n) = SubSeq(w, c_pos + 1, c_pos + n)
  BY <1>3 DEF Connection!Take
<1> QED
  BY <1>1, <1>2, <1>3, <1>5, <1>6, <1>7

-----------------------------------------------------------------------------
(* The head.                                                               *)

\* Whether a read of the head gets to its end, and what it takes behind it.
Behead(n) ==
  /\ "end" \in Connection!ToSet(Connection!Take(n)) <=> c_pos + n >= 2
  /\ c_pos + n < 2 => c_pos = 0 /\ n = 1
  /\ c_pos + n >= 2 =>
       /\ SubSeq(Connection!Take(n), 3 - c_pos, n) \in Seq(Later)
       /\ Len(SubSeq(Connection!Take(n), 3 - c_pos, n)) = c_pos + n - 2
       /\ \A k \in 1 .. c_pos + n - 2 : SubSeq(Connection!Take(n), 3 - c_pos, n)[k] = rsp.wire[2 + k]

\* A read of the head from its beginning takes the head, or its first part.
LEMMA BeheadFacts ==
  ASSUME Connection!ConnectionAssumption, ConnectionTypes, Heading, c_pc = "head", NEW n,
         NEW room, Connection!Reads(n, room)
  PROVE  Behead(n)
<1>1. /\ n \in Nat \ {0} /\ c_pos + n <= Len(rsp.wire)
      /\ Connection!Take(n) \in Seq(Alphabet) /\ Len(Connection!Take(n)) = n
      /\ \A k \in 1 .. n : Connection!Take(n)[k] = rsp.wire[c_pos + k]
           /\ c_pos + k \in 1 .. Len(rsp.wire)
  BY ReadFacts
<1>2. c_pos \in {0, 1}
  BY DEF Heading
<1>3. PICK w : w = rsp.wire
  OBVIOUS
<1>4. /\ w \in Seq(Alphabet) /\ Len(w) \in Nat /\ w[1] = "head" /\ w[2] = "end"
      /\ \A k \in 3 .. Len(w) : w[k] \in Later
  BY <1>3, OnWireFacts DEF Headed
<1>5. PICK t : t = Connection!Take(n)
  OBVIOUS
<1>6. t \in Seq(Alphabet) /\ Len(t) = n /\ DOMAIN t = 1 .. n
           /\ \A k \in 1 .. n : t[k] = w[c_pos + k]
  BY <1>1, <1>3, <1>5
<1>7. c_pos + n < 2 => c_pos = 0 /\ n = 1
  BY <1>1, <1>2
<1>8. "end" \in Connection!ToSet(t) <=> c_pos + n >= 2
  <2>1. Connection!ToSet(t) = {t[k] : k \in 1 .. n}
    BY <1>6 DEF Connection!ToSet
  <2>2. CASE c_pos + n >= 2
    <3>1. 2 - c_pos \in 1 .. n /\ c_pos + (2 - c_pos) = 2
      BY <1>1, <1>2, <2>2
    <3>2. t[2 - c_pos] = "end"
      BY <1>4, <1>6, <3>1
    <3> QED
      BY <2>1, <2>2, <3>1, <3>2
  <2>3. CASE ~ (c_pos + n >= 2)
    <3>1. c_pos = 0 /\ n = 1
      BY <1>1, <1>2, <2>3
    <3>2. \A k \in 1 .. n : t[k] = "head"
      <4>1. \A k \in 1 .. 1 : 0 + k = 1
        OBVIOUS
      <4> QED
        BY <1>4, <1>6, <3>1, <4>1
    <3>3. "end" \notin Connection!ToSet(t)
      BY <2>1, <3>2
    <3> QED
      BY <2>3, <3>3
  <2> QED
    BY <2>2, <2>3
<1>9. ASSUME c_pos + n >= 2
      PROVE  /\ SubSeq(t, 3 - c_pos, n) \in Seq(Later)
             /\ Len(SubSeq(t, 3 - c_pos, n)) = c_pos + n - 2
             /\ \A k \in 1 .. c_pos + n - 2 : SubSeq(t, 3 - c_pos, n)[k] = w[2 + k]
  <2>1. PICK p : p = 2 - c_pos
    OBVIOUS
  <2>2. PICK m : m = c_pos + n - 2
    OBVIOUS
  <2>3. /\ p \in Nat /\ m \in Nat /\ p + m = n /\ p + 1 = 3 - c_pos
        /\ \A k \in 1 .. m : p + k \in 1 .. n /\ c_pos + (p + k) = 2 + k
    BY <1>1, <1>2, <1>9, <2>1, <2>2
  <2>4. PICK s : s = SubSeq(t, p + 1, p + m)
    OBVIOUS
  <2>5. s \in Seq(Alphabet) /\ Len(s) = m /\ \A k \in 1 .. m : s[k] = t[p + k]
    <3>1. t \in Seq(Alphabet) /\ p \in Nat /\ m \in Nat /\ p + m <= Len(t)
      BY <1>1, <1>6, <2>3
    <3> QED
      BY <2>4, <3>1, Part
  <2>6. \A k \in 1 .. m : s[k] = w[2 + k]
    BY <1>6, <2>3, <2>5
  <2>7. \A k \in 1 .. m : 2 + k \in 3 .. Len(w)
    BY <1>1, <1>2, <1>3, <1>4, <2>2
  <2>8. s \in Seq(Later)
    <3>1. \A k \in 1 .. m : s[k] \in Later
      BY <1>4, <2>6, <2>7
    <3> QED
      BY <2>3, <2>5, <3>1
  <2>9. SubSeq(t, 3 - c_pos, n) = s
    BY <2>3, <2>4
  <2> QED
    BY <2>2, <2>5, <2>6, <2>8, <2>9
<1> QED
  BY <1>3, <1>5, <1>7, <1>8, <1>9 DEF Behead

\* A body that begins behind its head.
Starts(b, length, rest) ==
  /\ b \in Bodies /\ b.at \in Nat
  /\ DOMAIN b.body = 1 .. length /\ Len(b.body) = length /\ b.at + b.left = length
  /\ \A k \in 1 .. b.at : b.body[k] = rest[k]
  /\ b.left > 0 => b.at = Len(rest)
  /\ b.left = 0 => length <= Len(rest) /\ b.at = length

\* body.resize(length), with what came behind the head at its front.
LEMMA StartFacts ==
  ASSUME NEW length \in Nat, NEW rest \in Seq(Later)
  PROVE  Starts(Connection!Resized(length, rest), length, rest)
<1>0. PICK b : b = Connection!Resized(length, rest)
  OBVIOUS
<1> DEFINE len == IF length >= Len(rest) THEN Len(rest) ELSE length
<1>1. /\ b.body = [i \in 1 .. length |-> IF i <= len THEN rest[i] ELSE Connection!NUL]
      /\ b.at = len /\ b.left = length - len
      /\ b = [body |-> b.body, at |-> b.at, left |-> b.left]
  BY <1>0 DEF Connection!Resized
<1>2. Len(rest) \in Nat /\ \A k \in 1 .. Len(rest) : rest[k] \in Later
  OBVIOUS
<1>3. len \in Nat /\ len <= length /\ len <= Len(rest)
  BY <1>2
<1>4. length - len > 0 => len = Len(rest)
  BY <1>2
<1> HIDE DEF len
<1>5. \A i \in 1 .. length : (IF i <= len THEN rest[i] ELSE Connection!NUL) \in Alphabet
  BY <1>2, <1>3 DEF Alphabet
<1>6. DOMAIN b.body = 1 .. length /\ b.body \in [1 .. length -> Alphabet]
  BY <1>1, <1>5
<1>7. b.body \in Seq(Alphabet) /\ Len(b.body) = length
  BY <1>6
<1>8. \A k \in 1 .. len : b.body[k] = rest[k]
  BY <1>1, <1>3
<1>9. length - len \in Nat /\ len + (length - len) = length /\ (length - len = 0 => len = length)
  BY <1>3
<1>10. b \in Bodies
  <2>1. b.body \in Seq(Alphabet) /\ b.at \in Int /\ b.left \in Nat
    BY <1>1, <1>3, <1>7, <1>9
  <2>2. [body |-> b.body, at |-> b.at, left |-> b.left] \in Bodies
    BY <2>1 DEF Bodies
  <2> QED
    BY <1>1, <2>2
<1>11. Starts(b, length, rest)
  BY <1>1, <1>3, <1>4, <1>6, <1>7, <1>8, <1>9, <1>10 DEF Starts
<1> QED
  BY <1>0, <1>11

\* What stays when a read has been taken.
LEMMA ReadTypes ==
  ASSUME Connection!ConnectionAssumption, ConnectionTypes, NEW n, NEW room,
         Connection!Reads(n, room),
         c_pc' \in ConnectionPlaces, buf' \in Seq(Later), Len(buf') < c_buff_size, got' \in Bodies,
         c_misses' \in 0 .. MaxTimeouts, reads' \in Int, result' \in Outcomes,
         (result' = "none") = (c_pc' # "done")
  PROVE  ConnectionTypes'
<1>1. /\ c_pos' \in Nat /\ c_pos' <= c_sent /\ UNCHANGED <<rsp, c_sent, c_peer>>
  BY ReadFacts
<1> QED
  BY <1>1 DEF ConnectionTypes

\* A head that has not ended yet.
LEMMA HeadOpen ==
  ASSUME Connection!ConnectionAssumption, ConnectionInv, NEW n, Connection!ReadHead(n),
         "end" \notin Connection!ToSet(Connection!Take(n))
  PROVE  ConnectionInv'
<1>1. /\ c_pc = "head" /\ Connection!Reads(n, c_buff_size)
      /\ UNCHANGED <<c_pc, buf, got, result, c_misses>>
      /\ reads' = IF rsp.kind = "length" /\ rsp.body # <<>> THEN -1 ELSE reads
  BY DEF Connection!ReadHead
<1>2. Behead(n)
  BY <1>1, BeheadFacts DEF ConnectionInv
<1>3. /\ n \in Nat \ {0} /\ c_pos' = c_pos + n /\ UNCHANGED <<rsp, c_sent, c_peer>>
  BY <1>1, ReadFacts DEF ConnectionInv
<1>4. c_pos \in Nat
  BY DEF ConnectionInv, ConnectionTypes
<1>5. c_pos = 0 /\ n = 1 /\ c_pos' = 1
  BY <1>2, <1>3, <1>4 DEF Behead
<1>6. /\ buf = <<>> /\ got.body = <<>> /\ c_misses = 0 /\ reads = 0
  BY <1>1, <1>5 DEF ConnectionInv, Heading
<1>7. ConnectionTypes'
  <2>1. ConnectionTypes
    BY DEF ConnectionInv
  <2>2. /\ c_pc' \in ConnectionPlaces /\ buf' \in Seq(Later) /\ Len(buf') < c_buff_size
        /\ got' \in Bodies
        /\ c_misses' \in 0 .. MaxTimeouts /\ reads' \in Int /\ result' \in Outcomes
        /\ (result' = "none") = (c_pc' # "done")
    BY <1>1, <1>6, <2>1 DEF ConnectionTypes
  <2> QED
    BY <1>1, <2>1, <2>2, ReadTypes
<1>8. result' = "none"
  BY <1>1 DEF ConnectionInv, ConnectionTypes
<1>9. Heading'
  BY <1>1, <1>3, <1>5, <1>6 DEF Heading
<1>10. Declared'
  BY <1>1, <1>8 DEF Declared
<1>11. Chunked'
  <2> SUFFICES ASSUME rsp'.kind = "chunked" PROVE Chunked'
    BY DEF Chunked
  <2>1. reads' = 0
    BY <1>1, <1>3, <1>6
  <2>2. ChunkCount(rsp') \in Nat
    BY <1>3, OnWireFacts DEF ConnectionInv, Growing
  <2> QED
    BY <1>1, <1>8, <2>1, <2>2 DEF Chunked
<1> QED
  BY <1>7, <1>9, <1>10, <1>11 DEF ConnectionInv

\* A head in front of chunks.
LEMMA HeadChunked ==
  ASSUME Connection!ConnectionAssumption, ConnectionInv, NEW n, Connection!ReadHead(n),
         "end" \in Connection!ToSet(Connection!Take(n)),
         rsp.kind = "chunked"
  PROVE  ConnectionInv'
<1>1. /\ c_pc = "head" /\ Connection!Reads(n, c_buff_size) /\ c_pc' = "line"
      /\ buf' = SubSeq(Connection!Take(n), 3 - c_pos, n)
      /\ UNCHANGED <<got, result, c_misses, reads>>
  BY DEF Connection!ReadHead
<1>2. Behead(n)
  BY <1>1, BeheadFacts DEF ConnectionInv
<1>3. /\ n \in Nat \ {0} /\ n \in 1 .. c_buff_size /\ c_pos' = c_pos + n
      /\ UNCHANGED <<rsp, c_sent, c_peer>>
  BY <1>1, ReadFacts DEF ConnectionInv
<1>4. c_pos \in {0, 1} /\ got.body = <<>> /\ reads = 0
  BY <1>1 DEF ConnectionInv, Heading
<1>5. /\ c_pos + n >= 2 /\ buf' \in Seq(Later) /\ Len(buf') = c_pos + n - 2
      /\ \A k \in 1 .. Len(buf') : buf'[k] = rsp.wire[2 + k]
  <2>1. c_pos + n >= 2
    BY <1>2 DEF Behead
  <2> QED
    BY <1>1, <1>2, <2>1 DEF Behead
<1>6. c_buff_size \in Nat
  BY DEF Connection!ConnectionAssumption
<1>7. ConnectionTypes'
  <2>1. ConnectionTypes
    BY DEF ConnectionInv
  <2>2. Len(buf') < c_buff_size
    BY <1>3, <1>4, <1>5, <1>6
  <2>3. result = "none"
    BY <1>1, <2>1 DEF ConnectionTypes
  <2>4. /\ c_pc' \in ConnectionPlaces /\ got' \in Bodies
        /\ c_misses' \in 0 .. MaxTimeouts /\ reads' \in Int /\ result' \in Outcomes
        /\ (result' = "none") = (c_pc' # "done")
    BY <1>1, <2>1, <2>3 DEF ConnectionTypes, ConnectionPlaces
  <2> QED
    BY <1>1, <1>5, <2>1, <2>2, <2>4, ReadTypes
<1>8. result' = "none"
  BY <1>1 DEF ConnectionInv, ConnectionTypes
<1>9. ChunkCount(rsp) \in Nat /\ Before(rsp, 0) = <<>> /\ EndAt(rsp, 0) = 2
  BY OnWireFacts DEF ConnectionInv, Growing, EndAt
<1>10. Aligned'
  <2>1. c_pos' = 2 + Len(buf')
    BY <1>3, <1>4, <1>5
  <2>2. reads' = 0 /\ got'.body = <<>> /\ rsp' = rsp
    BY <1>1, <1>3, <1>4
  <2> QED
    BY <1>5, <1>9, <2>1, <2>2 DEF Aligned
<1>11. Chunked'
  <2>1. c_pos' >= 2
    BY <1>3, <1>5
  <2>2. reads' = 0
    BY <1>1, <1>4
  <2> QED
    BY <1>1, <1>3, <1>8, <1>9, <1>10, <2>1, <2>2 DEF Chunked
<1>12. Heading' /\ Declared'
  BY <1>1, <1>3 DEF Heading, Declared
<1> QED
  BY <1>7, <1>11, <1>12 DEF ConnectionInv

\* A head in front of a body of declared length.
LEMMA HeadLength ==
  ASSUME Connection!ConnectionAssumption, ConnectionInv, NEW n, Connection!ReadHead(n),
         "end" \in Connection!ToSet(Connection!Take(n)),
         rsp.kind = "length"
  PROVE  ConnectionInv'
<1>1. PICK rest : rest = SubSeq(Connection!Take(n), 3 - c_pos, n)
  OBVIOUS
<1>2. PICK b : b = Connection!Resized(Connection!Length, rest)
  OBVIOUS
<1>3. /\ c_pc = "head" /\ Connection!Reads(n, c_buff_size) /\ got' = b
      /\ UNCHANGED <<buf, c_misses, reads>>
      /\ IF b.left > 0 THEN c_pc' = "fix" /\ UNCHANGED result ELSE Connection!Return("ok")
  BY <1>1, <1>2 DEF Connection!ReadHead
<1>4. Behead(n)
  BY <1>3, BeheadFacts DEF ConnectionInv
<1>5. /\ n \in Nat \ {0} /\ c_pos' = c_pos + n /\ UNCHANGED <<rsp, c_sent, c_peer>>
      /\ c_pos' <= Len(rsp.wire)
  BY <1>3, ReadFacts DEF ConnectionInv
<1>6. /\ c_pos \in {0, 1} /\ c_misses = 0 /\ buf = <<>>
      /\ reads = IF rsp.body # <<>> /\ c_pos = 1 THEN -1 ELSE 0
  BY <1>3 DEF ConnectionInv, Heading
<1>7. /\ c_pos + n >= 2 /\ rest \in Seq(Later) /\ Len(rest) = c_pos + n - 2
      /\ \A k \in 1 .. Len(rest) : rest[k] = rsp.wire[2 + k]
  <2>1. c_pos + n >= 2
    BY <1>4 DEF Behead
  <2> QED
    BY <1>1, <1>4, <2>1 DEF Behead
<1>8. PICK l : l = Len(rsp.body)
  OBVIOUS
<1>9. /\ l \in Nat /\ rsp.body \in Seq(Connection!Bytes) /\ Len(rsp.wire) = 2 + l
      /\ \A k \in 1 .. l : rsp.wire[2 + k] = rsp.body[k]
  <2>1. Growing(rsp) /\ Plainly(rsp)
    BY OnWireFacts DEF ConnectionInv
  <2>2. rsp.body \in Seq(Connection!Bytes)
    BY <2>1 DEF Growing
  <2>3. l \in Nat
    BY <1>8, <2>2
  <2> QED
    BY <1>8, <2>1, <2>2, <2>3 DEF Plainly
<1>10. Connection!Length = IF c_pos = 0 THEN l ELSE 0
  BY <1>8 DEF Connection!Length
<1>11. Starts(b, Connection!Length, rest)
  <2>1. Connection!Length \in Nat
    BY <1>9, <1>10
  <2> QED
    BY <1>2, <1>7, <2>1, StartFacts
<1>12. /\ b \in Bodies /\ b.at \in Nat /\ b.left \in Nat
       /\ DOMAIN b.body = 1 .. Connection!Length /\ Len(b.body) = Connection!Length
       /\ b.at + b.left = Connection!Length
       /\ \A k \in 1 .. b.at : b.body[k] = rest[k]
       /\ b.left > 0 => b.at = Len(rest)
       /\ b.left = 0 => Connection!Length <= Len(rest) /\ b.at = Connection!Length
       /\ b.body \in Seq(Alphabet)
  <2>1. b \in Bodies
    BY <1>11 DEF Starts
  <2>2. b.left \in Nat /\ b.body \in Seq(Alphabet)
    BY <2>1, BodyTypes
  <2> QED
    BY <1>11, <2>1, <2>2 DEF Starts
<1>13. result = "none"
  BY <1>3 DEF ConnectionInv, ConnectionTypes
<1>14. ConnectionTypes'
  <2>1. ConnectionTypes
    BY DEF ConnectionInv
  <2>2. /\ buf' \in Seq(Later) /\ Len(buf') < c_buff_size /\ got' \in Bodies
        /\ c_misses' \in 0 .. MaxTimeouts /\ reads' \in Int
    BY <1>3, <1>12, <2>1 DEF ConnectionTypes
  <2>3. /\ c_pc' \in ConnectionPlaces /\ result' \in Outcomes
        /\ (result' = "none") = (c_pc' # "done")
    BY <1>3, <1>13 DEF ConnectionPlaces, Outcomes, Connection!Return
  <2> QED
    BY <1>3, <2>1, <2>2, <2>3, ReadTypes
<1>15. \A k \in 1 .. b.at : b.body[k] = rsp.body[k]
  <2> TAKE k \in 1 .. b.at
  <2>1. b.at <= Len(rest) /\ b.at <= l
    BY <1>7, <1>9, <1>10, <1>12
  <2>2. k \in 1 .. Len(rest) /\ k \in 1 .. l
    BY <1>9, <1>12, <2>1, <1>7, <1>5, <1>6
  <2> QED
    BY <1>7, <1>9, <1>12, <2>2
<1>16. CASE b.left > 0
  <2>1. c_pc' = "fix" /\ result' = "none"
    BY <1>3, <1>13, <1>16
  <2>2. c_pos = 0 /\ Connection!Length = l
    BY <1>6, <1>10, <1>12, <1>16
  <2>3. reads = 0
    BY <1>6, <2>2
  <2>4. b.at = c_pos' - 2 /\ b.left = Len(rsp.wire) - c_pos' /\ c_pos' >= 2
    BY <1>5, <1>7, <1>9, <1>12, <1>16, <2>2
  <2>5. Fixed'
    <3>1. /\ reads' = 0 /\ c_pos' >= 2 /\ DOMAIN got'.body = 1 .. Len(rsp'.body)
          /\ got'.left = Len(rsp'.wire) - c_pos' + c_misses' /\ got'.at = c_pos' - 2 - c_misses'
      <4>1. \A x, y \in Int : x - y + 0 = x - y /\ x - 2 - 0 = x - 2
        OBVIOUS
      <4>2. Len(rsp.wire) \in Int /\ c_pos' \in Int
        BY <1>5, <1>6, <1>9
      <4> QED
        BY <1>3, <1>5, <1>6, <1>8, <1>12, <2>2, <2>3, <2>4, <4>1, <4>2
    <3> QED
      BY <1>3, <1>5, <1>15, <3>1 DEF Fixed
  <2>6. Declared'
    BY <2>1, <2>5 DEF Declared
  <2>7. Heading' /\ Chunked'
    BY <1>5, <2>1 DEF Heading, Chunked
  <2> QED
    BY <1>14, <2>6, <2>7 DEF ConnectionInv
<1>17. CASE b.left = 0
  <2>1. c_pc' = "done" /\ result' = "ok" /\ got' = b
    BY <1>3, <1>17 DEF Connection!Return
  <2>2. b.body = rsp.body <=> reads = 0
    <3>1. CASE c_pos = 0
      <4>1. Connection!Length = l /\ b.at = l /\ reads = 0
        BY <1>6, <1>10, <1>12, <1>17, <3>1
      <4>2. b.body = rsp.body
        <5>1. PICK u, v : u = b.body /\ v = rsp.body
          OBVIOUS
        <5>2. /\ u \in Seq(Alphabet) /\ v \in Seq(Alphabet) /\ Len(u) = Len(v)
              /\ \A k \in 1 .. Len(u) : u[k] = v[k]
          <6>1. Connection!Bytes \subseteq Alphabet
            BY DEF Alphabet, Later
          <6>2. v \in Seq(Alphabet)
            BY <1>9, <5>1, <6>1
          <6> QED
            BY <1>8, <1>12, <1>15, <4>1, <5>1, <6>2
        <5> QED
          BY <5>1, <5>2, SameSequence
      <4> QED
        BY <4>1, <4>2
    <3>2. CASE c_pos = 1
      <4>1. b.body = <<>>
        <5>1. Len(b.body) = 0
          BY <1>10, <1>12, <3>2
        <5> QED
          BY <1>12, <5>1
      <4> QED
        BY <1>6, <3>2, <4>1
    <3> QED
      BY <1>6, <3>1, <3>2
  <2>3. Declared'
    BY <1>3, <1>5, <1>6, <2>1, <2>2 DEF Declared
  <2>4. Heading' /\ Chunked'
    BY <1>5, <2>1 DEF Heading, Chunked
  <2> QED
    BY <1>14, <2>3, <2>4 DEF ConnectionInv
<1> QED
  BY <1>12, <1>16, <1>17

\* The head is read, and what came behind it is kept.
LEMMA ConnectionReadHead ==
  ASSUME Connection!ConnectionAssumption, ConnectionInv, NEW n, Connection!ReadHead(n)
  PROVE  ConnectionInv'
<1>1. rsp.kind \in {"length", "chunked"}
  BY OnWireFacts DEF ConnectionInv
<1> QED
  BY <1>1, HeadOpen, HeadChunked, HeadLength

-----------------------------------------------------------------------------
(* A body of declared length.                                              *)

\* A body with the next bytes put in.
Extends(f, g, take) ==
  /\ g \in Bodies /\ DOMAIN g.body = DOMAIN f.body /\ Len(g.body) = Len(f.body)
  /\ g.at = f.at + Len(take) /\ g.left = f.left - Len(take)
  /\ \A k \in DOMAIN f.body :
       g.body[k] = IF k \in f.at + 1 .. f.at + Len(take) THEN take[k - f.at] ELSE f.body[k]

\* readFixSize writes what it read behind what it has.
LEMMA ExtendFacts ==
  ASSUME NEW f \in Bodies, NEW take \in Seq(Alphabet), Len(take) <= f.left
  PROVE  Extends(f, Connection!Filled(f, take), take)
<1>0. PICK g : g = Connection!Filled(f, take)
  OBVIOUS
<1>1. /\ g.body = [k \in DOMAIN f.body |->
                     IF k \in f.at + 1 .. f.at + Len(take) THEN take[k - f.at] ELSE f.body[k]]
      /\ g.at = f.at + Len(take) /\ g.left = f.left - Len(take)
      /\ g = [body |-> g.body, at |-> g.at, left |-> g.left]
  BY <1>0 DEF Connection!Filled
<1>2. f.body \in Seq(Alphabet) /\ f.at \in Int /\ f.left \in Nat /\ Len(take) \in Nat
  BY BodyTypes
<1>3. PICK q \in Seq(Alphabet) : q = f.body
  BY <1>2
<1>4. DOMAIN q = 1 .. Len(q) /\ Len(q) \in Nat /\ \A k \in 1 .. Len(q) : q[k] \in Alphabet
  OBVIOUS
<1>5. ASSUME NEW k \in 1 .. Len(q)
      PROVE  (IF k \in f.at + 1 .. f.at + Len(take) THEN take[k - f.at] ELSE q[k]) \in Alphabet
  <2>1. CASE k \in f.at + 1 .. f.at + Len(take)
    <3>1. k - f.at \in 1 .. Len(take)
      BY <1>2, <2>1
    <3>2. take[k - f.at] \in Alphabet
      BY <3>1
    <3> QED
      BY <2>1, <3>2
  <2>2. CASE k \notin f.at + 1 .. f.at + Len(take)
    BY <1>4, <2>2
  <2> QED
    BY <2>1, <2>2
<1>6. g.body \in [1 .. Len(q) -> Alphabet]
  <2> DEFINE Next1(k) == IF k \in f.at + 1 .. f.at + Len(take) THEN take[k - f.at] ELSE q[k]
  <2>1. g.body = [k \in 1 .. Len(q) |-> Next1(k)]
    BY <1>1, <1>3, <1>4
  <2>2. \A k \in 1 .. Len(q) : Next1(k) \in Alphabet
    BY <1>5
  <2> HIDE DEF Next1
  <2> QED
    BY <2>1, <2>2
<1>7. g.body \in Seq(Alphabet) /\ DOMAIN g.body = 1 .. Len(q) /\ Len(g.body) = Len(q)
  BY <1>4, <1>6
<1>8. \A k \in DOMAIN f.body :
       g.body[k] = IF k \in f.at + 1 .. f.at + Len(take) THEN take[k - f.at] ELSE f.body[k]
  BY <1>1, Zenon
<1>9. g \in Bodies
  <2>1. g.body \in Seq(Alphabet) /\ g.at \in Int /\ g.left \in Nat
    BY <1>1, <1>2, <1>7
  <2>2. [body |-> g.body, at |-> g.at, left |-> g.left] \in Bodies
    BY <2>1 DEF Bodies
  <2> QED
    BY <1>1, <2>2
<1>10. Extends(f, g, take)
  BY <1>1, <1>3, <1>4, <1>7, <1>8, <1>9 DEF Extends
<1> QED
  BY <1>0, <1>10

\* Where the rest of a body of declared length is read.
LEMMA FixState ==
  ASSUME Connection!ConnectionAssumption, ConnectionInv, c_pc = "fix"
  PROVE  /\ rsp.kind = "length" /\ Fixed /\ result = "none" /\ ConnectionTypes
         /\ Len(rsp.wire) = 2 + Len(rsp.body) /\ Len(rsp.body) \in Nat
         /\ rsp.body \in Seq(Connection!Bytes)
         /\ \A k \in 1 .. Len(rsp.body) : rsp.wire[2 + k] = rsp.body[k]
<1>1. rsp.kind = "length"
  BY OnWireFacts DEF ConnectionInv, Chunked
<1>2. Fixed /\ result = "none" /\ ConnectionTypes
  BY <1>1 DEF ConnectionInv, Declared, ConnectionTypes
<1>3. Plainly(rsp) /\ rsp.body \in Seq(Connection!Bytes)
  BY <1>1, <1>2, OnWireFacts DEF Growing
<1>4. Len(rsp.body) \in Nat
  BY <1>3
<1> QED
  BY <1>1, <1>2, <1>3, <1>4 DEF Plainly

\* The rest of a body is read, at a place that a timeout may have moved.
LEMMA ConnectionReadFix ==
  ASSUME Connection!ConnectionAssumption, ConnectionInv, NEW n, Connection!ReadFix(n)
  PROVE  ConnectionInv'
<1>1. /\ c_pc = "fix" /\ Connection!Reads(n, got.left) /\ UNCHANGED <<buf, c_misses, reads>>
      /\ IF Connection!Underruns(got) THEN Connection!Return("underrun") /\ UNCHANGED got
         ELSE /\ got' = Connection!Filled(got, Connection!Take(n))
              /\ IF got.left = n THEN Connection!Return("ok") ELSE UNCHANGED <<c_pc, result>>
  BY DEF Connection!ReadFix
<1>2. /\ rsp.kind = "length" /\ Fixed /\ result = "none" /\ ConnectionTypes
      /\ Len(rsp.wire) = 2 + Len(rsp.body) /\ Len(rsp.body) \in Nat
      /\ rsp.body \in Seq(Connection!Bytes)
      /\ \A k \in 1 .. Len(rsp.body) : rsp.wire[2 + k] = rsp.body[k]
  BY <1>1, FixState
<1>3. /\ n \in Nat \ {0} /\ n \in 1 .. got.left /\ c_pos' = c_pos + n
      /\ UNCHANGED <<rsp, c_sent, c_peer>>
      /\ c_pos' <= Len(rsp.wire) /\ Connection!Take(n) \in Seq(Alphabet)
      /\ Len(Connection!Take(n)) = n
      /\ \A k \in 1 .. n : Connection!Take(n)[k] = rsp.wire[c_pos + k]
  BY <1>1, <1>2, ReadFacts
<1>4. PICK l : l = Len(rsp.body)
  OBVIOUS
<1>5. PICK x, y : x = got.at /\ y = got.left
  OBVIOUS
<1>6. /\ l \in Nat /\ c_pos \in Nat /\ c_pos >= 2 /\ c_misses \in Nat /\ reads = 0
      /\ y = 2 + l - c_pos + c_misses /\ x = c_pos - 2 - c_misses
      /\ got \in Bodies /\ DOMAIN got.body = 1 .. l
      /\ c_misses = 0 => \A k \in 1 .. x : got.body[k] = rsp.body[k]
  BY <1>2, <1>4, <1>5 DEF Fixed, ConnectionTypes
<1>7. x \in Int /\ y \in Nat /\ got.body \in Seq(Alphabet)
  BY <1>5, <1>6, BodyTypes
<1>8. CASE Connection!Underruns(got)
  <2>1. c_pc' = "done" /\ result' = "underrun" /\ got' = got
    BY <1>1, <1>8 DEF Connection!Return
  <2>2. c_misses > 0
    BY <1>5, <1>6, <1>8 DEF Connection!Underruns
  <2>3. ConnectionTypes'
    <3>1. /\ c_pc' \in ConnectionPlaces /\ buf' \in Seq(Later) /\ Len(buf') < c_buff_size
          /\ got' \in Bodies
          /\ c_misses' \in 0 .. MaxTimeouts /\ reads' \in Int /\ result' \in Outcomes
          /\ (result' = "none") = (c_pc' # "done")
      BY <1>1, <1>2, <2>1 DEF ConnectionTypes, ConnectionPlaces, Outcomes
    <3> QED
      BY <1>1, <1>2, <3>1, ReadTypes
  <2>4. Heading' /\ Declared' /\ Chunked'
    BY <1>1, <1>2, <1>3, <2>1, <2>2 DEF Heading, Declared, Chunked
  <2> QED
    BY <2>3, <2>4 DEF ConnectionInv
<1>9. CASE ~ Connection!Underruns(got)
  <2>1. PICK t : t = Connection!Take(n)
    OBVIOUS
  <2>2. PICK g : g = Connection!Filled(got, t)
    OBVIOUS
  <2>3. got' = g /\ IF y = n THEN Connection!Return("ok") ELSE UNCHANGED <<c_pc, result>>
    BY <1>1, <1>5, <1>9, <2>1, <2>2
  <2>4. Extends(got, g, t)
    <3>1. Len(t) <= got.left /\ t \in Seq(Alphabet)
      BY <1>3, <1>5, <1>7, <2>1
    <3> QED
      BY <1>6, <2>2, <3>1, ExtendFacts
  <2>5. /\ g \in Bodies /\ DOMAIN g.body = 1 .. l /\ g.at = x + n /\ g.left = y - n
        /\ \A k \in 1 .. l : g.body[k] = IF k \in x + 1 .. x + n THEN t[k - x] ELSE got.body[k]
    BY <1>3, <1>5, <1>6, <2>1, <2>4 DEF Extends
  <2>6. ConnectionTypes'
    <3>1. /\ c_pc' \in ConnectionPlaces /\ buf' \in Seq(Later) /\ Len(buf') < c_buff_size
          /\ got' \in Bodies
          /\ c_misses' \in 0 .. MaxTimeouts /\ reads' \in Int /\ result' \in Outcomes
          /\ (result' = "none") = (c_pc' # "done")
      BY <1>1, <1>2, <2>3, <2>5 DEF ConnectionTypes, ConnectionPlaces, Outcomes, Connection!Return
    <3> QED
      BY <1>1, <1>2, <3>1, ReadTypes
  <2>7. ASSUME c_misses = 0, NEW k \in 1 .. g.at PROVE k \in 1 .. l /\ g.body[k] = rsp.body[k]
    <3>1. k \in 1 .. l
      BY <1>2, <1>3, <1>4, <1>6, <2>5, <2>7
    <3>2. CASE k <= x
      <4>1. k \in 1 .. x /\ k \notin x + 1 .. x + n
        BY <1>7, <3>1, <3>2
      <4> QED
        BY <1>6, <2>5, <2>7, <3>1, <4>1
    <3>3. CASE k > x
      <4>1. /\ k \in x + 1 .. x + n /\ k - x \in 1 .. n /\ c_pos + (k - x) = 2 + k
        BY <1>3, <1>6, <1>7, <2>5, <2>7, <3>1, <3>3
      <4> QED
        BY <1>2, <1>3, <1>4, <2>1, <2>5, <3>1, <4>1
    <3> QED
      BY <1>7, <3>1, <3>2, <3>3
  <2>8. c_pos' >= 2 /\ y - n = 2 + l - c_pos' + c_misses /\ x + n = c_pos' - 2 - c_misses
    <3>1. n \in Nat /\ c_pos' = c_pos + n
      BY <1>3
    <3>2. \A p, m, k, j \in Nat :
            p >= 2 => /\ p + j >= 2 /\ (2 + m - p + k) - j = 2 + m - (p + j) + k
                      /\ (p - 2 - k) + j = (p + j) - 2 - k
      OBVIOUS
    <3>3. /\ c_pos + n >= 2 /\ (2 + l - c_pos + c_misses) - n = 2 + l - (c_pos + n) + c_misses
          /\ (c_pos - 2 - c_misses) + n = (c_pos + n) - 2 - c_misses
      BY <1>6, <3>1, <3>2
    <3> QED
      BY <1>6, <3>1, <3>3
  <2>9. CASE y = n
    <3>1. c_pc' = "done" /\ result' = "ok"
      BY <2>3, <2>9 DEF Connection!Return
    <3>2. c_misses = 0
      BY <1>2, <1>3, <1>4, <1>6, <2>9
    <3>3. g.body = rsp.body
      <4>1. g.at = l
        BY <1>3, <1>6, <2>5, <2>8, <2>9, <3>2
      <4>2. PICK u, v : u = g.body /\ v = rsp.body
        OBVIOUS
      <4>3. u \in Seq(Alphabet) /\ v \in Seq(Alphabet) /\ Len(u) = l /\ Len(v) = l
        <5>1. Connection!Bytes \subseteq Alphabet
          BY DEF Alphabet, Later
        <5>2. v \in Seq(Alphabet)
          BY <1>2, <4>2, <5>1
        <5>3. u \in Seq(Alphabet)
          BY <2>5, <4>2, BodyTypes
        <5> QED
          BY <1>4, <1>6, <2>5, <4>2, <5>2, <5>3
      <4>4. \A k \in 1 .. l : u[k] = v[k]
        BY <2>7, <3>2, <4>1, <4>2
      <4>5. u = v
        BY <4>3, <4>4, SameSequence
      <4> QED
        BY <4>2, <4>5
    <3>4. Heading' /\ Declared' /\ Chunked'
      BY <1>1, <1>2, <1>3, <1>6, <2>3, <3>1, <3>2, <3>3 DEF Heading, Declared, Chunked
    <3> QED
      BY <2>6, <3>4 DEF ConnectionInv
  <2>10. CASE y # n
    <3>1. c_pc' = "fix" /\ result' = "none"
      BY <1>1, <1>2, <2>3, <2>10
    <3>2. Fixed'
      <4>1. /\ reads' = 0 /\ c_pos' >= 2 /\ DOMAIN got'.body = 1 .. Len(rsp'.body)
            /\ got'.left = Len(rsp'.wire) - c_pos' + c_misses' /\ got'.at = c_pos' - 2 - c_misses'
        BY <1>1, <1>2, <1>3, <1>4, <1>6, <2>3, <2>5, <2>8
      <4>2. c_misses = 0 => \A k \in 1 .. g.at : g.body[k] = rsp.body[k]
        BY <2>7
      <4> QED
        BY <1>1, <1>3, <2>3, <4>1, <4>2 DEF Fixed
    <3>3. Heading' /\ Declared' /\ Chunked'
      BY <1>2, <1>3, <3>1, <3>2 DEF Heading, Declared, Chunked
    <3> QED
      BY <2>6, <3>3 DEF ConnectionInv
  <2> QED
    BY <2>9, <2>10
<1> QED
  BY <1>8, <1>9

\* A read of the rest of a body times out, and its place is one off.
LEMMA ConnectionMissFix ==
  ASSUME Connection!ConnectionAssumption, ConnectionInv, Connection!MissFix
  PROVE  ConnectionInv'
<1>1. /\ c_pc = "fix" /\ c_misses < MaxTimeouts /\ got' = Connection!Missed(got)
      /\ c_misses' = c_misses + 1
      /\ IF got'.left = 0 THEN Connection!Return("ok") ELSE UNCHANGED <<c_pc, result>>
      /\ UNCHANGED <<rsp, c_pos, c_sent, c_peer, buf, reads>>
  BY DEF Connection!MissFix
<1>2. /\ rsp.kind = "length" /\ Fixed /\ result = "none" /\ ConnectionTypes
      /\ Len(rsp.wire) = 2 + Len(rsp.body) /\ Len(rsp.body) \in Nat
  BY <1>1, FixState
<1>3. PICK b, x, y : b = got.body /\ x = got.at /\ y = got.left
  OBVIOUS
<1>4. b \in Seq(Alphabet) /\ x \in Int /\ y \in Nat /\ got = [body |-> b, at |-> x, left |-> y]
  <2>1. got \in Bodies
    BY <1>2 DEF ConnectionTypes
  <2> QED
    BY <1>3, <2>1 DEF Bodies
<1>5. got' = [body |-> b, at |-> x - 1, left |-> y + 1]
  BY <1>1, <1>4 DEF Connection!Missed
<1>6. got' \in Bodies /\ got'.body = b /\ got'.at = x - 1 /\ got'.left = y + 1
  <2>1. x - 1 \in Int /\ y + 1 \in Nat
    BY <1>4
  <2> QED
    BY <1>4, <1>5, <2>1 DEF Bodies
<1>7. got'.left # 0
  BY <1>4, <1>6
<1>8. c_pc' = "fix" /\ result' = "none"
  BY <1>1, <1>2, <1>7
<1>9. /\ c_misses \in Nat /\ MaxTimeouts \in Nat /\ c_pos \in Nat
  BY <1>2 DEF ConnectionTypes, Connection!ConnectionAssumption
<1>10. c_misses' \in 0 .. MaxTimeouts /\ c_misses' # 0
  BY <1>1, <1>9
<1>11. ConnectionTypes'
  BY <1>1, <1>2, <1>6, <1>8, <1>10 DEF ConnectionTypes
<1>12. Fixed'
  <2>1. PICK l, z : l = Len(rsp.body) /\ z = Len(rsp.wire)
    OBVIOUS
  <2>2. /\ reads = 0 /\ c_pos >= 2 /\ DOMAIN b = 1 .. l
        /\ y = z - c_pos + c_misses /\ x = c_pos - 2 - c_misses
    BY <1>2, <1>3, <2>1, Zenon DEF Fixed
  <2>3. z \in Nat
    BY <1>2, <2>1
  <2>4. y + 1 = z - c_pos + (c_misses + 1) /\ x - 1 = c_pos - 2 - (c_misses + 1)
    BY <1>9, <2>2, <2>3
  <2>5. /\ reads' = 0 /\ c_pos' >= 2 /\ DOMAIN got'.body = 1 .. Len(rsp'.body)
        /\ got'.left = Len(rsp'.wire) - c_pos' + c_misses' /\ got'.at = c_pos' - 2 - c_misses'
    BY <1>1, <1>6, <2>1, <2>2, <2>4
  <2> QED
    BY <1>10, <2>5 DEF Fixed
<1>13. Heading' /\ Declared' /\ Chunked'
  BY <1>1, <1>2, <1>8, <1>12 DEF Heading, Declared, Chunked
<1> QED
  BY <1>11, <1>13 DEF ConnectionInv

-----------------------------------------------------------------------------
(* A line, and what follows a read that did not end where it should.       *)

\* What a chunk's bytes in the buffer make of a body, and what they leave.
Appended(q, t, x) ==
  /\ q \o SubSeq(t, 1, x) \in Seq(Alphabet) /\ Len(q \o SubSeq(t, 1, x)) = Len(q) + x
  /\ \A k \in 1 .. Len(q) : (q \o SubSeq(t, 1, x))[k] = q[k]
  /\ \A k \in 1 .. x : (q \o SubSeq(t, 1, x))[Len(q) + k] = t[k]

\* A sequence and the beginning of another behind it.
LEMMA AppendFacts ==
  ASSUME NEW q \in Seq(Alphabet), NEW S, S \subseteq Alphabet, NEW t \in Seq(S),
         NEW x \in 0 .. Len(t)
  PROVE  Appended(q, t, x)
<1>1. x \in Nat /\ x <= Len(t) /\ 0 + 1 = 1 /\ 0 + x = x /\ \A k \in 1 .. x : 0 + k = k
  OBVIOUS
<1>2. PICK s : s = SubSeq(t, 1, x)
  OBVIOUS
<1>3. s \in Seq(S) /\ Len(s) = x /\ \A k \in 1 .. x : s[k] = t[k]
  <2>1. /\ SubSeq(t, 0 + 1, 0 + x) \in Seq(S) /\ Len(SubSeq(t, 0 + 1, 0 + x)) = x
        /\ \A k \in 1 .. x : SubSeq(t, 0 + 1, 0 + x)[k] = t[0 + k]
    <3>1. 0 \in Nat /\ x \in Nat /\ 0 + x <= Len(t)
      BY <1>1
    <3> QED
      BY <3>1, Part
  <2> QED
    BY <1>1, <1>2, <2>1
<1>4. s \in Seq(Alphabet)
  BY <1>3
<1>5. /\ q \o s \in Seq(Alphabet) /\ Len(q \o s) = Len(q) + Len(s)
      /\ \A k \in 1 .. Len(q) : (q \o s)[k] = q[k]
      /\ \A k \in 1 .. Len(s) : (q \o s)[Len(q) + k] = s[k]
  BY <1>4, Joined
<1>6. PICK u : u = q \o s
  OBVIOUS
<1>7. /\ u \in Seq(Alphabet) /\ Len(u) = Len(q) + x /\ \A k \in 1 .. Len(q) : u[k] = q[k]
      /\ \A k \in 1 .. x : u[Len(q) + k] = t[k]
  BY <1>3, <1>5, <1>6
<1>8. q \o SubSeq(t, 1, x) = u
  BY <1>2, <1>6
<1> QED
  BY <1>7, <1>8 DEF Appended

\* The reader of lines: b is what its buffer holds after the read.
Buffered(n, b) ==
  /\ rsp.kind = "chunked" /\ c_pc = "line" /\ result = "none"
  /\ b \in Seq(Later) /\ Len(b) = Len(buf) + n /\ Len(b) <= c_buff_size /\ Len(b) > 0
  /\ \A k \in 1 .. Len(buf) : b[k] = buf[k]
  /\ \A k \in 1 .. n : b[Len(buf) + k] = rsp.wire[c_pos + k]
  /\ n \in Nat \ {0} /\ c_pos' = c_pos + n /\ c_pos' <= Len(rsp.wire) /\ c_pos' >= 2
  /\ UNCHANGED <<rsp, c_sent, c_peer, c_misses>>

\* What the chunk parser sees after a read: the line so far.
LEMMA BufferedFacts ==
  ASSUME Connection!ConnectionAssumption, ConnectionInv, NEW n, Connection!ReadLine(n), NEW b,
         b = buf \o Connection!Take(n)
  PROVE  Buffered(n, b)
<1>1. c_pc = "line" /\ Connection!Reads(n, c_buff_size - Len(buf)) /\ UNCHANGED c_misses
  BY DEF Connection!ReadLine
<1>2. ConnectionTypes
  BY DEF ConnectionInv
<1>3. rsp.kind = "chunked" /\ result = "none"
  <2>1. rsp.kind \in {"length", "chunked"}
    BY <1>2, OnWireFacts
  <2> QED
    BY <1>1, <2>1 DEF ConnectionInv, ConnectionTypes, Declared
<1>4. c_pos >= 2
  BY <1>1, <1>3 DEF ConnectionInv, Chunked
<1>5. /\ n \in Nat \ {0} /\ n \in 1 .. c_buff_size - Len(buf) /\ c_pos' = c_pos + n
      /\ c_pos' \in Nat /\ c_pos < c_pos'
      /\ c_pos' <= Len(rsp.wire) /\ UNCHANGED <<rsp, c_sent, c_peer>>
      /\ Connection!Take(n) \in Seq(Alphabet) /\ Len(Connection!Take(n)) = n
      /\ \A k \in 1 .. n : Connection!Take(n)[k] = rsp.wire[c_pos + k]
           /\ c_pos + k \in 1 .. Len(rsp.wire)
  BY <1>1, <1>2, ReadFacts
<1>6. PICK t : t = Connection!Take(n)
  OBVIOUS
<1>7. t \in Seq(Later) /\ Len(t) = n /\ \A k \in 1 .. n : t[k] = rsp.wire[c_pos + k]
  <2>1. c_pos \in Nat /\ Len(rsp.wire) \in Nat
             /\ \A k \in 3 .. Len(rsp.wire) : rsp.wire[k] \in Later
    BY <1>2, OnWireFacts DEF ConnectionTypes, Headed
  <2>2. \A k \in 1 .. n : c_pos + k \in 3 .. Len(rsp.wire)
    BY <1>4, <1>5, <2>1
  <2>3. \A k \in 1 .. n : t[k] \in Later
    BY <1>5, <1>6, <2>1, <2>2
  <2>4. t \in Seq(Alphabet) /\ Len(t) = n
    BY <1>5, <1>6
  <2>5. t \in Seq(Later)
    BY <2>3, <2>4
  <2> QED
    BY <1>5, <1>6, <2>5
<1>8. buf \in Seq(Later) /\ Len(buf) \in Nat
  BY <1>2 DEF ConnectionTypes
<1>9. /\ b \in Seq(Later) /\ Len(b) = Len(buf) + Len(t) /\ \A k \in 1 .. Len(buf) : b[k] = buf[k]
      /\ \A k \in 1 .. Len(t) : b[Len(buf) + k] = t[k]
  BY <1>6, <1>7, <1>8, Joined
<1>10. PICK x, y : x = Len(buf) /\ y = Len(b)
  OBVIOUS
<1>11. x \in Nat /\ y = x + n /\ n \in 1 .. c_buff_size - x /\ c_buff_size \in Nat
  BY <1>5, <1>7, <1>8, <1>9, <1>10 DEF Connection!ConnectionAssumption
<1>12. y <= c_buff_size /\ y > 0
  BY <1>11
<1>13. c_pos' >= 2
  <2>1. c_pos \in Nat
    BY <1>2 DEF ConnectionTypes
  <2> QED
    BY <1>4, <1>5, <2>1
<1> QED
  BY <1>1, <1>3, <1>5, <1>7, <1>9, <1>10, <1>11, <1>12, <1>13 DEF Buffered

\* What the line does, and with it the chunk that is in the buffer.
Returned(r) == c_pc' = "done" /\ result' = r
Lines(p) ==
  /\ p.state = "error" => Returned("null") /\ buf' = buf /\ got' = got
  /\ p.state = "more" => buf' = <<>> /\ c_pc' = "line" /\ result' = "none" /\ got' = got
  /\ p.state = "finished" /\ p.content_len <= Len(p.rest) - 2 =>
       /\ got'.body = got.body \o SubSeq(p.rest, 1, p.content_len)
       /\ buf' = SubSeq(p.rest, p.content_len + 1, Len(p.rest) - 2)
       /\ IF p.content_len = 0 THEN Returned("ok") ELSE c_pc' = "line" /\ result' = "none"
  /\ p.state = "finished" /\ p.content_len > Len(p.rest) - 2 =>
       /\ buf' = <<>>
       /\ IF Len(p.rest) < 2 THEN Returned("length_error") /\ got' = got
          ELSE /\ c_pc' = "raw" /\ result' = "none"
               /\ got'.body = got.body \o SubSeq(p.rest, 1, Len(p.rest) - 2)
               /\ got'.left = p.content_len - (Len(p.rest) - 2)

\* ReadLine does one of the things that Lines lists.
LEMMA LineOutcome ==
  ASSUME Connection!ConnectionAssumption, ConnectionInv, NEW n, Connection!ReadLine(n), NEW b,
         b = buf \o Connection!Take(n)
  PROVE  ConnectionTypes' /\ Lines(Connection!Parsed(b)) /\ reads' = Connection!Counted(c_pos + n)
<1>1. Buffered(n, b)
  BY BufferedFacts
<1>2. PICK p : p = Connection!Parsed(b)
  OBVIOUS
<1>3. /\ p.state \in {"error", "more", "finished"} /\ p.content_len \in Nat
      /\ p.rest \in Seq(Later) /\ Len(p.rest) <= Len(b)
  <2>1. b \in Seq(Later) /\ Len(b) > 0
    BY <1>1 DEF Buffered
  <2> QED
    BY <1>2, <2>1, HoldFacts DEF ParsedHolds
<1>4. /\ reads' = Connection!Counted(c_pos + n) /\ UNCHANGED c_misses
      /\ Connection!Reads(n, c_buff_size - Len(buf))
      /\ CASE p.state = "error" -> Connection!Return("null") /\ UNCHANGED <<buf, got>>
           [] p.state = "more" -> buf' = <<>> /\ UNCHANGED <<c_pc, got, result>>
           [] OTHER -> Connection!ChunkBuffered(p) \/ Connection!ChunkCut(p)
  BY <1>2 DEF Connection!ReadLine
<1>5. reads' \in Int
  <2>1. reads \in Int
    BY DEF ConnectionInv, ConnectionTypes
  <2> QED
    BY <1>4, <2>1 DEF Connection!Counted
<1>6. c_pc = "line" /\ result = "none" /\ got \in Bodies /\ buf \in Seq(Later)
           /\ Len(buf) < c_buff_size
      /\ c_misses \in 0 .. MaxTimeouts /\ ConnectionTypes
  BY <1>1 DEF Buffered, ConnectionInv, ConnectionTypes
<1>7. /\ Len(b) <= c_buff_size /\ Len(b) \in Nat /\ c_buff_size \in Nat \ {0}
      /\ Len(p.rest) \in Nat
  <2>1. b \in Seq(Later) /\ Len(b) <= c_buff_size
    BY <1>1 DEF Buffered
  <2> QED
    BY <1>3, <2>1 DEF Connection!ConnectionAssumption
<1>8. ASSUME /\ c_pc' \in ConnectionPlaces /\ buf' \in Seq(Later) /\ Len(buf') < c_buff_size
                  /\ got' \in Bodies
             /\ result' \in Outcomes /\ (result' = "none") = (c_pc' # "done")
      PROVE  ConnectionTypes'
  <2>1. c_misses' \in 0 .. MaxTimeouts
    BY <1>4, <1>6
  <2> QED
    BY <1>4, <1>5, <1>6, <1>8, <2>1, ReadTypes
<1>9. <<>> \in Seq(Later) /\ Len(<<>>) < c_buff_size
  BY <1>7
<1>10. CASE p.state = "error"
  <2>1. Returned("null") /\ buf' = buf /\ got' = got
    BY <1>4, <1>10 DEF Connection!Return, Returned
  <2>2. ConnectionTypes'
    BY <1>6, <1>8, <2>1 DEF Returned, ConnectionPlaces, Outcomes
  <2>3. Lines(p)
    BY <1>10, <2>1 DEF Lines
  <2> QED
    BY <1>2, <1>4, <2>2, <2>3
<1>11. CASE p.state = "more"
  <2>1. buf' = <<>> /\ c_pc' = "line" /\ result' = "none" /\ got' = got
    BY <1>4, <1>6, <1>11
  <2>2. ConnectionTypes'
    BY <1>6, <1>8, <1>9, <2>1 DEF ConnectionPlaces, Outcomes
  <2>3. Lines(p)
    BY <1>11, <2>1 DEF Lines
  <2> QED
    BY <1>2, <1>4, <2>2, <2>3
<1>12. CASE p.state = "finished"
  <2>1. PICK l, v, t : l = Len(p.rest) /\ v = p.content_len /\ t = p.rest
    OBVIOUS
  <2>2. l \in Nat /\ v \in Nat /\ t \in Seq(Later) /\ Len(t) = l /\ l <= c_buff_size
    BY <1>3, <1>7, <2>1
  <2>3. PICK q, x, y : q = got.body /\ x = got.at /\ y = got.left
    OBVIOUS
  <2>4. q \in Seq(Alphabet) /\ x \in Int /\ y \in Nat /\ got = [body |-> q, at |-> x, left |-> y]
    BY <1>6, <2>3 DEF Bodies
  <2>5. Later \subseteq Alphabet
    BY DEF Alphabet
  <2>6. Connection!Behind(p.rest) = l - 2
    BY <2>1 DEF Connection!Behind
  <2>7. CASE v <= l - 2
    <3>1. /\ got' = [got EXCEPT !.body = @ \o SubSeq(t, 1, v)] /\ buf' = SubSeq(t, v + 1, l - 2)
          /\ IF v = 0 THEN Connection!Return("ok") ELSE UNCHANGED <<c_pc, result>>
      <4>1. Connection!ChunkBuffered(p)
        <5>1. ~ (v > l - 2)
          BY <2>2, <2>7
        <5>2. ~ Connection!ChunkCut(p)
          BY <2>1, <2>6, <5>1 DEF Connection!ChunkCut
        <5> QED
          BY <1>4, <1>12, <5>2
      <4> QED
        BY <2>1, <2>6, <4>1 DEF Connection!ChunkBuffered
    <3>2. v \in 0 .. Len(t) /\ v \in Nat /\ (l - 2) - v \in Nat /\ v + ((l - 2) - v) = l - 2
               /\ l - 2 <= Len(t)
          /\ (l - 2) - v < c_buff_size
      BY <1>7, <2>2, <2>7
    <3>3. Appended(q, t, v)
      BY <2>2, <2>4, <2>5, <3>2, AppendFacts
    <3>4. got' = [body |-> q \o SubSeq(t, 1, v), at |-> x, left |-> y]
      BY <2>4, <3>1
    <3>5. got' \in Bodies /\ got'.body = q \o SubSeq(t, 1, v)
      BY <2>4, <3>3, <3>4 DEF Bodies, Appended
    <3>6. buf' \in Seq(Later) /\ Len(buf') < c_buff_size
      <4>1. PICK j : j = (l - 2) - v
        OBVIOUS
      <4>2. SubSeq(t, v + 1, v + j) \in Seq(Later) /\ Len(SubSeq(t, v + 1, v + j)) = j
        <5>1. v \in Nat /\ j \in Nat /\ v + j <= Len(t) /\ t \in Seq(Later)
          BY <2>2, <3>2, <4>1
        <5> QED
          BY <5>1, Part
      <4> QED
        BY <3>1, <3>2, <4>1, <4>2
    <3>7. /\ c_pc' \in ConnectionPlaces /\ result' \in Outcomes
          /\ (result' = "none") = (c_pc' # "done")
          /\ IF v = 0 THEN Returned("ok") ELSE c_pc' = "line" /\ result' = "none"
      BY <1>6, <3>1 DEF Connection!Return, Returned, ConnectionPlaces, Outcomes
    <3>8. ConnectionTypes'
      BY <1>8, <3>5, <3>6, <3>7
    <3>9. Lines(p)
      <4>1. ~ (v > l - 2)
        BY <2>2, <2>7
      <4> QED
        BY <1>12, <2>1, <2>3, <3>1, <3>5, <3>7, <4>1 DEF Lines
    <3> QED
      BY <1>2, <1>4, <3>8, <3>9
  <2>8. CASE v > l - 2
    <3>1. /\ buf' = <<>>
          /\ IF l - 2 < 0 THEN Connection!Return("length_error") /\ UNCHANGED got
             ELSE /\ c_pc' = "raw" /\ UNCHANGED result
                  /\ got' = [got EXCEPT !.body = @ \o SubSeq(t, 1, l - 2), !.left = v - (l - 2)]
      <4>1. Connection!ChunkCut(p)
        <5>1. ~ (v <= l - 2)
          BY <2>2, <2>8
        <5>2. ~ Connection!ChunkBuffered(p)
          BY <2>1, <2>6, <5>1 DEF Connection!ChunkBuffered
        <5> QED
          BY <1>4, <1>12, <5>2
      <4> QED
        BY <2>1, <2>6, <4>1 DEF Connection!ChunkCut
    <3>2. ~ (v <= l - 2) /\ (l - 2 < 0 <=> l < 2)
      BY <2>2, <2>8
    <3>3. CASE l < 2
      <4>1. buf' = <<>> /\ Returned("length_error") /\ got' = got
        BY <3>1, <3>2, <3>3 DEF Connection!Return, Returned
      <4>2. ConnectionTypes'
        BY <1>6, <1>8, <1>9, <4>1 DEF Returned, ConnectionPlaces, Outcomes
      <4>3. Lines(p)
        BY <1>12, <2>1, <3>2, <3>3, <4>1 DEF Lines
      <4> QED
        BY <1>2, <1>4, <4>2, <4>3
    <3>4. CASE ~ (l < 2)
      <4>1. /\ buf' = <<>> /\ c_pc' = "raw" /\ result' = "none"
            /\ got' = [got EXCEPT !.body = @ \o SubSeq(t, 1, l - 2), !.left = v - (l - 2)]
        BY <1>6, <3>1, <3>2, <3>4
      <4>2. l - 2 \in 0 .. Len(t) /\ v - (l - 2) \in Nat
        BY <2>2, <2>8, <3>4
      <4>3. PICK z, j : z = v - (l - 2) /\ j = l - 2
        OBVIOUS
      <4>4. Appended(q, t, j)
        BY <2>2, <2>4, <2>5, <4>2, <4>3, AppendFacts
      <4>5. PICK u : u = q \o SubSeq(t, 1, j)
        OBVIOUS
      <4>6. got' = [body |-> u, at |-> x, left |-> z]
        BY <2>4, <4>1, <4>3, <4>5
      <4>7. u \in Seq(Alphabet)
        BY <4>4, <4>5 DEF Appended
      <4>8. got' \in Bodies /\ got'.body = u /\ got'.left = z
        BY <2>4, <4>2, <4>3, <4>6, <4>7 DEF Bodies
      <4>9. ConnectionTypes'
        BY <1>8, <1>9, <4>1, <4>8 DEF ConnectionPlaces, Outcomes
      <4>10. Lines(p)
        BY <1>12, <2>1, <2>3, <3>2, <3>4, <4>1, <4>3, <4>5, <4>8 DEF Lines
      <4> QED
        BY <1>2, <1>4, <4>9, <4>10
    <3> QED
      BY <3>3, <3>4
  <2>9. v <= l - 2 \/ v > l - 2
    BY <2>2
  <2> QED
    BY <2>7, <2>8, <2>9
<1> QED
  BY <1>3, <1>10, <1>11, <1>12

\* What is in the body stays there.
LEMMA KeepPolluted ==
  ASSUME Polluted, NEW q \in Seq(Alphabet), q = got.body, NEW r \in Seq(Alphabet), r = got'.body,
         Len(q) <= Len(r), \A k \in 1 .. Len(q) : r[k] = q[k]
  PROVE  Polluted'
<1>1. PICK k \in DOMAIN q : q[k] \notin Connection!Bytes
  BY DEF Polluted
<1>2. k \in 1 .. Len(q) /\ Len(q) \in Nat /\ Len(r) \in Nat /\ DOMAIN r = 1 .. Len(r)
  OBVIOUS
<1>3. k \in DOMAIN r /\ r[k] = q[k]
  BY <1>2
<1> QED
  BY <1>1, <1>3 DEF Polluted

\* A body with bytes of a line in it keeps them.
LEMMA LinePolluted ==
  ASSUME Connection!ConnectionAssumption, ConnectionInv, NEW n, Connection!ReadLine(n), Polluted
  PROVE  Polluted'
<1>1. PICK b : b = buf \o Connection!Take(n)
  OBVIOUS
<1>2. PICK p : p = Connection!Parsed(b)
  OBVIOUS
<1>3. Lines(p)
  BY <1>1, <1>2, LineOutcome
<1>4. b \in Seq(Later) /\ Len(b) > 0
  BY <1>1, BufferedFacts DEF Buffered
<1>5. /\ p.state \in {"error", "more", "finished"} /\ p.content_len \in Nat
      /\ p.rest \in Seq(Later)
  BY <1>2, <1>4, HoldFacts DEF ParsedHolds
<1>6. PICK q : q = got.body
  OBVIOUS
<1>7. q \in Seq(Alphabet) /\ Len(q) \in Nat
  <2>1. got \in Bodies
    BY DEF ConnectionInv, ConnectionTypes
  <2>2. q \in Seq(Alphabet)
    BY <1>6, <2>1, BodyTypes
  <2> QED
    BY <2>2
<1>8. PICK t, v : t = p.rest /\ v = p.content_len
  OBVIOUS
<1>9. Len(t) \in Nat /\ t \in Seq(Later) /\ v \in Nat
  BY <1>5, <1>8
<1>10. ASSUME NEW x \in 0 .. Len(t), got'.body = q \o SubSeq(t, 1, x) PROVE Polluted'
  <2>1. Later \subseteq Alphabet
    BY DEF Alphabet
  <2>2. Appended(q, t, x)
    BY <1>7, <1>9, <2>1, AppendFacts
  <2>3. PICK r : r = got'.body
    OBVIOUS
  <2>4. r \in Seq(Alphabet) /\ Len(r) = Len(q) + x /\ \A k \in 1 .. Len(q) : r[k] = q[k]
    BY <1>10, <2>2, <2>3 DEF Appended
  <2>5. Len(q) <= Len(r)
    BY <1>7, <1>9, <2>4
  <2> QED
    BY <1>6, <1>7, <2>3, <2>4, <2>5, KeepPolluted
<1>11. ASSUME got' = got PROVE Polluted'
  BY <1>11 DEF Polluted
<1>12. CASE p.state # "finished"
  BY <1>3, <1>5, <1>11, <1>12 DEF Lines
<1>13. CASE p.state = "finished" /\ v <= Len(t) - 2
  <2>1. v \in 0 .. Len(t)
    BY <1>9, <1>13
  <2> QED
    BY <1>3, <1>6, <1>8, <1>10, <1>13, <2>1 DEF Lines
<1>14. CASE p.state = "finished" /\ v > Len(t) - 2
  <2>1. CASE Len(t) < 2
    BY <1>3, <1>8, <1>11, <1>14, <2>1 DEF Lines
  <2>2. CASE ~ (Len(t) < 2)
    <3>1. Len(t) - 2 \in 0 .. Len(t)
      BY <1>9, <2>2
    <3> QED
      BY <1>3, <1>6, <1>8, <1>10, <1>14, <2>2, <3>1 DEF Lines
  <2> QED
    BY <2>1, <2>2
<1>15. v <= Len(t) - 2 \/ v > Len(t) - 2
  BY <1>9
<1> QED
  BY <1>12, <1>13, <1>14, <1>15

\* A line that does not begin with a digit is none.
LEMMA LineStuck ==
  ASSUME Connection!ConnectionAssumption, ConnectionInv, NEW n, Connection!ReadLine(n), Stuck
  PROVE  Wrong'
<1>1. PICK b : b = buf \o Connection!Take(n)
  OBVIOUS
<1>2. Lines(Connection!Parsed(b))
  BY <1>1, LineOutcome
<1>3. Buffered(n, b)
  BY <1>1, BufferedFacts
<1>4. /\ b \in Seq(Later) /\ Len(b) > 0 /\ \A k \in 1 .. Len(buf) : b[k] = buf[k]
      /\ Len(b) = Len(buf) + n /\ \A k \in 1 .. n : b[Len(buf) + k] = rsp.wire[c_pos + k]
      /\ n \in Nat \ {0}
  BY <1>3 DEF Buffered
<1>5. b[1] \notin Connection!Bits
  <2>1. CASE buf # <<>>
    <3>1. 1 \in 1 .. Len(buf)
      BY <2>1 DEF ConnectionInv, ConnectionTypes
    <3> QED
      BY <1>4, <2>1, <3>1 DEF Stuck
  <2>2. CASE buf = <<>>
    <3>1. Len(buf) = 0 /\ 1 \in 1 .. n /\ 0 + 1 = 1
      BY <1>4, <2>2
    <3>2. b[0 + 1] = rsp.wire[c_pos + 1]
      BY <1>4, <3>1
    <3> QED
      BY <2>2, <3>1, <3>2 DEF Stuck
  <2> QED
    BY <2>1, <2>2
<1>6. Connection!Parsed(b).state = "error"
  BY <1>4, <1>5, HoldFacts DEF ParsedHolds
<1> QED
  BY <1>2, <1>6 DEF Lines, Returned, Wrong

\* No byte of a body is a digit of a size or ends a line.
LEMMA ByteFacts ==
  /\ "cr" \notin Connection!Bits /\ "lf" \notin Connection!Bits /\ "cr" \notin Connection!Bytes
  /\ "lf" \notin Connection!Bytes
  /\ \A x \in Connection!Bytes : x \notin Connection!Bits
BY DEF Connection!Bits, Connection!Bytes

\* The first symbol that a part leaves.
LEMMA LeftBehind ==
  ASSUME NEW t \in Seq(Later), NEW v \in Nat, NEW m \in Nat, v < m, m <= Len(t)
  PROVE  SubSeq(t, v + 1, m) # <<>> /\ SubSeq(t, v + 1, m)[1] = t[v + 1]
<1>1. m - v \in Nat /\ v + (m - v) = m /\ 1 \in 1 .. (m - v) /\ m - v # 0
  OBVIOUS
<1>2. PICK j : j = m - v
  OBVIOUS
<1>3. PICK s : s = SubSeq(t, v + 1, v + j)
  OBVIOUS
<1>4. s \in Seq(Later) /\ Len(s) = j /\ \A k \in 1 .. j : s[k] = t[v + k]
  <2>1. v \in Nat /\ j \in Nat /\ v + j <= Len(t) /\ t \in Seq(Later)
    BY <1>1, <1>2
  <2> QED
    BY <1>3, <2>1, Part
<1>5. s # <<>> /\ s[1] = t[v + 1]
  <2>1. Len(s) # 0
    BY <1>1, <1>2, <1>4
  <2> QED
    BY <1>1, <1>2, <1>4, <2>1
<1> QED
  BY <1>1, <1>2, <1>3, <1>5

\* Where chunk i stands.
Stands(i, q, e, d, c, v, f) ==
  /\ q = rsp.wire /\ e = EndAt(rsp, i - 1) /\ c = ChunkOf(rsp, i) /\ d = SizePlaces(c)
  /\ v = Len(c)
  /\ f = EndAt(rsp, i) /\ e \in Nat /\ d \in 1 .. 2 /\ v \in 0 .. 3 /\ f = e + d + 4 + v
  /\ d = (IF v > 1 THEN 2 ELSE 1) /\ f <= Len(q) /\ Len(q) \in Nat
  /\ c \in Seq(Connection!Bytes) /\ \A k \in 1 .. v : c[k] \in Connection!Bytes
  /\ Lined(q, e, d) /\ Value(q, e, d) = v
  /\ \A k \in 1 .. v : q[e + d + 2 + k] = c[k]
  /\ q[e + d + 3 + v] = "cr" /\ q[e + d + 4 + v] = "lf"
  /\ ChunkCount(rsp) \in Nat /\ (v = 0 <=> i = ChunkCount(rsp) + 1)

\* Every chunk stands on the wire at the end of the one before.
LEMMA StandFacts ==
  ASSUME Connection!ConnectionAssumption, ConnectionTypes, rsp.kind = "chunked",
         NEW i \in 1 .. ChunkCount(rsp) + 1
  PROVE  \E q, e, d, c, v, f : Stands(i, q, e, d, c, v, f)
<1>1. Segmented(rsp) /\ Headed(rsp)
  BY OnWireFacts
<1>2. PICK q, c : q = rsp.wire /\ c = ChunkOf(rsp, i)
  OBVIOUS
<1>3. PICK e, f : e = EndAt(rsp, i - 1) /\ f = EndAt(rsp, i)
  OBVIOUS
<1>4. PICK d, v : d = SizePlaces(c) /\ v = Len(c)
  OBVIOUS
<1>5. ChunkCount(rsp) \in Nat /\ i - 1 \in 0 .. ChunkCount(rsp) + 1
  <2>1. ChunkCount(rsp) \in Nat
    BY <1>1 DEF Segmented
  <2> QED
    BY <2>1
<1>6. /\ Framed(q, e, c) /\ f = e + d + 4 + v /\ f <= Len(q)
      /\ (v = 0 <=> i = ChunkCount(rsp) + 1)
      /\ e \in Nat
  BY <1>1, <1>2, <1>3, <1>4, <1>5 DEF Segmented
<1>7. /\ c \in Seq(Connection!Bytes) /\ v \in 0 .. 3 /\ d \in 1 .. 2
      /\ d = (IF v > 1 THEN 2 ELSE 1)
  <2>1. c \in Seq(Connection!Bytes) /\ Len(c) \in 0 .. 3
    BY <1>6, Zenon DEF Framed
  <2>2. d = (IF v > 1 THEN 2 ELSE 1)
    BY <1>4 DEF SizePlaces
  <2> QED
    BY <1>4, <2>1, <2>2
<1>8. \A k \in 1 .. v : c[k] \in Connection!Bytes
  BY <1>4, <1>7
<1>9. /\ Lined(q, e, d) /\ Value(q, e, d) = v /\ \A k \in 1 .. v : q[e + d + 2 + k] = c[k]
      /\ q[e + d + 3 + v] = "cr" /\ q[e + d + 4 + v] = "lf"
  BY <1>4, <1>6, <1>7 DEF Framed, Lined, Value
<1>10. Len(q) \in Nat
  BY <1>1, <1>2 DEF Headed
<1>11. Stands(i, q, e, d, c, v, f)
  BY <1>2, <1>3, <1>4, <1>5, <1>6, <1>7, <1>8, <1>9, <1>10 DEF Stands
<1> QED
  BY <1>11

\* A line that begins with the second digit of a size.
LEMMA LineLate ==
  ASSUME Connection!ConnectionAssumption, ConnectionInv, NEW n, Connection!ReadLine(n), Late
  PROVE  Doomed'
<1>1. PICK b : b = buf \o Connection!Take(n)
  OBVIOUS
<1>2. PICK p : p = Connection!Parsed(b)
  OBVIOUS
<1>3. Lines(p)
  BY <1>1, <1>2, LineOutcome
<1>4. Buffered(n, b)
  BY <1>1, BufferedFacts
<1>5. PICK i \in 1 .. ChunkCount(rsp) : /\ Len(ChunkOf(rsp, i)) > 1 /\ c_pos = EndAt(rsp, i - 1) + 1
                                        /\ got.body = Before(rsp, i - 1)
  BY DEF Late
<1>6. rsp.kind = "chunked" /\ ConnectionTypes
  BY <1>4 DEF Buffered, ConnectionInv
<1>7. Growing(rsp)
  BY <1>6, OnWireFacts
<1>8. i \in 1 .. ChunkCount(rsp) + 1
  BY <1>7 DEF Growing
<1>9. PICK q, e, d, c, v, f : Stands(i, q, e, d, c, v, f)
  BY <1>6, <1>8, StandFacts
<1>10. /\ q = rsp.wire /\ e \in Nat /\ f = e + 6 + v /\ f <= Len(q) /\ Len(q) \in Nat
       /\ v \in 2 .. 3 /\ d = 2 /\ c_pos = e + 1 /\ Lined(q, e, 2) /\ Value(q, e, 2) = v
       /\ \A k \in 1 .. v : q[e + 4 + k] = c[k] /\ c[k] \in Connection!Bytes
       /\ q[e + 5 + v] = "cr" /\ q[e + 6 + v] = "lf"
  <2>1. /\ q = rsp.wire /\ e \in Nat /\ f = e + d + 4 + v /\ f <= Len(q) /\ Len(q) \in Nat
        /\ v \in 0 .. 3 /\ v > 1 /\ d = (IF v > 1 THEN 2 ELSE 1) /\ c_pos = e + 1
        /\ Lined(q, e, d) /\ Value(q, e, d) = v
        /\ \A k \in 1 .. v : q[e + d + 2 + k] = c[k] /\ c[k] \in Connection!Bytes
        /\ q[e + d + 3 + v] = "cr" /\ q[e + d + 4 + v] = "lf"
    BY <1>5, <1>9 DEF Stands
  <2>2. d = 2
    BY <2>1
  <2>3. /\ e + 2 + 4 + v = e + 6 + v /\ e + 2 + 3 + v = e + 5 + v
        /\ \A k \in 1 .. v : e + 2 + 2 + k = e + 4 + k
    BY <2>1
  <2>4. v \in 2 .. 3
    BY <2>1
  <2> QED
    BY <2>1, <2>2, <2>3, <2>4
<1>11. /\ q[e + 1] \in Connection!Bits /\ q[e + 2] \in Connection!Bits /\ q[e + 3] = "cr"
       /\ q[e + 4] = "lf"
  <2>1. 1 \in 1 .. 2 /\ 2 \in 1 .. 2 /\ e + 2 + 1 = e + 3 /\ e + 2 + 2 = e + 4
    BY <1>10
  <2> QED
    BY <1>10, <2>1 DEF Lined
<1>12. Lined(q, e + 1, 1) /\ Value(q, e + 1, 1) = v - 2
  <2>1. (e + 1) + 1 = e + 2 /\ (e + 1) + 1 + 1 = e + 3 /\ (e + 1) + 1 + 2 = e + 4
        /\ \A k \in 1 .. 1 : (e + 1) + k = e + 2
    BY <1>10
  <2>2. Bit(q[e + 2]) = v - 2
    <3>1. \A x : Bit(x) \in {0, 1}
      BY DEF Bit
    <3>2. v = 2 * Bit(q[e + 1]) + Bit(q[e + 2])
      BY <1>10 DEF Value
    <3>3. \A x, y \in {0, 1} : \A z \in 2 .. 3 : z = 2 * x + y => y = z - 2
      OBVIOUS
    <3> QED
      BY <1>10, <3>1, <3>2, <3>3
  <2>3. Value(q, e + 1, 1) = Bit(q[e + 2])
    BY <2>1 DEF Value
  <2>4. Lined(q, e + 1, 1)
    BY <1>11, <2>1 DEF Lined
  <2> QED
    BY <2>2, <2>3, <2>4
<1>13. /\ n \in Nat \ {0} /\ b \in Seq(Later) /\ Len(b) = n
       /\ \A k \in 1 .. n : b[k] = q[(e + 1) + k]
       /\ c_pos' = e + 1 + n
  <2>1. /\ n \in Nat \ {0} /\ b \in Seq(Later) /\ Len(b) = Len(buf) + n /\ c_pos' = c_pos + n
        /\ \A k \in 1 .. n : b[Len(buf) + k] = rsp.wire[c_pos + k]
    BY <1>4 DEF Buffered
  <2>2. Len(buf) = 0
    BY DEF Late
  <2>3. 0 + n = n /\ \A k \in 1 .. n : 0 + k = k
    BY <2>1
  <2> QED
    BY <1>10, <2>1, <2>2, <2>3
<1>19. /\ e \in Nat /\ n \in Nat \ {0} /\ Len(q) \in Nat /\ c_pos' = e + 1 + n /\ v \in 2 .. 3
       /\ e + 6 + v <= Len(q)
  <2>1. e \in Nat /\ Len(q) \in Nat /\ v \in 2 .. 3
    BY <1>10, Zenon
  <2>2. e + 6 + v <= Len(q)
    BY <1>10, Zenon
  <2>3. n \in Nat \ {0} /\ c_pos' = e + 1 + n
    BY <1>13, Zenon
  <2> QED
    BY <2>1, <2>2, <2>3
<1>14. /\ n <= 2 => p.state = "more"
       /\ n >= 3 =>
            /\ p.state = "finished" /\ p.content_len = v - 2
            /\ p.rest \in Seq(Later) /\ Len(p.rest) = n - 3
            /\ \A k \in 1 .. n - 3 : p.rest[k] = q[e + 4 + k]
  <2>1. Parses(b, q, e + 1, 1)
    <3>1. e + 1 \in Nat /\ Len(b) > 0 /\ \A k \in 1 .. Len(b) : b[k] = q[(e + 1) + k]
      BY <1>10, <1>13
    <3> QED
      BY <1>12, <1>13, <3>1, LineFacts
  <2>2. 1 + 1 = 2 /\ 1 + 2 = 3 /\ n - 1 - 2 = n - 3
             /\ \A k \in 1 .. n - 3 : (e + 1) + 1 + 2 + k = e + 4 + k
    BY <1>10, <1>13
  <2> QED
    BY <1>2, <1>12, <1>13, <2>1, <2>2 DEF Parses
<1>15. rsp' = rsp
  BY <1>4 DEF Buffered
<1>16. ASSUME c_pc' = "line", buf' = <<>>, c_pos' < Len(q),
              q[c_pos' + 1] = "cr" \/ q[c_pos' + 1] = "lf"
       PROVE  Stuck'
  BY <1>10, <1>15, <1>16, ByteFacts DEF Stuck
<1>17. CASE n <= 2
  <2>1. buf' = <<>> /\ c_pc' = "line"
    BY <1>3, <1>14, <1>17 DEF Lines
  <2>2. (n = 1 /\ c_pos' + 1 = e + 3) \/ (n = 2 /\ c_pos' + 1 = e + 4)
    BY <1>17, <1>19
  <2>3. c_pos' < Len(q)
    BY <1>17, <1>19
  <2> QED
    BY <1>11, <1>16, <2>1, <2>2, <2>3 DEF Doomed
<1>18. CASE n >= 3
  <2>1. PICK l, t : l = n - 3 /\ t = p.rest
    OBVIOUS
  <2>2. /\ l \in Nat /\ p.state = "finished" /\ p.content_len = v - 2 /\ t \in Seq(Later)
        /\ Len(t) = l
        /\ \A k \in 1 .. l : t[k] = q[e + 4 + k]
    BY <1>13, <1>14, <1>18, <2>1
  <2>3. got.body = Before(rsp, i - 1) /\ got.body \in Seq(Alphabet) /\ Len(got.body) < Len(rsp.body)
    <3>1. got \in Bodies
      BY <1>6 DEF ConnectionTypes
    <3>2. Len(Before(rsp, i - 1)) < Len(rsp.body)
      BY <1>5, <1>7 DEF Growing
    <3> QED
      BY <1>5, <3>1, <3>2, BodyTypes
  <2>4. Later \subseteq Alphabet
    BY DEF Alphabet
  <2>5. CASE v - 2 <= l - 2
    <3>1. /\ got'.body = got.body \o SubSeq(t, 1, v - 2) /\ buf' = SubSeq(t, (v - 2) + 1, l - 2)
          /\ IF v - 2 = 0 THEN Returned("ok") ELSE c_pc' = "line" /\ result' = "none"
      BY <1>3, <2>1, <2>2, <2>5 DEF Lines
    <3>2. CASE v = 2
      <4>1. v - 2 = 0 /\ 0 \in 0 .. Len(t)
        BY <2>2, <3>2
      <4>2. Appended(got.body, t, 0)
        BY <2>2, <2>3, <2>4, <4>1, AppendFacts
      <4>3. Len(got'.body) = Len(got.body) + 0
        BY <3>1, <4>1, <4>2 DEF Appended
      <4>4. Len(got.body) \in Nat
        BY <2>3
      <4>5. Len(got'.body) # Len(rsp.body)
        BY <2>3, <4>3, <4>4
      <4> QED
        BY <1>15, <3>1, <4>1, <4>5 DEF Doomed, Wrong, Returned
    <3>3. CASE v = 3
      <4>1. c_pc' = "line" /\ buf' = SubSeq(t, 1 + 1, l - 2) /\ l >= 3
        BY <2>2, <2>5, <3>1, <3>3
      <4>2. CASE l = 3
        <5>1. buf' = <<>>
          BY <4>1, <4>2
        <5>2. c_pos' + 1 = e + 5 + v /\ c_pos' < Len(q)
          BY <1>19, <2>1, <3>3, <4>2
        <5>3. q[e + 5 + v] = "cr"
          BY <1>10
        <5>4. Stuck'
          BY <1>16, <4>1, <5>1, <5>2, <5>3
        <5> QED
          BY <5>4 DEF Doomed
      <4>3. CASE l > 3
        <5>1. 1 \in Nat /\ l - 2 \in Nat /\ 1 < l - 2 /\ l - 2 <= Len(t)
          BY <2>2, <4>3
        <5>2. buf' # <<>> /\ buf'[1] = t[1 + 1]
          BY <2>2, <4>1, <5>1, LeftBehind
        <5>3. t[2] \in Connection!Bytes
          <6>1. 2 \in 1 .. l /\ 2 \in 1 .. v
            BY <2>2, <3>3, <4>3
          <6> QED
            BY <1>10, <2>2, <6>1
        <5>4. buf'[1] \notin Connection!Bits
          BY <5>2, <5>3, ByteFacts
        <5> QED
          BY <4>1, <5>2, <5>4 DEF Doomed, Stuck
      <4> QED
        BY <2>2, <4>1, <4>2, <4>3
    <3> QED
      BY <1>10, <3>2, <3>3
  <2>6. CASE v - 2 > l - 2
    <3>1. /\ buf' = <<>>
          /\ IF l < 2 THEN Returned("length_error") /\ got' = got
             ELSE c_pc' = "raw" /\ got'.left = (v - 2) - (l - 2)
      BY <1>3, <2>1, <2>2, <2>6 DEF Lines
    <3>2. CASE l < 2
      BY <3>1, <3>2 DEF Doomed, Wrong, Returned
    <3>3. CASE ~ (l < 2)
      <4>1. l = 2 /\ v = 3
        BY <1>10, <2>2, <2>6, <3>3
      <4>2. c_pc' = "raw" /\ got'.left = 1
        BY <3>1, <4>1
      <4>3. /\ c_pos' + 1 < Len(q) /\ c_pos' + 1 + 1 = e + 5 + v /\ c_pos' + 1 <= Len(q)
        BY <1>10, <1>13, <2>1, <4>1
      <4>4. q[c_pos' + 1 + 1] \notin Connection!Bits
        BY <1>10, <4>3, ByteFacts
      <4>5. Cut'
        BY <1>10, <1>15, <3>1, <4>2, <4>3, <4>4 DEF Cut
      <4> QED
        BY <4>5 DEF Doomed
    <3> QED
      BY <3>2, <3>3
  <2> QED
    BY <1>10, <2>2, <2>5, <2>6
<1> QED
  BY <1>13, <1>17, <1>18

\* A line that begins where it should: the chunk behind it is in the buffer and
\* nothing else is, or what follows goes wrong.
Advanced ==
  \/ reads' = -1 /\ Doomed'
  \/ reads' >= 0 /\ reads' \in 0 .. ChunkCount(rsp) /\ c_pc' = "line" /\ result' = "none"
       /\ Aligned'
  \/ reads' = ChunkCount(rsp) + 1 /\ Returned("ok") /\ got'.body = rsp.body

\* A line that begins where it should is read, or what follows goes wrong.
LEMMA LineAligned ==
  ASSUME Connection!ConnectionAssumption, ConnectionInv, NEW n, Connection!ReadLine(n), reads >= 0
  PROVE  Advanced
<1>1. PICK b : b = buf \o Connection!Take(n)
  OBVIOUS
<1>2. PICK p : p = Connection!Parsed(b)
  OBVIOUS
<1>3. Lines(p) /\ reads' = Connection!Counted(c_pos + n)
  BY <1>1, <1>2, LineOutcome
<1>4. Buffered(n, b)
  BY <1>1, BufferedFacts
<1>5. rsp.kind = "chunked" /\ ConnectionTypes /\ c_pc = "line" /\ rsp' = rsp
  BY <1>4 DEF Buffered, ConnectionInv
<1>6. Aligned
  BY <1>5 DEF ConnectionInv, Chunked
<1>7. Growing(rsp) /\ Segmented(rsp)
  BY <1>5, OnWireFacts
<1>8. PICK i : i = reads + 1
  OBVIOUS
<1>9. /\ ChunkCount(rsp) \in Nat /\ reads \in 0 .. ChunkCount(rsp)
      /\ i \in 1 .. ChunkCount(rsp) + 1
      /\ i - 1 = reads /\ i # 0 /\ (i # ChunkCount(rsp) + 1 => i \in 1 .. ChunkCount(rsp))
  <2>1. ChunkCount(rsp) \in Nat
    BY <1>7 DEF Growing
  <2>2. reads \in 0 .. ChunkCount(rsp)
    BY <1>6 DEF Aligned
  <2>3. \A x \in Nat : \A y \in 0 .. x :
          /\ y + 1 \in 1 .. x + 1 /\ (y + 1) - 1 = y /\ y + 1 # 0
          /\ (y + 1 # x + 1 => y + 1 \in 1 .. x)
    OBVIOUS
  <2> QED
    BY <1>8, <2>1, <2>2, <2>3
<1>10. PICK q, e, d, c, v, f : Stands(i, q, e, d, c, v, f)
  BY <1>5, <1>9, StandFacts
<1>11. /\ q = rsp.wire /\ e \in Nat /\ d \in 1 .. 2 /\ v \in 0 .. 3 /\ f = e + d + 4 + v
       /\ f <= Len(q)
       /\ d = (IF v > 1 THEN 2 ELSE 1) /\ Len(q) \in Nat /\ Lined(q, e, d) /\ Value(q, e, d) = v
       /\ \A k \in 1 .. v : q[e + d + 2 + k] = c[k] /\ c[k] \in Connection!Bytes
       /\ q[e + d + 3 + v] = "cr" /\ q[e + d + 4 + v] = "lf"
       /\ (v = 0 <=> i = ChunkCount(rsp) + 1)
       /\ e = EndAt(rsp, reads) /\ f = EndAt(rsp, i) /\ c = ChunkOf(rsp, i) /\ v = Len(c)
       /\ c \in Seq(Connection!Bytes) /\ q[e + d + 1] = "cr" /\ q[e + d + 2] = "lf"
  BY <1>9, <1>10 DEF Stands, Lined
<1>12. PICK m, o : m = Len(b) /\ o = Len(buf)
  OBVIOUS
<1>13. /\ o \in Nat /\ n \in Nat \ {0} /\ m = o + n /\ b \in Seq(Later) /\ m > 0 /\ m \in Nat
       /\ c_pos = e + o /\ c_pos' = e + m /\ c_pos' <= Len(q)
       /\ \A k \in 1 .. m : b[k] = q[e + k]
  <2>1. /\ b \in Seq(Later) /\ m = o + n /\ m > 0 /\ n \in Nat \ {0}
        /\ \A k \in 1 .. o : b[k] = buf[k] /\ buf[k] = q[e + k]
        /\ \A k \in 1 .. n : b[o + k] = q[c_pos + k]
        /\ c_pos' = c_pos + n /\ c_pos' <= Len(q) /\ c_pos = e + o
    BY <1>4, <1>6, <1>11, <1>12 DEF Buffered, Aligned
  <2>2. o \in Nat
    BY <1>5, <1>12 DEF ConnectionTypes
  <2>3. c_pos' = e + m
    BY <1>11, <2>1, <2>2
  <2>4. ASSUME NEW k \in 1 .. m PROVE b[k] = q[e + k]
    <3>1. CASE k <= o
      <4>1. k \in 1 .. o
        BY <2>2, <3>1
      <4> QED
        BY <2>1, <4>1
    <3>2. CASE k > o
      <4>1. PICK j : j = k - o
        OBVIOUS
      <4>2. j \in 1 .. n /\ o + j = k /\ c_pos + j = e + k
        BY <1>11, <2>1, <2>2, <3>2, <4>1
      <4> QED
        BY <2>1, <4>2
    <3> QED
      BY <2>2, <3>1, <3>2
  <2> QED
    BY <2>1, <2>2, <2>3, <2>4
<1>20. PICK z, y : z = Len(q) /\ y = c_pos'
  OBVIOUS
<1>21. /\ e \in Nat /\ m \in Nat /\ f \in Nat /\ z \in Nat /\ v \in 0 .. 3 /\ d \in 1 .. 2
       /\ f = e + d + 4 + v /\ f <= z /\ y = e + m /\ y <= z
  <2>1. e \in Nat /\ d \in 1 .. 2 /\ v \in 0 .. 3
    BY <1>11, Zenon
  <2>2. f = e + d + 4 + v
    BY <1>11, Zenon
  <2>3. f <= z /\ z \in Nat
    BY <1>11, <1>20, Zenon
  <2>4. m \in Nat /\ y = e + m /\ y <= z
    BY <1>13, <1>20, Zenon
  <2>5. f \in Nat
    BY <2>1, <2>2
  <2> QED
    BY <2>1, <2>2, <2>3, <2>4, <2>5
<1>14. Parses(b, q, e, d)
  <2>1. Len(b) > 0 /\ \A k \in 1 .. Len(b) : b[k] = q[e + k]
    BY <1>12, <1>13
  <2> QED
    BY <1>11, <1>13, <2>1, LineFacts
<1>15. reads' = IF f = e + m THEN i ELSE -1
  <2>1. i \in DOMAIN rsp.ends /\ rsp.ends[i] = f
    BY <1>7, <1>9, <1>11 DEF Segmented, EndAt
  <2>2. c_pos + n = e + m
    BY <1>11, <1>13
  <2> QED
    BY <1>3, <1>8, <2>1, <2>2 DEF Connection!Counted
<1>16. /\ got.body = Before(rsp, reads) /\ got.body \in Seq(Alphabet) /\ Len(got.body) \in Nat
       /\ Before(rsp, reads) \in Seq(Connection!Bytes)
  <2>1. got \in Bodies /\ got.body = Before(rsp, reads)
    BY <1>5, <1>6 DEF ConnectionTypes, Aligned
  <2>2. got.body \in Seq(Alphabet)
    BY <2>1, BodyTypes
  <2>3. Before(rsp, reads) \in Seq(Connection!Bytes)
    BY <1>7, <1>9 DEF Growing
  <2> QED
    BY <2>1, <2>2, <2>3
<1>17. CASE m <= d + 1
  <2>1. p.state = "more"
    BY <1>2, <1>12, <1>14, <1>17 DEF Parses
  <2>2. buf' = <<>> /\ c_pc' = "line" /\ got' = got
    BY <1>3, <2>1 DEF Lines
  <2>3. reads' = -1
    <3>1. f # e + m
      BY <1>17, <1>21
    <3> QED
      BY <1>15, <3>1
  <2>4. CASE m >= d
    <3>1. (m = d /\ c_pos' + 1 = e + d + 1) \/ (m = d + 1 /\ c_pos' + 1 = e + d + 2)
      BY <1>17, <1>20, <1>21, <2>4
    <3>2. c_pos' < Len(q)
      BY <1>17, <1>20, <1>21
    <3>3. q[c_pos' + 1] \notin Connection!Bits
      <4>1. q[e + d + 1] = "cr" /\ q[e + d + 2] = "lf" /\ q = rsp.wire
        BY <1>11
      <4> QED
        BY <3>1, <4>1, ByteFacts
    <3>4. Stuck'
      <4>1. q = rsp.wire
        BY <1>11
      <4> QED
        BY <1>5, <2>2, <3>2, <3>3, <4>1 DEF Stuck
    <3> QED
      BY <2>3, <3>4 DEF Advanced, Doomed
  <2>5. CASE m < d
    <3>1. d = 2 /\ m = 1 /\ v > 1
      BY <1>11, <1>13, <2>5
    <3>2. i \in 1 .. ChunkCount(rsp)
      BY <1>9, <1>11, <3>1
    <3>3. Len(ChunkOf(rsp, i)) > 1 /\ c_pos' = EndAt(rsp, i - 1) + 1
               /\ got'.body = Before(rsp, i - 1)
      BY <1>9, <1>11, <1>13, <1>16, <2>2, <3>1
    <3>4. Late'
      BY <1>5, <2>2, <3>2, <3>3 DEF Late
    <3> QED
      BY <2>3, <3>4 DEF Advanced, Doomed
  <2> QED
    BY <1>11, <1>13, <2>4, <2>5
<1>18. CASE m >= d + 2
  <2>1. PICK l, t : l = m - d - 2 /\ t = p.rest
    OBVIOUS
  <2>2. /\ l \in Nat /\ p.state = "finished" /\ p.content_len = v /\ t \in Seq(Later)
        /\ Len(t) = l
        /\ \A k \in 1 .. l : t[k] = q[e + d + 2 + k]
    <3>1. l \in Nat
      BY <1>11, <1>13, <1>18, <2>1
    <3> QED
      BY <1>2, <1>11, <1>12, <1>14, <1>18, <2>1, <3>1 DEF Parses
  <2>3. Later \subseteq Alphabet
    BY DEF Alphabet
  <2>4. CASE v <= l - 2
    <3>1. /\ got'.body = got.body \o SubSeq(t, 1, v) /\ buf' = SubSeq(t, v + 1, l - 2)
          /\ IF v = 0 THEN Returned("ok") ELSE c_pc' = "line" /\ result' = "none"
      BY <1>3, <2>1, <2>2, <2>4 DEF Lines
    <3>2. v \in 0 .. Len(t) /\ v \in Nat
      BY <1>11, <2>2, <2>4
    <3>3. Appended(got.body, t, v)
      BY <1>16, <2>2, <2>3, <3>2, AppendFacts
    <3>4. PICK r : r = got'.body
      OBVIOUS
    <3>5. /\ r \in Seq(Alphabet) /\ Len(r) = Len(got.body) + v
          /\ \A k \in 1 .. Len(got.body) : r[k] = got.body[k]
          /\ \A k \in 1 .. v : r[Len(got.body) + k] = t[k]
      BY <3>1, <3>3, <3>4 DEF Appended
    <3>6. CASE v = 0
      <4>1. i = ChunkCount(rsp) + 1 /\ f = Len(q)
        BY <1>7, <1>11, <3>6 DEF Segmented
      <4>2. f = e + m
        <5>1. l = m - d - 2 /\ l \in Nat /\ v <= l - 2 /\ v = 0 /\ f = z
          BY <1>20, <2>1, <2>2, <2>4, <3>6, <4>1
        <5> QED
          BY <1>21, <5>1
      <4>3. reads' = ChunkCount(rsp) + 1
        BY <1>15, <4>1, <4>2
      <4>4. Before(rsp, reads) = rsp.body
        BY <1>7, <1>8, <1>9, <4>1 DEF Growing
      <4>5. got'.body = rsp.body
        <5>1. PICK s : s = got.body
          OBVIOUS
        <5>2. s \in Seq(Alphabet) /\ Len(r) = Len(s) /\ \A k \in 1 .. Len(r) : r[k] = s[k]
          BY <1>16, <3>5, <3>6, <5>1
        <5>3. r = s
          BY <3>5, <5>2, SameSequence
        <5> QED
          BY <1>16, <3>4, <4>4, <5>1, <5>3
      <4> QED
        BY <3>1, <3>6, <4>3, <4>5 DEF Advanced
    <3>7. CASE v # 0
      <4>1. c_pc' = "line" /\ result' = "none" /\ i \in 1 .. ChunkCount(rsp)
        BY <1>9, <1>11, <3>1, <3>7
      <4>2. CASE f = e + m
        <5>1. reads' = i
          BY <1>15, <4>2
        <5>2. l - 2 = v
          <6>1. l = m - d - 2 /\ l \in Nat
            BY <2>1, <2>2
          <6> QED
            BY <1>21, <4>2, <6>1
        <5>3. buf' = <<>>
          BY <2>2, <3>1, <3>2, <5>2
        <5>4. got'.body = Before(rsp, i)
          <6>1. PICK s, u : s = Before(rsp, reads) /\ u = Before(rsp, i)
            OBVIOUS
          <6>2. u = s \o c /\ s \in Seq(Connection!Bytes) /\ c \in Seq(Connection!Bytes)
            BY <1>7, <1>9, <1>11, <1>16, <4>1, <6>1 DEF Growing
          <6>3. /\ u \in Seq(Connection!Bytes) /\ Len(u) = Len(s) + Len(c) /\ Len(s) \in Nat
                /\ \A k \in 1 .. Len(s) : u[k] = s[k]
                /\ \A k \in 1 .. Len(c) : u[Len(s) + k] = c[k]
            BY <6>2, Joined
          <6>4. u \in Seq(Alphabet)
            <7>1. Connection!Bytes \subseteq Alphabet
              BY DEF Alphabet, Later
            <7> QED
              BY <6>3, <7>1
          <6>5. /\ Len(r) = Len(s) + v /\ \A k \in 1 .. Len(s) : r[k] = s[k]
                /\ \A k \in 1 .. v : r[Len(s) + k] = t[k]
            BY <1>16, <3>5, <6>1
          <6>6. \A k \in 1 .. v : t[k] = c[k]
            <7>1. \A k \in 1 .. v : k \in 1 .. l
              BY <1>11, <2>2, <2>4
            <7> QED
              BY <1>11, <2>2, <7>1
          <6>7. ASSUME NEW k \in 1 .. Len(r) PROVE r[k] = u[k]
            <7>1. CASE k <= Len(s)
              <8>1. k \in 1 .. Len(s)
                BY <6>3, <7>1
              <8> QED
                BY <6>3, <6>5, <8>1
            <7>2. CASE k > Len(s)
              <8>1. PICK j : j = k - Len(s)
                OBVIOUS
              <8>2. j \in 1 .. v /\ Len(s) + j = k
                BY <1>11, <6>3, <6>5, <7>2, <8>1
              <8>3. j \in 1 .. Len(c)
                BY <1>11, <8>2
              <8> QED
                BY <6>3, <6>5, <6>6, <8>2, <8>3
            <7> QED
              BY <6>3, <7>1, <7>2
          <6>8. Len(r) = Len(u)
            BY <1>11, <6>3, <6>5
          <6>9. r = u
            BY <3>5, <6>4, <6>7, <6>8, SameSequence
          <6> QED
            BY <3>4, <6>1, <6>9
        <5>5. reads' \in 0 .. ChunkCount(rsp) /\ reads' >= 0
          BY <1>9, <4>1, <5>1
        <5>6. Aligned'
          <6>1. Len(buf') = 0 /\ c_pos' = EndAt(rsp, i) + 0
            BY <1>11, <1>13, <4>2, <5>3
          <6>2. \A k \in 1 .. 0 : FALSE
            OBVIOUS
          <6> QED
            BY <1>5, <5>1, <5>4, <5>5, <6>1, <6>2 DEF Aligned
        <5> QED
          BY <4>1, <5>5, <5>6 DEF Advanced
      <4>3. CASE f # e + m
        <5>1. reads' = -1
          BY <1>15, <4>3
        <5>2. v < l - 2 /\ l - 2 \in Nat /\ l - 2 <= Len(t)
          <6>1. l = m - d - 2 /\ l \in Nat /\ v <= l - 2 /\ f # e + m
            BY <2>1, <2>2, <2>4, <4>3
          <6>2. v < l - 2 /\ l - 2 \in Nat /\ l - 2 <= l
            BY <1>21, <6>1
          <6> QED
            BY <2>2, <6>2
        <5>3. buf' # <<>> /\ buf'[1] = t[v + 1]
          BY <2>2, <3>1, <3>2, <5>2, LeftBehind
        <5>4. t[v + 1] = "cr"
          <6>1. v + 1 \in 1 .. l /\ e + d + 2 + (v + 1) = e + d + 3 + v
            <7>1. v + 1 <= l
              <8>1. l \in Nat
                BY <2>2
              <8> QED
                BY <1>21, <5>2, <8>1
            <7>2. l \in Nat
              BY <2>2
            <7> QED
              BY <1>21, <7>1, <7>2
          <6>2. q[e + d + 3 + v] = "cr"
            BY <1>11
          <6>3. t[v + 1] = q[e + d + 2 + (v + 1)]
            BY <2>2, <6>1
          <6> QED
            BY <6>1, <6>2, <6>3
        <5>5. Stuck'
          BY <4>1, <5>3, <5>4, ByteFacts DEF Stuck
        <5> QED
          BY <5>1, <5>5 DEF Advanced, Doomed
      <4> QED
        BY <4>2, <4>3
    <3> QED
      BY <3>6, <3>7
  <2>5. CASE v > l - 2
    <3>1. /\ buf' = <<>>
          /\ IF l < 2 THEN Returned("length_error") /\ got' = got
             ELSE c_pc' = "raw" /\ got'.left = v - (l - 2)
      BY <1>3, <2>1, <2>2, <2>5 DEF Lines
    <3>2. reads' = -1
      <4>1. f # e + m
        <5>1. l = m - d - 2 /\ v > l - 2
          BY <2>1, <2>5
        <5> QED
          BY <1>21, <5>1
      <4> QED
        BY <1>15, <4>1
    <3>3. CASE l < 2
      BY <3>1, <3>2, <3>3 DEF Advanced, Doomed, Wrong, Returned
    <3>4. CASE ~ (l < 2)
      <4>1. c_pc' = "raw" /\ got'.left = v - (l - 2)
        BY <3>1, <3>4
      <4>2. got'.left > 0 /\ c_pos' + got'.left = e + d + 4 + v /\ c_pos' + got'.left <= Len(q)
        <5>1. PICK w : w = got'.left
          OBVIOUS
        <5>2. w = v - (l - 2) /\ l = m - d - 2 /\ l \in Nat /\ v > l - 2
          BY <2>1, <2>2, <2>5, <4>1, <5>1
        <5>3. w > 0 /\ y + w = e + d + 4 + v
          BY <1>21, <5>2
        <5> QED
          BY <1>20, <1>21, <5>1, <5>3
      <4>3. Cut'
        <5>1. q[e + d + 4 + v] = "lf" /\ q = rsp.wire
          BY <1>11
        <5>2. q[c_pos' + got'.left] \notin Connection!Bytes
          BY <4>2, <5>1, ByteFacts
        <5> QED
          BY <1>5, <3>1, <4>1, <4>2, <5>1, <5>2 DEF Cut
      <4> QED
        BY <3>2, <4>3 DEF Advanced, Doomed
    <3> QED
      BY <3>3, <3>4
  <2> QED
    BY <1>11, <2>2, <2>4, <2>5
<1> QED
  BY <1>11, <1>13, <1>17, <1>18

\* ReadLine leaves what its readers rely on.
LEMMA NextReadLine ==
  ASSUME Connection!ConnectionAssumption, ConnectionInv, NEW n, Connection!ReadLine(n)
  PROVE  ConnectionInv'
<1>1. PICK b : b = buf \o Connection!Take(n)
  OBVIOUS
<1>2. PICK p : p = Connection!Parsed(b)
  OBVIOUS
<1>3. ConnectionTypes' /\ Lines(p) /\ reads' = Connection!Counted(c_pos + n)
  BY <1>1, <1>2, LineOutcome
<1>4. Buffered(n, b)
  BY <1>1, BufferedFacts
<1>5. rsp.kind = "chunked" /\ ConnectionTypes /\ c_pc = "line" /\ rsp' = rsp /\ c_pos' >= 2
  BY <1>4 DEF Buffered, ConnectionInv
<1>6. Segmented(rsp)
  BY <1>5, OnWireFacts
<1>7. p.state \in {"error", "more", "finished"} /\ p.content_len \in Nat /\ Len(p.rest) \in Nat
  <2>1. b \in Seq(Later) /\ Len(b) > 0
    BY <1>4 DEF Buffered
  <2>2. p.rest \in Seq(Later) /\ p.state \in {"error", "more", "finished"} /\ p.content_len \in Nat
    BY <1>2, <2>1, HoldFacts DEF ParsedHolds
  <2> QED
    BY <2>2
<1>8. /\ c_pc' \in {"line", "raw", "done"} /\ (c_pc' = "raw" => buf' = <<>>)
      /\ result' # "underrun"
      /\ c_pc' # "done" => result' = "none"
  <2>1. CASE p.state = "error"
    BY <1>3, <2>1 DEF Lines, Returned
  <2>2. CASE p.state = "more"
    BY <1>3, <2>2 DEF Lines
  <2>3. CASE p.state = "finished" /\ p.content_len <= Len(p.rest) - 2
    <3>1. IF p.content_len = 0 THEN Returned("ok") ELSE c_pc' = "line" /\ result' = "none"
      BY <1>3, <2>3 DEF Lines
    <3> QED
      BY <3>1 DEF Returned
  <2>4. CASE p.state = "finished" /\ p.content_len > Len(p.rest) - 2
    <3>1. /\ buf' = <<>>
          /\ \/ Returned("length_error")
             \/ c_pc' = "raw" /\ result' = "none"
      BY <1>3, <2>4 DEF Lines
    <3> QED
      BY <3>1 DEF Returned
  <2>5. p.content_len <= Len(p.rest) - 2 \/ p.content_len > Len(p.rest) - 2
    BY <1>7
  <2> QED
    BY <1>7, <2>1, <2>2, <2>3, <2>4, <2>5
<1>9. Heading' /\ Declared'
  <2>1. rsp'.kind # "length" /\ c_pc' # "head"
    BY <1>5, <1>8
  <2> QED
    BY <2>1 DEF Heading, Declared
<1>10. reads \in -1 .. ChunkCount(rsp) + 1 /\ ChunkCount(rsp) \in Nat
  BY <1>5, <1>6 DEF ConnectionInv, Chunked, Segmented
<1>11. Advanced
  <2>1. CASE reads >= 0
    BY <2>1, LineAligned
  <2>2. CASE reads = -1
    <3>1. reads' = -1
      <4>1. reads + 1 \notin DOMAIN rsp.ends
        BY <1>6, <2>2 DEF Segmented
      <4> QED
        BY <1>3, <4>1 DEF Connection!Counted
    <3>2. Doomed
      BY <1>5, <2>2 DEF ConnectionInv, Chunked
    <3>3. Polluted \/ Stuck \/ Late
      BY <1>5, <3>2 DEF Doomed, Cut, Wrong
    <3>4. Doomed'
      BY <3>3, LinePolluted, LineStuck, LineLate DEF Doomed
    <3> QED
      BY <3>1, <3>4 DEF Advanced
  <2> QED
    BY <1>10, <2>1, <2>2
<1>12. Chunked'
  <2>1. CASE reads' = -1 /\ Doomed'
    BY <1>5, <1>8, <1>10, <2>1 DEF Chunked
  <2>2. CASE /\ reads' >= 0 /\ reads' \in 0 .. ChunkCount(rsp) /\ c_pc' = "line" /\ result' = "none"
             /\ Aligned'
    BY <1>5, <1>8, <1>10, <2>2 DEF Chunked
  <2>3. CASE reads' = ChunkCount(rsp) + 1 /\ Returned("ok") /\ got'.body = rsp.body
    BY <1>5, <1>8, <1>10, <2>3 DEF Chunked, Returned
  <2> QED
    BY <1>11, <2>1, <2>2, <2>3 DEF Advanced
<1> QED
  BY <1>3, <1>9, <1>12 DEF ConnectionInv

\* ReadRaw: the rest of a chunk that was cut, which only happens behind a read
\* that ended elsewhere.
LEMMA NextReadRaw ==
  ASSUME Connection!ConnectionAssumption, ConnectionInv, NEW n, Connection!ReadRaw(n)
  PROVE  ConnectionInv'
<1>1. /\ c_pc = "raw" /\ Connection!Reads(n, Connection!Min({got.left, c_buff_size}))
      /\ got' = [got EXCEPT !.body = @ \o Connection!Take(n), !.left = @ - n]
      /\ c_pc' = (IF got.left = n THEN "line" ELSE "raw")
      /\ UNCHANGED <<buf, result, c_misses, reads>>
  BY DEF Connection!ReadRaw
<1>2. ConnectionTypes
  BY DEF ConnectionInv
<1>3. rsp.kind = "chunked"
  BY <1>1, <1>2, OnWireFacts DEF ConnectionInv, Declared
<1>4. c_pos >= 2 /\ buf = <<>> /\ result # "underrun" /\ reads = -1 /\ Doomed
  BY <1>1, <1>3 DEF ConnectionInv, Chunked
<1>5. /\ n \in Nat \ {0} /\ n \in 1 .. Connection!Min({got.left, c_buff_size})
      /\ c_pos' = c_pos + n
      /\ c_pos' <= Len(rsp.wire) /\ UNCHANGED <<rsp, c_sent, c_peer>>
      /\ Connection!Take(n) \in Seq(Alphabet)
      /\ Len(Connection!Take(n)) = n
      /\ \A k \in 1 .. n : Connection!Take(n)[k] = rsp.wire[c_pos + k]
  BY <1>1, <1>2, ReadFacts
<1>6. PICK q, x, y, t : q = got.body /\ x = got.at /\ y = got.left /\ t = Connection!Take(n)
  OBVIOUS
<1>7. q \in Seq(Alphabet) /\ x \in Int /\ y \in Nat /\ got = [body |-> q, at |-> x, left |-> y]
  BY <1>2, <1>6 DEF ConnectionTypes, Bodies
<1>8. n <= y
  <2>1. c_buff_size \in Nat
    BY DEF Connection!ConnectionAssumption
  <2>2. Connection!Min({y, c_buff_size}) <= y /\ Connection!Min({y, c_buff_size}) \in Nat
    <3>1. {y, c_buff_size} \subseteq Nat /\ {y, c_buff_size} # {}
      BY <1>7, <2>1
    <3>2. \E a \in {y, c_buff_size} : \A c \in {y, c_buff_size} : a <= c
      BY <3>1, Least
    <3>3. Connection!Min({y, c_buff_size}) \in {y, c_buff_size}
               /\ \A c \in {y, c_buff_size} : Connection!Min({y, c_buff_size}) <= c
      BY <3>2, Zenon DEF Connection!Min
    <3> QED
      BY <3>1, <3>3
  <2> QED
    BY <1>5, <1>6, <1>7, <2>2
<1>9. got' = [body |-> q \o t, at |-> x, left |-> y - n]
  BY <1>1, <1>6, <1>7
<1>10. /\ q \o t \in Seq(Alphabet) /\ Len(q \o t) = Len(q) + n
       /\ \A k \in 1 .. Len(q) : (q \o t)[k] = q[k]
       /\ \A k \in 1 .. n : (q \o t)[Len(q) + k] = t[k]
  <2>1. q \in Seq(Alphabet) /\ t \in Seq(Alphabet) /\ Len(t) = n
    BY <1>5, <1>6, <1>7
  <2>2. ASSUME NEW u \in Seq(Alphabet), NEW v \in Seq(Alphabet)
        PROVE  /\ u \o v \in Seq(Alphabet) /\ Len(u \o v) = Len(u) + Len(v)
               /\ \A k \in 1 .. Len(u) : (u \o v)[k] = u[k]
               /\ \A k \in 1 .. Len(v) : (u \o v)[Len(u) + k] = v[k]
    BY Joined
  <2>3. /\ q \o t \in Seq(Alphabet) /\ Len(q \o t) = Len(q) + Len(t)
        /\ \A k \in 1 .. Len(q) : (q \o t)[k] = q[k]
        /\ \A k \in 1 .. Len(t) : (q \o t)[Len(q) + k] = t[k]
    BY <2>1, <2>2, Zenon
  <2> QED
    BY <2>1, <2>3
<1>11. PICK r : r = q \o t
  OBVIOUS
<1>12. /\ r \in Seq(Alphabet) /\ Len(r) = Len(q) + n /\ \A k \in 1 .. Len(q) : r[k] = q[k]
       /\ \A k \in 1 .. n : r[Len(q) + k] = rsp.wire[c_pos + k]
  BY <1>5, <1>6, <1>10, <1>11
<1>13. got' \in Bodies /\ got'.body = r /\ got'.left = y - n
  <2>1. y - n \in Nat
    BY <1>5, <1>7, <1>8
  <2> QED
    BY <1>7, <1>9, <1>11, <1>12, <2>1 DEF Bodies
<1>14. result = "none" /\ c_pc' \in {"line", "raw"}
  BY <1>1, <1>2 DEF ConnectionTypes
<1>15. ConnectionTypes'
  <2>1. /\ c_pc' \in ConnectionPlaces /\ buf' \in Seq(Later) /\ Len(buf') < c_buff_size
        /\ c_misses' \in 0 .. MaxTimeouts /\ reads' \in Int /\ result' \in Outcomes
        /\ (result' = "none") = (c_pc' # "done")
    BY <1>1, <1>2, <1>14 DEF ConnectionTypes, ConnectionPlaces, Outcomes
  <2> QED
    BY <1>1, <1>2, <1>13, <2>1, ReadTypes
<1>16. Heading' /\ Declared'
  <2>1. rsp'.kind # "length" /\ c_pc' # "head"
    BY <1>3, <1>5, <1>14
  <2> QED
    BY <2>1 DEF Heading, Declared
<1>17. c_pos' >= 2
  BY <1>2, <1>4, <1>5 DEF ConnectionTypes
<1>18. Polluted \/ Cut
  BY <1>1, <1>4, <1>14 DEF Doomed, Stuck, Late, Wrong
<1>19. Doomed'
  <2>1. CASE Polluted
    <3>1. Len(q) <= Len(r)
      BY <1>5, <1>7, <1>12
    <3>2. Polluted'
      BY <1>6, <1>7, <1>12, <1>13, <2>1, <3>1, KeepPolluted
    <3> QED
      BY <3>2 DEF Doomed
  <2>2. CASE Cut
    <3>1. PICK w, z : w = rsp.wire /\ z = Len(w)
      OBVIOUS
    <3>2. z \in Nat /\ c_pos \in Nat
      BY <1>2, <3>1, OnWireFacts DEF Headed, ConnectionTypes
    <3>3. /\ c_pos + y <= z
          /\ w[c_pos + y] \notin Connection!Bytes
               \/ (c_pos + y < z /\ w[c_pos + y + 1] \notin Connection!Bits)
      BY <1>6, <2>2, <3>1 DEF Cut
    <3>4. CASE n < y
      <4>1. c_pos' + (y - n) = c_pos + y /\ y - n > 0 /\ y # n
        <5>1. n \in Nat /\ c_pos' = c_pos + n
          BY <1>5
        <5>2. \A a, c, d \in Nat : c < d => a + c + (d - c) = a + d /\ d - c > 0 /\ d # c
          OBVIOUS
        <5> QED
          BY <1>7, <3>2, <3>4, <5>1, <5>2
      <4>2. c_pc' = "raw" /\ buf' = <<>> /\ rsp'.wire = w
        BY <1>1, <1>4, <1>5, <1>6, <3>1, <4>1
      <4>3. Cut'
        BY <1>13, <3>1, <3>3, <4>1, <4>2 DEF Cut
      <4> QED
        BY <4>3 DEF Doomed
    <3>5. CASE n = y
      <4>1. c_pos' = c_pos + y /\ c_pc' = "line" /\ buf' = <<>> /\ rsp'.wire = w
        BY <1>1, <1>4, <1>5, <1>6, <3>1, <3>5
      <4>2. CASE w[c_pos + y] \notin Connection!Bytes
        <5>1. PICK k : k = Len(q) + n
          OBVIOUS
        <5>2. k \in DOMAIN r /\ r[k] = w[c_pos + n]
          <6>1. Len(q) \in Nat /\ n \in 1 .. n
            BY <1>5, <1>7
          <6>2. k \in 1 .. Len(r)
            BY <1>5, <1>12, <5>1, <6>1
          <6> QED
            BY <1>12, <3>1, <5>1, <6>1, <6>2
        <5>3. Polluted'
          BY <1>13, <3>5, <4>2, <5>2 DEF Polluted
        <5> QED
          BY <5>3 DEF Doomed
      <4>3. CASE c_pos + y < z /\ w[c_pos + y + 1] \notin Connection!Bits
        <5>1. Stuck'
          BY <3>1, <4>1, <4>3 DEF Stuck
        <5> QED
          BY <5>1 DEF Doomed
      <4> QED
        BY <3>3, <4>2, <4>3
    <3> QED
      BY <1>5, <1>7, <1>8, <3>4, <3>5
  <2> QED
    BY <1>18, <2>1, <2>2
<1>20. Chunked'
  <2>1. ChunkCount(rsp) \in Nat
    BY <1>2, OnWireFacts DEF Growing
  <2> QED
    BY <1>1, <1>3, <1>4, <1>5, <1>14, <1>17, <1>19, <2>1 DEF Chunked
<1> QED
  BY <1>15, <1>16, <1>20 DEF ConnectionInv

-----------------------------------------------------------------------------
(* The receiver as a whole.                                                *)

\* The invariant holds at the start, after every step of the peer and of the
\* receiver, and while other parts of the system move; it says what the runs check.
LEMMA ConnectionInit ==
  ASSUME Connection!ConnectionAssumption, Connection!Init
  PROVE  ConnectionInv
<1>1. /\ rsp \in {Connection!OnWire(r) : r \in Responses}
      /\ c_pos = 0 /\ c_sent = Len(rsp.wire) /\ c_peer = "open" /\ c_pc = "head" /\ buf = <<>>
      /\ got = [body |-> <<>>, at |-> 0, left |-> 0]
      /\ result = "none" /\ c_misses = 0 /\ reads = 0
  BY DEF Connection!Init
<1>2. PICK r \in Responses : rsp = Connection!OnWire(r)
  BY <1>1
<1>3. Headed(rsp)
  BY <1>2, HeadFacts
<1>4. got \in Bodies
  BY <1>1 DEF Bodies
<1>5. ConnectionTypes
  <2>1. c_sent \in Nat /\ c_pos \in Nat /\ c_pos <= c_sent /\ c_sent <= Len(rsp.wire)
    BY <1>1, <1>3 DEF Headed
  <2>2. buf \in Seq(Later) /\ Len(buf) < c_buff_size /\ c_misses \in 0 .. MaxTimeouts
    BY <1>1 DEF Connection!ConnectionAssumption
  <2> QED
    BY <1>1, <1>4, <2>1, <2>2 DEF ConnectionTypes, ConnectionPlaces, Outcomes
<1>6. Heading
  BY <1>1 DEF Heading
<1>7. Declared
  BY <1>1 DEF Declared
<1>8. Chunked
  <2>1. ChunkCount(rsp) \in Nat
    BY <1>5, OnWireFacts DEF Growing
  <2> QED
    BY <1>1, <2>1 DEF Chunked
<1> QED
  BY <1>5, <1>6, <1>7, <1>8 DEF ConnectionInv

\* Every step of the receiver keeps the invariant.
LEMMA ConnectionNext ==
  ASSUME Connection!ConnectionAssumption, ConnectionInv, Connection!Next
  PROVE  ConnectionInv'
<1>1. CASE Connection!PeerCloses
  BY <1>1, NextPeerCloses
<1>2. ASSUME NEW n \in 1 .. Len(rsp.wire), Connection!ReadHead(n) PROVE ConnectionInv'
  BY <1>2, ConnectionReadHead
<1>3. ASSUME NEW n \in 1 .. Len(rsp.wire), Connection!ReadLine(n) PROVE ConnectionInv'
  BY <1>3, NextReadLine
<1>4. ASSUME NEW n \in 1 .. Len(rsp.wire), Connection!ReadRaw(n) PROVE ConnectionInv'
  BY <1>4, NextReadRaw
<1>5. ASSUME NEW n \in 1 .. Len(rsp.wire), Connection!ReadFix(n) PROVE ConnectionInv'
  BY <1>5, ConnectionReadFix
<1>6. CASE Connection!MissFix
  BY <1>6, ConnectionMissFix
<1>7. CASE Connection!Fail
  BY <1>7, ConnectionFail
<1> QED
  BY <1>1, <1>2, <1>3, <1>4, <1>5, <1>6, <1>7 DEF Connection!Next, Connection!Receive

\* So does a step of others.
LEMMA ConnectionStay == ASSUME ConnectionInv, UNCHANGED Connection!vars PROVE ConnectionInv'
<1>1. UNCHANGED <<rsp, c_pos, c_pc, buf, got, result, c_misses, reads>>
           /\ UNCHANGED <<c_sent, c_peer>>
  BY DEF Connection!vars
<1>2. Heading' /\ Declared' /\ Chunked'
  BY <1>1, Idles DEF ConnectionInv
<1>3. ConnectionTypes'
  BY <1>1 DEF ConnectionInv, ConnectionTypes
<1> QED
  BY <1>2, <1>3 DEF ConnectionInv

\* What it says of the module's invariants.
LEMMA ConnectionTells ==
  ASSUME Connection!ConnectionAssumption, ConnectionInv
  PROVE  Connection!TypeOK /\ Connection!BodyExact
<1>1. ConnectionTypes /\ Heading /\ Declared /\ Chunked
  BY DEF ConnectionInv
<1>2. /\ Headed(rsp) /\ rsp.kind \in {"length", "chunked"} /\ Growing(rsp)
      /\ rsp.kind = "chunked" => Segmented(rsp)
  BY <1>1, OnWireFacts
<1>3. Connection!TypeOK
  <2>1. c_pos \in 0 .. c_sent /\ c_sent <= Len(rsp.wire)
    BY <1>1 DEF ConnectionTypes
  <2>2. buf \in Seq(Connection!Bits \cup Connection!ToSet(Connection!CRLF) \cup Connection!Bytes)
    <3>1. Later \subseteq Connection!Bits \cup Connection!ToSet(Connection!CRLF) \cup Connection!Bytes
      <4>1. Connection!CRLF[1] = "cr" /\ Connection!CRLF[2] = "lf"
                 /\ DOMAIN Connection!CRLF = 1 .. 2
        BY DEF Connection!CRLF
      <4>2. "cr" \in Connection!ToSet(Connection!CRLF) /\ "lf" \in Connection!ToSet(Connection!CRLF)
        BY <4>1 DEF Connection!ToSet
      <4> QED
        BY <4>2 DEF Later
    <3>2. buf \in Seq(Later)
      BY <1>1 DEF ConnectionTypes
    <3> QED
      BY <3>1, <3>2
  <2>3. got.left \in Nat
    BY <1>1 DEF ConnectionTypes, Bodies
  <2> QED
    BY <1>1, <2>1, <2>2, <2>3 DEF ConnectionTypes, ConnectionPlaces, Outcomes, Connection!TypeOK
<1>4. rsp.kind = "length" =>
        /\ result = "ok" => (Connection!Whole <=> reads = 0) /\ c_misses = 0
        /\ result # "length_error" /\ (result = "underrun" => c_misses > 0)
  BY <1>1 DEF Declared, Connection!Whole
<1>5. ASSUME rsp.kind = "chunked"
      PROVE  /\ Connection!Whole <=> reads = Len(rsp.ends)
             /\ result = "length_error" => reads = -1
             /\ result # "underrun"
  <2>1. Len(rsp.ends) = ChunkCount(rsp) + 1 /\ ChunkCount(rsp) \in Nat
    BY <1>2, <1>5 DEF Segmented
  <2>2. reads \in -1 .. ChunkCount(rsp) + 1 /\ result # "underrun"
    BY <1>1, <1>5 DEF Chunked
  <2>3. c_pc = "done" <=> result # "none"
    BY <1>1 DEF ConnectionTypes
  <2>4. CASE reads = -1
    <3>1. Doomed
      BY <1>1, <1>5, <2>4 DEF Chunked
    <3>2. ASSUME Connection!Whole PROVE FALSE
      <4>1. c_pc = "done" /\ result = "ok" /\ got.body = rsp.body
        BY <2>3, <3>2 DEF Connection!Whole
      <4>2. Polluted
        BY <3>1, <4>1 DEF Doomed, Stuck, Late, Cut, Wrong
      <4>3. rsp.body \in Seq(Connection!Bytes)
        BY <1>2 DEF Growing
      <4> QED
        BY <4>1, <4>2, <4>3 DEF Polluted
    <3> QED
      BY <2>1, <2>2, <2>4, <3>2
  <2>5. CASE reads >= 0
    <3>1. result # "length_error"
      BY <1>1, <1>5, <2>5 DEF Chunked
    <3>2. reads = ChunkCount(rsp) + 1 => Connection!Whole
      <4> SUFFICES ASSUME reads = ChunkCount(rsp) + 1 PROVE Connection!Whole
        OBVIOUS
      <4>1. c_pc = "done"
        <5>1. c_pc = "head" => reads = 0
          BY <1>1, <1>5 DEF Heading
        <5>2. c_pc # "line"
          <6>1. c_pc = "line" => reads \in 0 .. ChunkCount(rsp)
            BY <1>1, <1>5, <2>5 DEF Chunked, Aligned
          <6> QED
            BY <2>1, <6>1
        <5>3. c_pc # "raw" /\ c_pc # "fix"
          BY <1>1, <1>5, <2>5 DEF Chunked
        <5> QED
          BY <1>1, <2>1, <5>1, <5>2, <5>3 DEF ConnectionTypes, ConnectionPlaces
      <4> QED
        BY <1>1, <1>5, <2>5, <4>1 DEF Chunked, Connection!Whole
    <3>3. Connection!Whole => reads = ChunkCount(rsp) + 1
      BY <1>1, <1>5, <2>3, <2>5 DEF Chunked, Connection!Whole
    <3> QED
      BY <2>1, <2>2, <3>1, <3>2, <3>3
  <2> QED
    BY <2>2, <2>4, <2>5
<1> QED
  BY <1>2, <1>3, <1>4, <1>5 DEF Connection!BodyExact
-----------------------------------------------------------------------------
(* The theorems of the two instances. *)

\* The invariant of the client's receiver holds in every behaviour of it.
LEMMA ConnectionInvariance ==
  Connection!ConnectionAssumption => (Connection!Spec => []ConnectionInv)
<1>1. Connection!ConnectionAssumption /\ Connection!Init => ConnectionInv
  BY ConnectionInit
<1>2. Connection!ConnectionAssumption /\ ConnectionInv /\ [Connection!Next]_(Connection!vars)
        => ConnectionInv'
  BY ConnectionNext, ConnectionStay
<1>3. Connection!ConnectionAssumption => Connection!ConnectionAssumption'
  BY DEF Connection!ConnectionAssumption
<1> QED
  BY <1>1, <1>2, <1>3, PTL DEF Connection!Spec

\* BodyExact: the body that recvResponse returns is the one that was sent, for
\* responses of any length and any number of chunks, cut by reads as they come;
\* what a timeout in the middle of it can do is what BodyExact names.
THEOREM ConnectionCorrect ==
  Connection!ConnectionAssumption
    => (Connection!Spec => [](Connection!TypeOK /\ Connection!BodyExact))
<1>1. Connection!ConnectionAssumption /\ ConnectionInv
        => Connection!TypeOK /\ Connection!BodyExact
  BY ConnectionTells
<1>2. Connection!ConnectionAssumption => Connection!ConnectionAssumption'
  BY DEF Connection!ConnectionAssumption
<1> QED
  BY <1>1, <1>2, ConnectionInvariance, PTL

\* The invariant of the server's session holds in every behaviour of it.
LEMMA SessionInvariance == Session!SessionAssumption => (Session!Spec => []SessionInv)
<1>1. Session!SessionAssumption /\ Session!Init => SessionInv
  BY SessionInit
<1>2. Session!SessionAssumption /\ SessionInv /\ [Session!Next]_(Session!vars) => SessionInv'
  BY SessionNext, SessionStay
<1>3. Session!SessionAssumption => Session!SessionAssumption'
  BY DEF Session!SessionAssumption
<1> QED
  BY <1>1, <1>2, <1>3, PTL DEF Session!Spec

\* AnswersExact: handleClient answers the requests of a conversation in order
\* and each with its own body, for conversations of any length; what a timeout
\* or a client that goes can do is what AnswersExact names.
THEOREM SessionCorrect ==
  Session!SessionAssumption => (Session!Spec => [](Session!TypeOK /\ Session!AnswersExact))
<1>1. Session!SessionAssumption /\ SessionInv => Session!TypeOK /\ Session!AnswersExact
  BY SessionTells
<1>2. Session!SessionAssumption => Session!SessionAssumption'
  BY DEF Session!SessionAssumption
<1> QED
  BY <1>1, <1>2, SessionInvariance, PTL
=============================================================================
