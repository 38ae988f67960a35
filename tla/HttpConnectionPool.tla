------------------------- MODULE HttpConnectionPool -------------------------
(***************************************************************************)
(* HttpConnectionPool: requests of several threads over the connections of *)
(* one pool, and a peer that answers in order, closes, or falls silent.    *)
(* A response is received as HttpConnection describes: whole, without its  *)
(* body when a read ended inside its length header, not at all, or never.  *)
(***************************************************************************)
EXTENDS Integers, Sequences, FiniteSets, SequencesExt

CONSTANTS
  Threads,        \* the callers of doRequest
  MaxRequests,    \* bound: requests of one thread
  m_maxSize,      \* never read
  m_maxRequest, m_maxAliveTime,
  CurrentMS       \* GetCurrentMS(): the time since 1970
PoolAssumption ==
  /\ IsFiniteSet(Threads) /\ MaxRequests \in Nat /\ m_maxRequest \in Nat
  /\ m_maxSize \in Nat
ClockAssumption == \* m_maxAliveTime has 32 bits, that is 49 days
  /\ m_maxAliveTime \in Nat /\ CurrentMS \in Nat /\ m_maxAliveTime < CurrentMS

NULL  == 0
Conns == 1 .. Cardinality(Threads) * MaxRequests

VARIABLES
  m_conns,  \* the idle connections
  m_total,
  conn,     \* of each connection: [state, isConnected, m_request]
  pc,       \* of each thread: its place in doRequest
  ptr,      \* of each thread: the connection it holds
  invalid,  \* of each thread: invalid_conns
  request,  \* of each thread: [n, reused, result, to, body] of its last one
  keeps,    \* does the peer keep connections open (HttpServer does not)
  peer,     \* of each connection: "open", "fin" or "rst"
  asked,    \* of each connection: the requests the peer has to answer
  wire      \* of each connection: the parts of responses to be read
poolVars == <<m_conns, m_total, conn>>
peerVars == <<keeps, peer, asked, wire>>
vars == <<m_conns, m_total, conn, pc, ptr, invalid, request, keeps, peer, asked, wire>>

m_createTime == 0 \* HttpConnection: set nowhere else
TooOld     == m_createTime + m_maxAliveTime > CurrentMS
OldEnough  == m_createTime + m_maxAliveTime >= CurrentMS
Live       == {c \in Conns : conn[c].state = "live"}
Held       == {ptr[t] : t \in Threads} \ {NULL}

Init ==
  /\ m_conns = <<>> /\ m_total = 0
  /\ conn = [c \in Conns |-> [state |-> "none", isConnected |-> FALSE, m_request |-> 0]]
  /\ pc = [t \in Threads |-> "idle"] /\ ptr = [t \in Threads |-> NULL]
  /\ invalid = [t \in Threads |-> {}]
  /\ request = [t \in Threads |->
       [n |-> 0, reused |-> FALSE, result |-> "OK", to |-> <<t, 0>>, body |-> TRUE]]
  /\ keeps \in BOOLEAN
  /\ peer = [c \in Conns |-> "open"]
  /\ asked = [c \in Conns |-> <<>>] /\ wire = [c \in Conns |-> <<>>]

Goto(t, place) == pc' = [pc EXCEPT ![t] = place]

(* getConnection: the first idle connection that is connected and not too  *)
(* old, and the ones in front of it, are taken out under the lock.         *)
Usable(c) == conn[c].isConnected /\ ~ TooOld
GetConnection(t) ==
  LET i == SelectInSeq(m_conns, Usable)
      k == IF i = 0 THEN Len(m_conns) ELSE i IN
  /\ pc[t] = "idle" /\ request[t].n < MaxRequests /\ Goto(t, "drop")
  /\ m_conns' = SubSeq(m_conns, k + 1, Len(m_conns))
  /\ ptr' = [ptr EXCEPT ![t] = IF i = 0 THEN NULL ELSE m_conns[i]]
  /\ invalid' = [invalid EXCEPT ![t] = {c \in ToSet(SubSeq(m_conns, 1, k)) : ~ Usable(c)}]
  /\ request' = [request EXCEPT ![t] =
       [n |-> @.n + 1, reused |-> i # 0, result |-> "none", to |-> <<>>, body |-> FALSE]]
  /\ UNCHANGED <<m_total, conn, peerVars>>

(* Deleted connections: what was under way on them is gone.                *)
Broken(S) ==
  /\ peer' = [c \in Conns |-> IF c \in S THEN "fin" ELSE peer[c]]
  /\ asked' = [c \in Conns |-> IF c \in S THEN <<>> ELSE asked[c]]
  /\ wire' = [c \in Conns |-> IF c \in S THEN <<>> ELSE wire[c]]
Drop(t) ==
  /\ pc[t] = "drop" /\ Goto(t, IF ptr[t] = NULL THEN "connect" ELSE "send")
  /\ conn' = [c \in Conns |->
       IF c \in invalid[t] THEN [conn[c] EXCEPT !.state = "deleted"] ELSE conn[c]]
  /\ Broken(invalid[t])
  /\ m_total' = m_total - Cardinality(invalid[t])
  /\ invalid' = [invalid EXCEPT ![t] = {}]
  /\ UNCHANGED <<m_conns, ptr, request, keeps>>

(* A new connection, and m_total's increment behind it.                    *)
Connect(t) ==
  /\ pc[t] = "connect" /\ Goto(t, "count")
  /\ \E c \in Conns :
       /\ conn[c].state = "none" /\ \A d \in 1 .. c - 1 : conn[d].state # "none"
       /\ ptr' = [ptr EXCEPT ![t] = c]
       /\ conn' = [conn EXCEPT ![c] = [state |-> "live", isConnected |-> TRUE, m_request |-> 0]]
  /\ UNCHANGED <<m_conns, m_total, invalid, request, peerVars>>
ConnectFails(t) ==
  /\ pc[t] = "connect" /\ Goto(t, "idle")
  /\ request' = [request EXCEPT ![t].result = "POOL_GET_CONNECTION"]
  /\ UNCHANGED <<poolVars, ptr, invalid, peerVars>>
Count(t) ==
  /\ pc[t] = "count" /\ Goto(t, "send") /\ m_total' = m_total + 1
  /\ UNCHANGED <<m_conns, conn, ptr, invalid, request, peerVars>>

(* sendRequest: writeFixSize repeats a write that fails for ever.          *)
SendRequest(t) ==
  LET c == ptr[t] IN
  /\ pc[t] = "send"
  /\ \/ peer[c] # "rst" /\ Goto(t, "recv")
        /\ asked' = IF peer[c] = "fin" THEN asked
                    ELSE [asked EXCEPT ![c] = Append(@, <<t, request[t].n>>)]
     \/ peer[c] = "rst" /\ Goto(t, "spin") /\ UNCHANGED asked
  /\ UNCHANGED <<poolVars, ptr, invalid, request, keeps, peer, wire>>

(* recvResponse returns a response, with its body or with the body left on *)
(* the wire.                                                               *)
RecvResponse(t) ==
  LET c == ptr[t]
      w == wire[c] IN
  /\ pc[t] = "recv" /\ w # <<>> /\ w[1].part = "head" /\ Goto(t, "release")
  /\ \E whole \in {Len(w) >= 2, FALSE} :
       /\ wire' = [wire EXCEPT ![c] = SubSeq(w, IF whole THEN 3 ELSE 2, Len(w))]
       /\ request' = [request EXCEPT ![t] =
            [@ EXCEPT !.result = "OK", !.to = w[1].to, !.body = whole]]
  /\ UNCHANGED <<poolVars, ptr, invalid, keeps, peer, asked>>
(* It closes the connection: a timeout, the end of the stream, or bytes    *)
(* that are no head.                                                       *)
RecvFails(t) ==
  LET c == ptr[t] IN
  /\ pc[t] = "recv" /\ Goto(t, "release")
  /\ request' = [request EXCEPT ![t].result = "TIMEOUT"]
  /\ conn' = [conn EXCEPT ![c].isConnected = FALSE]
  /\ wire' = [wire EXCEPT ![c] = <<>>] /\ asked' = [asked EXCEPT ![c] = <<>>]
  /\ UNCHANGED <<m_conns, m_total, ptr, invalid, keeps, peer>>
(* It never returns: a timeout inside the body.                            *)
RecvSpins(t) ==
  /\ pc[t] = "recv" /\ wire[ptr[t]] # <<>> /\ wire[ptr[t]][1].part = "head"
  /\ Goto(t, "spin")
  /\ UNCHANGED <<poolVars, ptr, invalid, request, peerVars>>

\* Mutant of Reusable: the connection is not tested.
ReusableAlways(c) == conn[c].m_request + 1 < m_maxRequest
\* Mutant of Reusable: the requests are not counted.
ReusableForEver(c) == conn[c].isConnected /\ ~ OldEnough
(* ReleasePtr: the connection is deleted, or goes back to the list.        *)
Reusable(c) ==
  conn[c].isConnected /\ ~ OldEnough /\ conn[c].m_request + 1 < m_maxRequest
Release(t) ==
  LET c == ptr[t] IN
  /\ pc[t] = "release" /\ ptr' = [ptr EXCEPT ![t] = NULL]
  /\ conn' = [conn EXCEPT ![c] =
       [conn[c] EXCEPT !.m_request = @ + 1, !.state = IF Reusable(c) THEN @ ELSE "deleted"]]
  /\ IF Reusable(c) THEN m_conns' = Append(m_conns, c) /\ Goto(t, "idle")
     ELSE UNCHANGED m_conns /\ Goto(t, "uncount")
  /\ Broken(IF Reusable(c) THEN {} ELSE {c})
  /\ UNCHANGED <<m_total, invalid, request, keeps>>
Uncount(t) ==
  /\ pc[t] = "uncount" /\ Goto(t, "idle") /\ m_total' = m_total - 1
  /\ UNCHANGED <<m_conns, conn, ptr, invalid, request, peerVars>>

(* The peer answers the oldest request, then keeps the connection or not;  *)
(* it may also close it in order or not.                                   *)
Answer(c) ==
  /\ peer[c] = "open" /\ asked[c] # <<>>
  /\ LET to == Head(asked[c]) IN
     wire' = [wire EXCEPT ![c] = @ \o <<[to |-> to, part |-> "head"],
                                        [to |-> to, part |-> "body"]>>]
  /\ asked' = [asked EXCEPT ![c] = Tail(@)]
  /\ peer' = [peer EXCEPT ![c] = IF keeps THEN "open" ELSE "fin"]
  /\ UNCHANGED <<poolVars, pc, ptr, invalid, request, keeps>>
Close(c, how) ==
  /\ c \in Live /\ peer[c] = "open" /\ peer' = [peer EXCEPT ![c] = how]
  /\ asked' = [asked EXCEPT ![c] = <<>>]
  /\ wire' = IF how = "fin" THEN wire ELSE [wire EXCEPT ![c] = <<>>]
  /\ UNCHANGED <<poolVars, pc, ptr, invalid, request, keeps>>

Step(t) ==
  \/ Drop(t) \/ Connect(t) \/ ConnectFails(t) \/ Count(t) \/ SendRequest(t)
  \/ RecvResponse(t) \/ RecvFails(t) \/ RecvSpins(t) \/ Release(t) \/ Uncount(t)
Next ==
  \/ \E t \in Threads : GetConnection(t) \/ Step(t)
  \/ \E c \in Conns : Answer(c) \/ \E how \in {"fin", "rst"} : Close(c, how)

(* A thread runs on; a read returns or times out.                          *)
Fairness == \A t \in Threads : WF_vars(Step(t))
Spec == Init /\ [][Next]_vars /\ Fairness
-----------------------------------------------------------------------------
(* The variables have their types.                                         *)
TypeOK ==
  /\ m_conns \in Seq(Conns) /\ m_total \in Int
  /\ conn \in [Conns -> [state: {"none", "live", "deleted"}, isConnected: BOOLEAN,
                         m_request: 0 .. IF m_maxRequest = 0 THEN 1 ELSE m_maxRequest]]
  /\ pc \in [Threads -> {"idle", "drop", "connect", "count", "send", "recv",
                         "release", "uncount", "spin"}]
  /\ ptr \in [Threads -> Conns \cup {NULL}]
  /\ \A t \in Threads : invalid[t] \subseteq Conns /\ request[t].n \in 0 .. MaxRequests
  /\ peer \in [Conns -> {"open", "fin", "rst"}]

(* Where a connection is: in the list once, or held by one thread, and     *)
(* then not deleted; m_total counts them but for the steps in between.     *)
At(place) == Cardinality({t \in Threads : pc[t] = place})
OnePlace ==
  /\ IsInjective(m_conns) /\ ToSet(m_conns) \cap Held = {}
  /\ \A t, u \in Threads : ptr[t] = ptr[u] /\ ptr[t] # NULL => t = u
  /\ Live = ToSet(m_conns) \cup Held
  /\ m_total = Cardinality(Live) - At("count") + At("uncount")

(* PoolExact: no connection is lost, listed twice or used by two threads,  *)
(* although they are counted and deleted outside the lock.  m_maxSize      *)
(* bounds nothing; what does is that there are never more connections than *)
(* threads, a new one being made for a list that was empty.  A listed      *)
(* connection is always connected, as far as this side knows, so           *)
(* getConnection drops none.  Whatever is returned is the response to that *)
(* request: a late or half-read one never reaches another request.  With a *)
(* peer that closes behind each answer, no request on a reused connection  *)
(* gets one: its failure is reported as a timeout.                         *)
PoolExact ==
  /\ OnePlace
  /\ Cardinality(Live) <= Cardinality(Threads)
  /\ \A c \in ToSet(m_conns) : conn[c].isConnected
  /\ \A t \in Threads : request[t].result = "OK" =>
       request[t].to = <<t, request[t].n>> /\ (request[t].reused => keeps)

(* Returns: every request returns, unless the connection broke under its   *)
(* send or a read timed out inside the body of its response.               *)
Returns == \A t \in Threads : pc[t] # "idle" ~> pc[t] \in {"idle", "spin"}
=============================================================================
