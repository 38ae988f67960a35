--------------------------- MODULE ServicesProofs ---------------------------
(***************************************************************************)
(* The safety properties of TcpServer, Config and Log, and with those of   *)
(* HttpProofs the ones of the composite Services, for any values of the    *)
(* constants that ServicesAssumption allows.                               *)
(*                                                                         *)
(* TcpServer: AcceptExact rests on where the sockets of m_socks can be,    *)
(* all open until the task of stop() takes them over, then closed from the *)
(* front (SocketsTaken); a server that was never started too early has no  *)
(* task while it runs (ServerRunning).                                     *)
(*                                                                         *)
(* Config: whoever sets a value has told it to the listeners in front of   *)
(* the one that is next (Following).                                       *)
(*                                                                         *)
(* Log: while a reload goes on, the loggers in front of the one that is    *)
(* next are as in the new file, the others as before (LogPartly).          *)
(***************************************************************************)
EXTENDS Services, HttpProofs, FiniteSetTheorems, WellFoundedInduction, TLAPS

-----------------------------------------------------------------------------
(* TcpServer: the sockets, their loops and the clients that wait.          *)

\* The types of the variables; counters are bounded elsewhere.
SocketStates == {"none", "open", "cancelled", "closing", "closed"}
LoopPlaces == {"none", "test", "accept", "park", "wait", "end"}
LoopRecords == [pc: LoopPlaces, sock: Socks]
ServerTypes ==
  /\ m_isStop \in BOOLEAN /\ m_socks \in Seq(Socks) /\ closing \in Seq(Socks)
  /\ sock \in [Socks -> SocketStates] /\ loop \in [Server!Loops -> LoopRecords]
  /\ tasks \in Nat /\ starts \in Nat /\ fault \in BOOLEAN

\* A loop that has not ended.
LoopActive(l) == loop[l].pc \notin {"none", "end"}
\* A socket is listed once.
SocketsOnce == \A i, j \in DOMAIN m_socks : m_socks[i] = m_socks[j] => i = j
\* Every socket that is listed or has a loop has been bound.
SocketsBound ==
  /\ \A s \in Server!ToSet(m_socks) : sock[s] # "none"
  /\ \A l \in Server!Loops : LoopActive(l) => sock[loop[l].sock] # "none"
\* The listed sockets are open until the task of stop() closes them in turn.
SocketsTaken ==
  /\ closing = <<>> => \A s \in Server!ToSet(m_socks) : sock[s] = "open"
  /\ closing # <<>> =>
       /\ Server!ToSet(closing) \subseteq Server!ToSet(m_socks)
       /\ \A s \in Server!ToSet(m_socks) \ Server!ToSet(closing) : sock[s] = "closed"
\* Only a failed bind() drops a socket that stays open.
SocketsOrphaned == \A s \in Socks : Server!Orphan(s) => "refused" \in history
\* While the server runs, no task of stop() is left, and the sockets of the
\* loops are open.
ServerRunning ==
  "overlap" \notin history /\ ~ m_isStop =>
    /\ tasks = 0 /\ closing = <<>>
    /\ \A l \in Server!Loops : LoopActive(l) => sock[loop[l].sock] # "closed"
\* A socket has one loop, and addEvent's assertion holds.
SocketsSingle ==
  "overlap" \notin history =>
    /\ ~ fault
    /\ \A l, k \in Server!Loops :
         LoopActive(l) /\ LoopActive(k) /\ loop[l].sock = loop[k].sock => l = k

\* The inductive invariant.
ServerInv ==
  /\ ServerTypes /\ SocketsOnce /\ SocketsBound /\ SocketsTaken /\ SocketsOrphaned
  /\ ServerRunning
  /\ SocketsSingle

-----------------------------------------------------------------------------
(* Facts about records, sequences and loops. *)

\* The records of the loops.
LEMMA LoopFacts ==
  /\ \A r \in LoopRecords : r.pc \in LoopPlaces /\ r.sock \in Socks
  /\ \A r \in LoopRecords, p \in LoopPlaces :
       /\ [r EXCEPT !.pc = p] \in LoopRecords
       /\ [r EXCEPT !.pc = p].pc = p /\ [r EXCEPT !.pc = p].sock = r.sock
  /\ \A p \in LoopPlaces, s \in Socks : [pc |-> p, sock |-> s] \in LoopRecords
  BY DEF LoopRecords

\* Finite sets are the same for the instance, and so is what counts them.
LEMMA ServerSets ==
  /\ \A S : Server!Cardinality(S) = Cardinality(S)
  /\ \A S : Server!IsFiniteSet(S) <=> IsFiniteSet(S)
  /\ \A f : Server!IsInjective(f) <=> IsInjective(f)
<1>1. \A S : Server!IsFiniteSet(S) <=> IsFiniteSet(S)
  BY Zenon DEF Server!IsFiniteSet, IsFiniteSet
<1>2. \A S : Server!Cardinality(S) = Cardinality(S)
  BY <1>1, Zenon DEF Server!Cardinality, Cardinality, Server!IsFiniteSet, IsFiniteSet
<1>3. \A f : Server!IsInjective(f) <=> IsInjective(f)
  BY Zenon DEF Server!IsInjective, IsInjective
<1> QED
  BY <1>1, <1>2, <1>3

\* The sockets are finitely many, and so are starts and clients.
LEMMA SocketSets ==
  Server!ServerAssumption => IsFiniteSet(Socks) /\ MaxStarts \in Nat /\ MaxClients \in Nat
  BY ServerSets DEF Server!ServerAssumption

\* SetToSeq lists the elements of a finite set once each.
LEMMA SocketsListed ==
  ASSUME NEW S, IsFiniteSet(S)
  PROVE  /\ Server!SetToSeq(S) \in Seq(S) /\ Server!ToSet(Server!SetToSeq(S)) = S
         /\ \A i, j \in DOMAIN Server!SetToSeq(S) : Server!SetToSeq(S)[i] = Server!SetToSeq(S)[j] => i = j
<1>1. Cardinality(S) \in Nat /\ ExistsBijection(1 .. Cardinality(S), S)
  BY FS_CardinalityType
<1>2. PICK g : g \in Bijection(1 .. Cardinality(S), S)
  BY <1>1 DEF ExistsBijection
<1>3. g \in [1 .. Cardinality(S) -> S] /\ Server!IsInjective(g)
  BY <1>2 DEF Bijection, Injection, Server!IsInjective, IsInjective
<1> DEFINE q == Server!SetToSeq(S)
<1>4. q \in [1 .. Cardinality(S) -> S] /\ Server!IsInjective(q)
  <2>1. Server!Cardinality(S) = Cardinality(S)
    BY ServerSets
  <2> QED
    BY <1>3, <2>1, Zenon DEF Server!SetToSeq
<1> HIDE DEF q
<1>5. IsFiniteSet(1 .. Cardinality(S)) /\ Cardinality(1 .. Cardinality(S)) = Cardinality(S)
  <2>1. 1 \in Int /\ Cardinality(S) \in Int
    BY <1>1
  <2> QED
    BY <1>1, <2>1, FS_Interval
<1>6. q \in Surjection(1 .. Cardinality(S), Server!ToSet(q))
  BY <1>4 DEF Surjection, Server!ToSet
<1>7. q \in Injection(1 .. Cardinality(S), Server!ToSet(q))
  BY <1>4 DEF Injection, Server!IsInjective, IsInjective, Server!ToSet
<1>8. IsFiniteSet(Server!ToSet(q)) /\ Cardinality(Server!ToSet(q)) = Cardinality(S)
  BY <1>5, <1>6, <1>7, FS_Surjection
<1>9. Server!ToSet(q) \in SUBSET S
  BY <1>4 DEF Server!ToSet
<1>10. Server!ToSet(q) = S
  BY <1>8, <1>9, FS_Subset
<1> QED
  BY <1>1, <1>4, <1>10 DEF q, Server!IsInjective

\* The sockets behind the first one.
LEMMA TailSockets ==
  ASSUME NEW q \in Seq(Socks), q # <<>>
  PROVE  /\ Head(q) \in Socks /\ Head(q) \in Server!ToSet(q) /\ Tail(q) \in Seq(Socks)
         /\ Server!ToSet(Tail(q)) \subseteq Server!ToSet(q)
         /\ Server!ToSet(q) = Server!ToSet(Tail(q)) \cup {Head(q)}
         /\ (Len(q) = 1 => Tail(q) = <<>>) /\ (Tail(q) = <<>> => Len(q) = 1)
<1>1. /\ Head(q) \in Socks /\ Tail(q) \in Seq(Socks) /\ Len(q) \in Nat \ {0}
      /\ DOMAIN q = 1 .. Len(q) /\ Head(q) = q[1] /\ Len(Tail(q)) = Len(q) - 1
      /\ DOMAIN Tail(q) = 1 .. Len(q) - 1
      /\ \A i \in 1 .. Len(q) - 1 : Tail(q)[i] = q[i + 1]
  OBVIOUS
<1>2. Head(q) \in Server!ToSet(q) /\ Server!ToSet(Tail(q)) \subseteq Server!ToSet(q)
  BY <1>1 DEF Server!ToSet
<1>3. ASSUME NEW s \in Server!ToSet(q), s # Head(q) PROVE s \in Server!ToSet(Tail(q))
  <2>1. PICK i \in DOMAIN q : q[i] = s
    BY DEF Server!ToSet
  <2>2. i - 1 \in DOMAIN Tail(q) /\ Tail(q)[i - 1] = s
    BY <1>1, <1>3, <2>1
  <2> QED
    BY <2>2 DEF Server!ToSet
<1>4. (Len(q) = 1 => Tail(q) = <<>>) /\ (Tail(q) = <<>> => Len(q) = 1)
  <2>1. \A r \in Seq(Socks) : Len(r) = 0 <=> r = <<>>
    OBVIOUS
  <2>2. Len(Tail(q)) = 0 <=> Tail(q) = <<>>
    BY <1>1, <2>1
  <2>3. Len(Tail(q)) = 0 <=> Len(q) = 1
    BY <1>1
  <2> QED
    BY <2>2, <2>3
<1> QED
  BY <1>1, <1>2, <1>3, <1>4

\* A set of sockets closed: one that is closed stays so, and the others are
\* as they were.
LEMMA ClosedFacts ==
  ASSUME ServerTypes, NEW S
  PROVE  /\ Server!Closed(S) \in [Socks -> SocketStates]
         /\ \A s \in Socks : /\ s \in S => Server!Closed(S)[s] = "closed"
                             /\ s \notin S => Server!Closed(S)[s] = sock[s]
                             /\ sock[s] = "closed" => Server!Closed(S)[s] = "closed"
  BY DEF Server!Closed, ServerTypes, SocketStates

\* A loop that holds a socket is an active one.
LEMMA HoldsLoop ==
  /\ \A l, s : Server!Holds(l, s) <=> LoopActive(l) /\ loop[l].sock = s
  /\ \A s : Server!Used(s) <=> \E l \in Server!Loops : LoopActive(l) /\ loop[l].sock = s
  BY DEF Server!Holds, Server!Used, LoopActive

\* Loops that are woken.
LEMMA WokenFacts ==
  ASSUME ServerTypes, NEW s
  PROVE  /\ Server!Woken(s) \in [Server!Loops -> LoopRecords]
         /\ \A l \in Server!Loops : /\ Server!Woken(s)[l].sock = loop[l].sock
                                    /\ Server!Woken(s)[l].pc = loop[l].pc
                                       \/ (loop[l].pc = "wait" /\ Server!Woken(s)[l].pc = "accept")
<1>1. "accept" \in LoopPlaces
  BY DEF LoopPlaces
<1>2. \A l \in Server!Loops : loop[l] \in LoopRecords
  BY DEF ServerTypes
<1>3. ASSUME NEW l \in Server!Loops
      PROVE  /\ Server!Woken(s)[l] \in LoopRecords /\ Server!Woken(s)[l].sock = loop[l].sock
             /\ Server!Woken(s)[l].pc = loop[l].pc
                \/ (loop[l].pc = "wait" /\ Server!Woken(s)[l].pc = "accept")
  BY <1>1, <1>2, LoopFacts DEF Server!Woken
<1>4. Server!Woken(s) \in [Server!Loops -> LoopRecords]
  BY <1>3 DEF Server!Woken
<1> QED
  BY <1>3, <1>4

\* A loop that goes from one place to another.
LEMMA GotoFacts ==
  ASSUME ServerTypes, NEW l \in Server!Loops, NEW p \in LoopPlaces, Server!Goto(l, p)
  PROVE  /\ loop' \in [Server!Loops -> LoopRecords]
         /\ loop'[l].pc = p /\ \A k \in Server!Loops : loop'[k].sock = loop[k].sock
         /\ \A k \in Server!Loops \ {l} : loop'[k].pc = loop[k].pc
<1>1. loop' = [loop EXCEPT ![l] = [loop[l] EXCEPT !.pc = p]]
  BY DEF Server!Goto
<1>2. loop[l] \in LoopRecords
  BY DEF ServerTypes
<1> QED
  BY <1>1, <1>2, LoopFacts DEF ServerTypes

\* Steps that leave the sockets alone and end no wait but an active loop's keep
\* the invariant.
LEMMA SocketsSame ==
  ASSUME ServerInv, ServerTypes', UNCHANGED <<m_isStop, m_socks, sock, tasks, closing, history>>,
         \A l \in Server!Loops : loop'[l].sock = loop[l].sock /\ (LoopActive(l)' => LoopActive(l)),
         "overlap" \notin history => ~ fault'
  PROVE  ServerInv'
<1> USE DEF ServerInv
<1>1. SocketsOnce' /\ SocketsTaken' /\ SocketsOrphaned'
  BY DEF SocketsOnce, SocketsTaken, SocketsOrphaned, Server!Orphan
<1>2. SocketsBound' /\ ServerRunning' /\ SocketsSingle'
  BY DEF SocketsBound, ServerRunning, SocketsSingle
<1> QED
  BY <1>1, <1>2

-----------------------------------------------------------------------------
(* Every step keeps the invariant. *)

\* start(): no loop is left of the time before, or it is too early.
LEMMA NextStart == ASSUME Server!ServerAssumption, ServerInv, Server!Start PROVE ServerInv'
<1> USE DEF ServerInv
<1> DEFINE n == starts * Cardinality(Socks)
           i(l) == l - n
<1>1. /\ m_isStop /\ m_isStop' = FALSE /\ starts' = starts + 1
      /\ loop' = [l \in Server!Loops |-> IF i(l) \in DOMAIN m_socks
                                  THEN [pc |-> "test", sock |-> m_socks[i(l)]] ELSE loop[l]]
      /\ history' = IF Server!Stopping THEN history \cup {"overlap"} ELSE history
      /\ UNCHANGED <<m_socks, sock, tasks, closing, waiting, handled, fault>>
  <2>1. Server!Cardinality(Socks) = Cardinality(Socks)
    BY ServerSets
  <2> QED
    BY <2>1 DEF Server!Start
<1>2. /\ m_socks \in Seq(Socks) /\ DOMAIN m_socks = 1 .. Len(m_socks)
      /\ \A j \in DOMAIN m_socks : m_socks[j] \in Socks /\ m_socks[j] \in Server!ToSet(m_socks)
  BY DEF ServerTypes, Server!ToSet
<1>3. n \in Int /\ \A l \in Server!Loops : l \in Int
  <2>1. Cardinality(Socks) \in Nat
    BY FS_CardinalityType, SocketSets
  <2>2. Server!Cardinality(Socks) = Cardinality(Socks)
    BY ServerSets
  <2> QED
    BY <2>1, <2>2 DEF ServerTypes, Server!Loops
<1> HIDE DEF n
<1>4. ASSUME NEW l \in Server!Loops
      PROVE  \/ /\ i(l) \in DOMAIN m_socks /\ loop'[l] \in LoopRecords
                /\ loop'[l].pc = "test" /\ loop'[l].sock = m_socks[i(l)]
             \/ loop'[l] = loop[l]
  BY <1>1, <1>2, LoopFacts DEF LoopPlaces
<1>5. ServerTypes'
  <2>1. loop' \in [Server!Loops -> LoopRecords]
    BY <1>1, <1>4 DEF ServerTypes
  <2>2. starts' \in Nat
    <3>1. starts \in Nat /\ starts' = starts + 1
      BY <1>1 DEF ServerTypes
    <3> QED
      BY <3>1
  <2>3. m_isStop' \in BOOLEAN
    BY <1>1
  <2> QED
    BY <1>1, <2>1, <2>2, <2>3 DEF ServerTypes
<1>6. SocketsOnce' /\ SocketsTaken'
  BY <1>1 DEF SocketsOnce, SocketsTaken
<1>7. SocketsBound'
  BY <1>1, <1>2, <1>4 DEF SocketsBound, LoopActive
<1>8. SocketsOrphaned'
  BY <1>1 DEF SocketsOrphaned, Server!Orphan
<1>9. ASSUME "overlap" \notin history'
      PROVE  /\ "overlap" \notin history /\ tasks = 0 /\ closing = <<>>
             /\ \A l \in Server!Loops : ~ LoopActive(l)
  <2>1. ~ Server!Stopping
    BY <1>1, <1>9
  <2>2. tasks = 0 /\ closing = <<>> /\ \A s \in Socks : ~ Server!Used(s)
    BY <2>1 DEF Server!Stopping, ServerTypes
  <2>3. \A l \in Server!Loops : loop[l].sock \in Socks
    BY LoopFacts DEF ServerTypes
  <2> QED
    BY <1>1, <1>9, <2>2, <2>3, HoldsLoop
<1>10. ASSUME "overlap" \notin history', NEW l \in Server!Loops, LoopActive(l)'
       PROVE  i(l) \in DOMAIN m_socks /\ loop'[l].sock = m_socks[i(l)]
  BY <1>4, <1>9, <1>10 DEF LoopActive
<1>11. ServerRunning'
  BY <1>1, <1>2, <1>9, <1>10 DEF ServerRunning, SocketsTaken
<1>12. SocketsSingle'
  <2>1. \A l, k \in Server!Loops : i(l) = i(k) => l = k
    BY <1>3
  <2> QED
    BY <1>1, <1>9, <1>10, <2>1 DEF SocketsSingle, SocketsOnce
<1> QED
  BY <1>5, <1>6, <1>7, <1>8, <1>11, <1>12

\* stop() leaves its task behind.
LEMMA NextStop == ASSUME ServerInv, Server!Stop PROVE ServerInv'
  BY DEF ServerInv, Server!Stop, ServerTypes, SocketsOnce, SocketsBound, SocketsTaken,
     SocketsOrphaned, Server!Orphan, ServerRunning, SocketsSingle, LoopActive

\* bind() lists sockets that are new, or drops them all.
LEMMA NextBind ==
  ASSUME Server!ServerAssumption, ServerInv, NEW S \in SUBSET Socks, Server!Bind(S)
  PROVE  ServerInv'
<1> USE DEF ServerInv
<1>1. /\ closing = <<>> /\ \A s \in S : sock[s] = "none"
      /\ UNCHANGED <<m_isStop, loop, tasks, closing, waiting, handled, starts, fault>>
  BY DEF Server!Bind
<1>2. /\ \A s \in S : s \notin Server!ToSet(m_socks)
      /\ \A l \in Server!Loops : LoopActive(l) => loop[l].sock \notin S
  BY <1>1 DEF SocketsBound
<1>3. SocketsSingle' /\ ("overlap" \in history <=> "overlap" \in history')
  BY <1>1 DEF Server!Bind, SocketsSingle, LoopActive
<1>4. CASE /\ m_socks' = m_socks \o Server!SetToSeq(S) /\ history' = history
           /\ sock' = [s \in Socks |-> IF s \in S THEN "open" ELSE sock[s]]
  <2> DEFINE q == Server!SetToSeq(S)
  <2>1. IsFiniteSet(S)
    BY FS_Subset, SocketSets
  <2>2. /\ q \in Seq(S) /\ Server!ToSet(q) = S
        /\ \A i, j \in DOMAIN q : q[i] = q[j] => i = j
    BY <2>1, SocketsListed
  <2>3. q \in Seq(Socks)
    BY <2>2
  <2> HIDE DEF q
  <2>4. /\ m_socks' \in Seq(Socks) /\ DOMAIN m_socks' = 1 .. Len(m_socks) + Len(q)
        /\ \A i \in 1 .. Len(m_socks) : m_socks'[i] = m_socks[i]
        /\ \A i \in 1 .. Len(q) : m_socks'[Len(m_socks) + i] = q[i]
        /\ DOMAIN m_socks = 1 .. Len(m_socks) /\ DOMAIN q = 1 .. Len(q)
        /\ Len(m_socks) \in Nat /\ Len(q) \in Nat
    <3>1. m_socks \in Seq(Socks) /\ m_socks' = m_socks \o q
      BY <1>4 DEF ServerTypes, q
    <3> QED
      BY <2>3, <3>1
  <2>5. ASSUME NEW i \in DOMAIN m_socks'
        PROVE  \/ i \in DOMAIN m_socks /\ m_socks'[i] = m_socks[i]
                  /\ m_socks[i] \in Server!ToSet(m_socks)
               \/ /\ i - Len(m_socks) \in DOMAIN q /\ m_socks'[i] = q[i - Len(m_socks)]
                  /\ q[i - Len(m_socks)] \in S
    <3>1. CASE i <= Len(m_socks)
      BY <2>4, <3>1 DEF Server!ToSet
    <3>2. CASE ~ i <= Len(m_socks)
      <4>1. i - Len(m_socks) \in 1 .. Len(q) /\ Len(m_socks) + (i - Len(m_socks)) = i
        BY <2>4, <3>2
      <4> QED
        BY <2>2, <2>4, <4>1 DEF Server!ToSet
    <3> QED
      BY <3>1, <3>2
  <2>6. Server!ToSet(m_socks') = Server!ToSet(m_socks) \cup S
    <3>1. Server!ToSet(m_socks') \subseteq Server!ToSet(m_socks) \cup S
      BY <2>5 DEF Server!ToSet
    <3>2. Server!ToSet(m_socks) \subseteq Server!ToSet(m_socks')
      BY <2>4 DEF Server!ToSet
    <3>3. ASSUME NEW s \in S PROVE s \in Server!ToSet(m_socks')
      <4>1. PICK i \in DOMAIN q : q[i] = s
        BY <2>2 DEF Server!ToSet
      <4>2. Len(m_socks) + i \in DOMAIN m_socks' /\ m_socks'[Len(m_socks) + i] = s
        BY <2>4, <4>1
      <4> QED
        BY <4>2 DEF Server!ToSet
    <3> QED
      BY <3>1, <3>2, <3>3
  <2>7. SocketsOnce'
    <3> SUFFICES ASSUME NEW i \in DOMAIN m_socks', NEW j \in DOMAIN m_socks',
                        m_socks'[i] = m_socks'[j]
                 PROVE  i = j
      BY DEF SocketsOnce
    <3>1. i \in Int /\ j \in Int /\ Len(m_socks) \in Int
      BY <2>4
    <3> QED
      BY <1>2, <2>2, <2>5, <3>1 DEF SocketsOnce
  <2>8. /\ \A s \in S : sock'[s] = "open"
        /\ \A s \in Socks \ S : sock'[s] = sock[s]
        /\ sock' \in [Socks -> SocketStates]
    BY <1>4 DEF ServerTypes, SocketStates
  <2>9. ServerTypes'
    BY <1>1, <2>4, <2>8 DEF ServerTypes
  <2>10. Server!ToSet(m_socks) \subseteq Socks /\ \A l \in Server!Loops : loop[l].sock \in Socks
    BY LoopFacts DEF ServerTypes, Server!ToSet
  <2>11. SocketsBound'
    <3>1. \A s \in Server!ToSet(m_socks') : sock'[s] # "none"
      BY <2>6, <2>8, <2>10 DEF SocketsBound
    <3>2. ASSUME NEW l \in Server!Loops, LoopActive(l)' PROVE sock'[loop'[l].sock] # "none"
      <4>1. LoopActive(l) /\ loop' = loop
        BY <1>1, <3>2 DEF LoopActive
      <4> QED
        BY <1>2, <2>8, <2>10, <4>1 DEF SocketsBound
    <3> QED
      BY <3>1, <3>2 DEF SocketsBound
  <2>12. SocketsTaken'
    <3>1. \A s \in Server!ToSet(m_socks') : sock'[s] = "open"
      BY <1>1, <1>2, <2>6, <2>8, <2>10 DEF SocketsTaken
    <3> QED
      BY <1>1, <3>1 DEF SocketsTaken
  <2>13. SocketsOrphaned'
    BY <1>4, <2>6, <2>8 DEF SocketsOrphaned, Server!Orphan
  <2>14. ServerRunning'
    BY <1>1, <1>2, <1>4, <2>8, <2>10 DEF ServerRunning, LoopActive
  <2> QED
    BY <1>3, <2>7, <2>9, <2>11, <2>12, <2>13, <2>14
<1>5. CASE /\ m_socks' = <<>> /\ history' = history \cup {"refused"}
           /\ sock' = Server!Closed(S \cup {s \in Server!ToSet(m_socks) : ~ Server!Used(s)})
  <2> DEFINE C == S \cup {s \in Server!ToSet(m_socks) : ~ Server!Used(s)}
  <2>1. \A l \in Server!Loops : LoopActive(l) => loop[l].sock \notin C
    BY <1>2, HoldsLoop
  <2>2. sock' = Server!Closed(C)
    BY <1>5
  <2> HIDE DEF C
  <2>3. /\ sock' \in [Socks -> SocketStates]
        /\ \A l \in Server!Loops : LoopActive(l) => sock'[loop[l].sock] = sock[loop[l].sock]
    BY <2>1, <2>2, ClosedFacts, LoopFacts DEF ServerTypes
  <2>4. m_socks' \in Seq(Socks) /\ Server!ToSet(m_socks') = {} /\ SocketsOnce'
    BY <1>5 DEF Server!ToSet, SocketsOnce
  <2>5. ServerTypes'
    BY <1>1, <2>3, <2>4 DEF ServerTypes
  <2>6. SocketsBound' /\ SocketsTaken'
    BY <1>1, <2>3, <2>4 DEF SocketsBound, SocketsTaken, LoopActive
  <2>7. SocketsOrphaned'
    BY <1>5 DEF SocketsOrphaned
  <2>8. ServerRunning'
    BY <1>1, <1>5, <2>3 DEF ServerRunning, LoopActive
  <2> QED
    BY <1>3, <2>4, <2>5, <2>6, <2>7, <2>8
<1> QED
  BY <1>4, <1>5 DEF Server!Bind

\* A client wakes the loop that waits for it.
LEMMA NextConnect == ASSUME ServerInv, NEW s \in Socks, Server!Connect(s) PROVE ServerInv'
<1>1. /\ loop' = Server!Woken(s)
      /\ UNCHANGED <<m_isStop, m_socks, sock, tasks, closing, starts, fault, history>>
  BY DEF Server!Connect
<1>2. ServerTypes /\ SocketsSingle
  BY DEF ServerInv
<1>3. ServerTypes' /\ \A l \in Server!Loops : loop'[l].sock = loop[l].sock
           /\ (LoopActive(l)' => LoopActive(l))
  BY <1>1, <1>2, WokenFacts DEF ServerTypes, LoopActive
<1> QED
  BY <1>1, <1>2, <1>3, SocketsSame DEF SocketsSingle

\* The task takes the listed sockets over.
LEMMA NextStopTask == ASSUME ServerInv, Server!StopTask PROVE ServerInv'
<1> USE DEF ServerInv
<1>1. /\ tasks > 0 /\ closing = <<>> /\ closing' = m_socks /\ tasks' = tasks - 1
      /\ UNCHANGED <<m_isStop, m_socks, sock, loop, starts, fault, history>>
  BY DEF Server!StopTask
<1>2. ServerTypes' /\ SocketsOnce'
  BY <1>1 DEF ServerTypes, SocketsOnce
<1>3. SocketsBound' /\ SocketsOrphaned' /\ SocketsSingle'
  BY <1>1 DEF SocketsBound, SocketsOrphaned, Server!Orphan, SocketsSingle, LoopActive
<1>4. SocketsTaken'
  <2>1. m_socks = <<>> => Server!ToSet(m_socks) = {}
    BY DEF Server!ToSet
  <2> QED
    BY <1>1, <2>1 DEF SocketsTaken
<1>5. ServerRunning'
  BY <1>1 DEF ServerRunning, ServerTypes
<1> QED
  BY <1>2, <1>3, <1>4, <1>5

\* The events of the first socket are cancelled, by cancelAll or by close().
LEMMA NextCancel ==
  ASSUME ServerInv, closing # <<>>, NEW next \in SocketStates \ {"none", "open"},
         sock[Head(closing)] # "closed",
         sock' = [sock EXCEPT ![Head(closing)] = next], next # "closed",
         loop' = Server!Woken(Head(closing)),
         UNCHANGED <<m_isStop, m_socks, tasks, closing, starts, fault, history>>
  PROVE  ServerInv'
<1> USE DEF ServerInv
<1>1. /\ Head(closing) \in Socks
      /\ sock' \in [Socks -> SocketStates] /\ sock'[Head(closing)] = next
      /\ \A s \in Socks : s # Head(closing) => sock'[s] = sock[s]
  BY TailSockets DEF ServerTypes
<1>2. ServerTypes' /\ SocketsOnce'
  BY <1>1, WokenFacts DEF ServerTypes, SocketsOnce
<1>3. \A l \in Server!Loops : /\ loop'[l].sock = loop[l].sock /\ loop[l].sock \in Socks
                              /\ LoopActive(l)' => LoopActive(l)
  BY WokenFacts, LoopFacts DEF ServerTypes, LoopActive
<1>4. Server!ToSet(m_socks) \subseteq Socks /\ Server!ToSet(closing) \subseteq Socks
  BY DEF Server!ToSet, ServerTypes
<1>5. SocketsBound'
  BY <1>1, <1>3, <1>4 DEF SocketsBound
<1>6. SocketsTaken'
  <2>1. \A s \in Server!ToSet(m_socks) \ Server!ToSet(closing) : sock'[s] = "closed"
    BY <1>1, <1>4 DEF SocketsTaken
  <2> QED
    BY <2>1 DEF SocketsTaken
<1>7. SocketsOrphaned'
  BY <1>1 DEF SocketsOrphaned, Server!Orphan, SocketStates
<1>8. ServerRunning' /\ SocketsSingle'
  BY <1>3 DEF ServerRunning, SocketsSingle
<1> QED
  BY <1>2, <1>5, <1>6, <1>7, <1>8

\* A socket is closed; behind the last one the list is cleared.
LEMMA NextCloseFd == ASSUME ServerInv, Server!CloseFd PROVE ServerInv'
<1> USE DEF ServerInv
<1> DEFINE s == Head(closing)
<1>1. /\ closing # <<>> /\ sock' = Server!Closed({s}) /\ closing' = Tail(closing)
      /\ m_socks' = IF Len(closing) = 1 THEN <<>> ELSE m_socks
      /\ UNCHANGED <<m_isStop, loop, tasks, handled, starts, fault, history>>
  BY DEF Server!CloseFd
<1>2. /\ closing \in Seq(Socks) /\ s \in Socks /\ Tail(closing) \in Seq(Socks)
      /\ Server!ToSet(Tail(closing)) \subseteq Server!ToSet(closing)
      /\ Server!ToSet(closing) = Server!ToSet(Tail(closing)) \cup {s}
      /\ (Len(closing) = 1 <=> Tail(closing) = <<>>)
  BY <1>1, TailSockets DEF ServerTypes
<1>3. /\ sock' \in [Socks -> SocketStates] /\ sock'[s] = "closed"
      /\ \A r \in Socks : r # s => sock'[r] = sock[r]
  BY <1>1, <1>2, ClosedFacts
<1>4. /\ Server!ToSet(m_socks) \subseteq Socks /\ \A l \in Server!Loops : loop[l].sock \in Socks
      /\ Server!ToSet(<<>>) = {}
  BY LoopFacts DEF Server!ToSet, ServerTypes
<1>5. \A r \in Server!ToSet(m_socks) : r \in Server!ToSet(Tail(closing)) \/ sock'[r] = "closed"
  BY <1>1, <1>2, <1>3, <1>4 DEF SocketsTaken
<1> HIDE DEF s
<1>6. ServerTypes' /\ SocketsOnce'
  <2>1. m_socks' \in Seq(Socks) /\ SocketsOnce'
    BY <1>1 DEF ServerTypes, SocketsOnce
  <2> QED
    BY <1>1, <1>2, <1>3, <2>1 DEF ServerTypes
<1>7. SocketsBound'
  <2>1. \A r \in Socks : sock[r] # "none" => sock'[r] # "none"
    BY <1>3
  <2> QED
    BY <1>1, <1>4, <2>1 DEF SocketsBound, LoopActive
<1>8. ASSUME Tail(closing) = <<>> PROVE SocketsTaken' /\ SocketsOrphaned'
  <2>1. m_socks' = <<>> /\ closing' = <<>>
    BY <1>1, <1>2, <1>8
  <2>2. SocketsTaken'
    BY <1>4, <2>1 DEF SocketsTaken
  <2>3. SocketsOrphaned'
    <3> SUFFICES ASSUME NEW r \in Socks, Server!Orphan(r)' PROVE "refused" \in history
      BY <1>1 DEF SocketsOrphaned
    <3>1. sock'[r] = "open" /\ sock[r] = "open"
      BY <1>3 DEF Server!Orphan
    <3>2. r \notin Server!ToSet(m_socks)
      BY <1>4, <1>5, <1>8, <3>1
    <3> QED
      BY <3>1, <3>2 DEF SocketsOrphaned, Server!Orphan
  <2> QED
    BY <2>2, <2>3
<1>9. ASSUME Tail(closing) # <<>> PROVE SocketsTaken' /\ SocketsOrphaned'
  <2>1. m_socks' = m_socks /\ closing' # <<>> /\ closing' = Tail(closing)
    BY <1>1, <1>2, <1>9
  <2>2. SocketsTaken'
    BY <1>1, <1>2, <1>5, <2>1 DEF SocketsTaken
  <2>3. SocketsOrphaned'
    BY <1>1, <1>3, <2>1 DEF SocketsOrphaned, Server!Orphan
  <2> QED
    BY <2>2, <2>3
<1>10. ServerRunning' /\ SocketsSingle'
  BY <1>1 DEF ServerRunning, SocketsSingle, LoopActive
<1> QED
  BY <1>6, <1>7, <1>8, <1>9, <1>10

\* A loop ends, or goes on; its socket goes with the last that holds it.
LEMMA NextTest == ASSUME ServerInv, NEW l \in Server!Loops, Server!Test(l) PROVE ServerInv'
<1> USE DEF ServerInv
<1> DEFINE s == loop[l].sock
<1>1. /\ loop[l].pc = "test" /\ Server!Goto(l, IF m_isStop THEN "end" ELSE "accept")
      /\ UNCHANGED <<m_isStop, m_socks, tasks, closing, starts, fault, history>>
      /\ \/ sock' = sock
         \/ /\ m_isStop /\ sock' = Server!Closed({s}) /\ s \notin Server!ToSet(m_socks)
            /\ \A k \in Server!Loops \ {l} : ~ Server!Holds(k, s)
  BY DEF Server!Test
<1>2. /\ loop' \in [Server!Loops -> LoopRecords]
      /\ \A k \in Server!Loops : /\ loop'[k].sock = loop[k].sock /\ loop[k].sock \in Socks
                                 /\ LoopActive(k)' => LoopActive(k)
      /\ m_isStop => ~ LoopActive(l)'
  <2>1. (IF m_isStop THEN "end" ELSE "accept") \in LoopPlaces
    BY DEF LoopPlaces
  <2>2. /\ loop' \in [Server!Loops -> LoopRecords]
        /\ loop'[l].pc = IF m_isStop THEN "end" ELSE "accept"
        /\ \A k \in Server!Loops : loop'[k].sock = loop[k].sock
        /\ \A k \in Server!Loops \ {l} : loop'[k].pc = loop[k].pc
    BY <1>1, <2>1, GotoFacts
  <2> QED
    BY <1>1, <2>2, LoopFacts DEF ServerTypes, LoopActive
<1>3. CASE sock' = sock
  <2>1. ServerTypes'
    BY <1>1, <1>2, <1>3 DEF ServerTypes
  <2> QED
    BY <1>1, <1>2, <1>3, <2>1, SocketsSame DEF SocketsSingle
<1>4. CASE /\ m_isStop /\ sock' = Server!Closed({s}) /\ s \notin Server!ToSet(m_socks)
           /\ \A k \in Server!Loops \ {l} : ~ Server!Holds(k, s)
  <2>1. /\ sock' \in [Socks -> SocketStates] /\ sock'[s] = "closed"
        /\ \A r \in Socks : r # s => sock'[r] = sock[r]
    BY <1>2, <1>4, ClosedFacts
  <2>2. ServerTypes'
    BY <1>1, <1>2, <2>1 DEF ServerTypes
  <2>3. Server!ToSet(m_socks) \subseteq Socks
    BY DEF Server!ToSet, ServerTypes
  <2>4. SocketsOnce' /\ ServerRunning' /\ SocketsSingle'
    BY <1>1, <1>2, <1>4 DEF SocketsOnce, ServerRunning, SocketsSingle
  <2>5. \A r \in Server!ToSet(m_socks) : sock'[r] = sock[r]
    BY <1>4, <2>1, <2>3
  <2>6. SocketsBound'
    <3>1. \A r \in Socks : sock[r] # "none" => sock'[r] # "none"
      BY <2>1
    <3> QED
      BY <1>1, <1>2, <2>3, <3>1 DEF SocketsBound
  <2>7. SocketsTaken'
    BY <1>1, <2>5 DEF SocketsTaken
  <2>8. SocketsOrphaned'
    BY <1>1, <2>1 DEF SocketsOrphaned, Server!Orphan
  <2> QED
    BY <2>2, <2>4, <2>6, <2>7, <2>8
<1> QED
  BY <1>1, <1>3, <1>4

\* A loop looks for a client.
LEMMA NextAccept == ASSUME ServerInv, NEW l \in Server!Loops, Server!Accept(l) PROVE ServerInv'
<1>0. ServerTypes /\ SocketsSingle
  BY DEF ServerInv
<1>1. /\ loop[l].pc = "accept" /\ \E p \in {"test", "park"} : Server!Goto(l, p)
      /\ UNCHANGED <<m_isStop, m_socks, sock, tasks, closing, starts, fault, history>>
  BY DEF Server!Accept
<1>2. PICK p \in {"test", "park"} : Server!Goto(l, p)
  BY <1>1
<1>3. /\ loop' \in [Server!Loops -> LoopRecords]
      /\ \A k \in Server!Loops : loop'[k].sock = loop[k].sock /\ (LoopActive(k)' => LoopActive(k))
  BY <1>0, <1>1, <1>2, GotoFacts DEF LoopActive, LoopPlaces
<1>4. ServerTypes'
  BY <1>0, <1>1, <1>3 DEF ServerTypes
<1> QED
  BY <1>0, <1>1, <1>3, <1>4, SocketsSame DEF SocketsSingle

\* Two loops would have to wait for the same socket.
LEMMA NextPark == ASSUME ServerInv, NEW l \in Server!Loops, Server!Park(l) PROVE ServerInv'
<1>0. ServerTypes /\ SocketsSingle
  BY DEF ServerInv
<1>1. /\ loop[l].pc = "park" /\ \E p \in {"test", "accept", "wait"} : Server!Goto(l, p)
      /\ fault' = (fault \/ \E k \in Server!Loops : loop[k].pc = "wait"
           /\ loop[k].sock = loop[l].sock
                                             /\ sock[loop[l].sock] # "closed")
      /\ UNCHANGED <<m_isStop, m_socks, sock, tasks, closing, starts, history>>
  BY DEF Server!Park
<1>2. PICK p \in {"test", "accept", "wait"} : Server!Goto(l, p)
  BY <1>1
<1>3. /\ loop' \in [Server!Loops -> LoopRecords]
      /\ \A k \in Server!Loops : loop'[k].sock = loop[k].sock /\ (LoopActive(k)' => LoopActive(k))
  BY <1>0, <1>1, <1>2, GotoFacts DEF LoopActive, LoopPlaces
<1>4. ServerTypes'
  <2>1. fault' \in BOOLEAN
    BY <1>0, <1>1 DEF ServerTypes
  <2> QED
    BY <1>0, <1>1, <1>3, <2>1 DEF ServerTypes
<1>5. "overlap" \notin history => ~ fault'
  <2> SUFFICES ASSUME "overlap" \notin history, fault' PROVE FALSE
    OBVIOUS
  <2>1. PICK k \in Server!Loops : loop[k].pc = "wait" /\ loop[k].sock = loop[l].sock
    BY <1>0, <1>1 DEF SocketsSingle
  <2>2. k = l
    BY <1>0, <1>1, <2>1 DEF SocketsSingle, LoopActive
  <2> QED
    BY <1>1, <2>1, <2>2
<1> QED
  BY <1>0, <1>1, <1>3, <1>4, <1>5, SocketsSame

\* The invariant holds initially: without sockets there are no loops.
LEMMA ServerInit == Server!ServerAssumption /\ Server!Init => ServerInv
<1> SUFFICES ASSUME Server!ServerAssumption, Server!Init PROVE ServerInv
  OBVIOUS
<1>1. /\ m_isStop = TRUE /\ m_socks = <<>> /\ closing = <<>> /\ tasks = 0 /\ starts = 0
      /\ fault = FALSE /\ history = {} /\ \A s \in Socks : sock[s] = "none"
      /\ sock \in [Socks -> SocketStates] /\ \A l \in Server!Loops : loop[l].pc = "none"
  BY DEF Server!Init, SocketStates
<1>2. ASSUME NEW l \in Server!Loops PROVE Socks # {}
  <2>1. CASE Socks = {}
    <3>1. Cardinality(Socks) = 0
      BY <2>1, FS_EmptySet
    <3>2. MaxStarts * Cardinality(Socks) = 0 /\ Server!Cardinality(Socks) = Cardinality(Socks)
      BY <3>1, ServerSets, SocketSets
    <3> QED
      BY <3>2 DEF Server!Loops
  <2> QED
    BY <2>1
<1>3. loop \in [Server!Loops -> LoopRecords]
  <2> DEFINE one == CHOOSE s \in Socks : TRUE
  <2>1. ASSUME NEW l \in Server!Loops PROVE one \in Socks
    BY <1>2
  <2>2. loop = [l \in Server!Loops |-> [pc |-> "none", sock |-> one]]
    BY DEF Server!Init
  <2> HIDE DEF one
  <2>3. \A l \in Server!Loops : [pc |-> "none", sock |-> one] \in LoopRecords
    BY <2>1, LoopFacts DEF LoopPlaces
  <2> QED
    BY <2>2, <2>3
<1>4. ServerTypes
  <2>1. m_isStop \in BOOLEAN /\ fault \in BOOLEAN
    BY <1>1
  <2>2. m_socks \in Seq(Socks) /\ closing \in Seq(Socks) /\ tasks \in Nat /\ starts \in Nat
    BY <1>1
  <2> QED
    BY <1>1, <1>3, <2>1, <2>2 DEF ServerTypes
<1>5. Server!ToSet(m_socks) = {} /\ \A l \in Server!Loops : ~ LoopActive(l)
  BY <1>1 DEF Server!ToSet, LoopActive
<1>6. SocketsOnce /\ SocketsBound /\ SocketsTaken /\ SocketsOrphaned
  BY <1>1, <1>5 DEF SocketsOnce, SocketsBound, SocketsTaken, SocketsOrphaned, Server!Orphan
<1>7. ServerRunning /\ SocketsSingle
  BY <1>1, <1>5 DEF ServerRunning, SocketsSingle
<1> QED
  BY <1>4, <1>6, <1>7 DEF ServerInv

\* Every step keeps the invariant.
LEMMA ServerNext ==
  ASSUME Server!ServerAssumption, ServerInv, [Server!Next]_(Server!vars)
  PROVE  ServerInv'
<1>1. CASE Server!Start
  BY <1>1, NextStart
<1>2. CASE Server!Stop
  BY <1>2, NextStop
<1>3. ASSUME NEW S \in SUBSET Socks, Server!Bind(S) PROVE ServerInv'
  BY <1>3, NextBind
<1>4. ASSUME NEW s \in Socks, Server!Connect(s) PROVE ServerInv'
  BY <1>4, NextConnect
<1>5. CASE Server!StopTask
  BY <1>5, NextStopTask
<1>6. CASE Server!StopCancel
  BY <1>6, NextCancel DEF Server!StopCancel, SocketStates
<1>7. CASE Server!CloseCancel
  BY <1>7, NextCancel DEF Server!CloseCancel, SocketStates
<1>8. CASE Server!CloseFd
  BY <1>8, NextCloseFd
<1>9. ASSUME NEW l \in Server!Loops, Server!Test(l) \/ Server!Accept(l) \/ Server!Park(l)
      PROVE  ServerInv'
  BY <1>9, NextTest, NextAccept, NextPark
<1>10. CASE UNCHANGED Server!vars
  BY <1>10 DEF ServerInv, Server!vars, ServerTypes, SocketsOnce, SocketsBound, SocketsTaken,
     SocketsOrphaned, Server!Orphan, ServerRunning, SocketsSingle, LoopActive
<1> QED
  BY <1>1, <1>2, <1>3, <1>4, <1>5, <1>6, <1>7, <1>8, <1>9, <1>10 DEF Server!Next, Server!Task,
     Server!Run

\* AcceptExact: the next stop() closes every listening socket, but for one that
\* a failed bind() dropped under its loop; and of a server that is not started
\* again before its last stop() is through, a socket has one accept loop, the
\* assertion of addEvent holds and no loop spins on a closed socket.
LEMMA ServerAccepts == ASSUME ServerInv PROVE Server!AcceptExact
<1>1. ServerTypes /\ SocketsOrphaned /\ ServerRunning /\ SocketsSingle
  BY DEF ServerInv
<1>2. \A s \in Socks : Server!Orphan(s) => "refused" \in history
  BY <1>1 DEF SocketsOrphaned
<1>3. ASSUME "overlap" \notin history
      PROVE  /\ ~ fault
             /\ \A s \in Socks : \A l, k \in Server!Loops : Server!Holds(l, s)
                  /\ Server!Holds(k, s) => l = k
  BY <1>1, <1>3, HoldsLoop DEF SocketsSingle
<1>4. ASSUME "overlap" \notin history
      PROVE  \A l \in Server!Loops : loop[l].pc \in {"test", "accept"} /\ ~ m_isStop
               => sock[loop[l].sock] # "closed"
  BY <1>1, <1>4 DEF ServerRunning, LoopActive
<1> QED
  BY <1>2, <1>3, <1>4 DEF Server!AcceptExact

-----------------------------------------------------------------------------
(* The clients: a sum over the sockets.                                    *)

\* One of a set of sockets, and those who wait for any of them: w is waiting,
\* and F what a fold over a set of sockets defines.
OneOf(S) == CHOOSE x \in S : TRUE
Totals(w, F) ==
  /\ F \in [SUBSET Socks -> Nat]
  /\ \A S \in SUBSET Socks : F[S] = IF S = {} THEN 0 ELSE w[OneOf(S)] + F[S \ {OneOf(S)}]
Total(w) == Server!FoldSet(LAMBDA t, n : w[t] + n, 0, Socks)

\* There is such a function, and the fold over all sockets is its last value.
LEMMA TotalsExist ==
  ASSUME IsFiniteSet(Socks), NEW w \in [Socks -> Nat]
  PROVE  \E F : Totals(w, F) /\ Total(w) = F[Socks]
<1> DEFINE D == SUBSET Socks
           V == [D -> Nat]
           Unfold(F, S) == IF S = {} THEN 0 ELSE w[OneOf(S)] + F[S \ {OneOf(S)}]
           h == [F \in V |-> [S \in D |-> Unfold(F, S)]]
           m == [S \in D |-> Cardinality(S)]
<1>1. \A S \in D : S # {} => /\ OneOf(S) \in S /\ OneOf(S) \in Socks /\ S \ {OneOf(S)} \in D
  BY DEF OneOf
<1>2. \A S \in D : Cardinality(S) \in Nat
  BY FS_Subset, FS_CardinalityType
<1>3. \A S \in D : S # {} => Cardinality(S \ {OneOf(S)}) < Cardinality(S)
  <2> SUFFICES ASSUME NEW S \in D, S # {} PROVE Cardinality(S \ {OneOf(S)}) < Cardinality(S)
    OBVIOUS
  <2>1. IsFiniteSet(S) /\ OneOf(S) \in S
    BY <1>1, FS_Subset
  <2>2. Cardinality(S \ {OneOf(S)}) = Cardinality(S) - 1
    BY <2>1, FS_RemoveElement
  <2> QED
    BY <1>2, <2>2
<1>4. \A F \in V, S \in D : Unfold(F, S) \in Nat
  <2> TAKE F \in V, S \in D
  <2>1. CASE S = {}
    BY <2>1
  <2>2. CASE S # {}
    <3>1. w[OneOf(S)] \in Nat /\ S \ {OneOf(S)} \in D
      BY <1>1, <2>2
    <3>2. F[S \ {OneOf(S)}] \in Nat
      <4> HIDE DEF D
      <4> QED
        BY <3>1
    <3> QED
      BY <2>2, <3>1, <3>2
  <2> QED
    BY <2>1, <2>2
<1>5. h \in [V -> V]
  <2> HIDE DEF D, Unfold
  <2> QED
    BY <1>4
<1>6. m \in [D -> Nat]
  <2> HIDE DEF D
  <2> QED
    BY <1>2
<1>7. \A F, G \in V : \A S \in D :
        (\A y \in D : m[y] < m[S] => F[y] = G[y]) => h[F][S] = h[G][S]
  <2> SUFFICES ASSUME NEW F \in V, NEW G \in V, NEW S \in D,
                      \A y \in D : m[y] < m[S] => F[y] = G[y]
               PROVE  h[F][S] = h[G][S]
    OBVIOUS
  <2>1. Unfold(F, S) = Unfold(G, S)
    <3>1. S # {} => S \ {OneOf(S)} \in D /\ m[S \ {OneOf(S)}] < m[S]
      BY <1>1, <1>3
    <3>2. S # {} => F[S \ {OneOf(S)}] = G[S \ {OneOf(S)}]
      <4> HIDE DEF D, m
      <4> QED
        BY <3>1
    <3> QED
      BY <3>2
  <2>2. h[F][S] = Unfold(F, S) /\ h[G][S] = Unfold(G, S)
    <3> HIDE DEF V, D, Unfold
    <3> QED
      OBVIOUS
  <2> QED
    BY <2>1, <2>2
<1>8. PICK F \in V : F = h[F]
  <2>1. V = [D -> Nat] /\ 0 \in Nat
    OBVIOUS
  <2> HIDE DEF D, V, h, m
  <2>2. Recursive(h, m, D, V)
    BY <1>5, <1>6, <1>7 DEF Recursive, Maps
  <2>3. \E F \in V : F = h[F]
    BY <2>1, <2>2, RecursionOfNumbers
  <2> QED
    BY <2>3
<1>9. F = [S \in D |-> Unfold(F, S)]
  <2> HIDE DEF V, D, Unfold
  <2> QED
    BY <1>8
<1> DEFINE Eq(it) == it = [S \in SUBSET Socks |->
                 IF S = {} THEN 0 ELSE w[CHOOSE x \in S : TRUE] + it[S \ {CHOOSE x \in S : TRUE}]]
           c == CHOOSE it : Eq(it)
<1>10. Total(w) = c[Socks]
  BY Zenon DEF Total, Server!FoldSet, Server!MapThenFoldSet
<1>11. Eq(c)
  <2>1. Eq(F)
    BY <1>9, Zenon DEF OneOf
  <2> HIDE DEF Eq
  <2> QED
    BY <2>1
<1>12. c = [S \in D |-> Unfold(c, S)]
  BY <1>11, Zenon DEF OneOf
<1> HIDE DEF c, Eq
<1>13. \A S \in D : c[S] = Unfold(c, S)
  <2> HIDE DEF D, Unfold
  <2> QED
    BY <1>12
<1>16. c[{}] = 0
  BY <1>13
<1>17. \A S \in SUBSET Socks : S # {} => c[S] = w[OneOf(S)] + c[S \ {OneOf(S)}]
  BY <1>13, Zenon
<1>14. \A S \in D : c[S] \in Nat
  <2> DEFINE P == {n \in Nat : \A S \in D : Cardinality(S) = n => c[S] \in Nat}
  <2>1. 0 \in P
    <3> SUFFICES ASSUME NEW S \in D, Cardinality(S) = 0 PROVE c[S] \in Nat
      OBVIOUS
    <3>1. S = {}
      BY FS_Subset, FS_EmptySet
    <3>2. c[S] = 0
      BY <1>16, <3>1
    <3> QED
      BY <3>2
  <2>2. ASSUME NEW n \in Nat, n \in P PROVE n + 1 \in P
    <3> SUFFICES ASSUME NEW S \in D, Cardinality(S) = n + 1 PROVE c[S] \in Nat
      OBVIOUS
    <3>1. CASE S = {}
      <4>1. c[S] = 0
        BY <1>16, <3>1
      <4> QED
        BY <4>1
    <3>2. CASE S # {}
      <4>1. IsFiniteSet(S) /\ OneOf(S) \in S /\ OneOf(S) \in Socks /\ S \ {OneOf(S)} \in D
        BY <1>1, <3>2, FS_Subset
      <4>2. Cardinality(S \ {OneOf(S)}) = Cardinality(S) - 1
        BY <4>1, FS_RemoveElement
      <4>3. Cardinality(S \ {OneOf(S)}) = n
        BY <4>2
      <4>4. c[S \ {OneOf(S)}] \in Nat
        BY <2>2, <4>1, <4>3
      <4>5. w[OneOf(S)] \in Nat
        BY <4>1
      <4>6. c[S] = w[OneOf(S)] + c[S \ {OneOf(S)}]
        BY <1>17, <3>2
      <4> QED
        BY <4>4, <4>5, <4>6
    <3> QED
      BY <3>1, <3>2
  <2>3. \A n \in Nat : n \in P
    <3> HIDE DEF P
    <3> QED
      BY <2>1, <2>2, Induction
  <2> TAKE S \in D
  <2> QED
    BY <1>2, <2>3
<1>15. c \in [D -> Nat]
  <2>1. c = [S \in D |-> c[S]]
    <3> HIDE DEF D, Unfold
    <3> QED
      BY <1>12
  <2> QED
    BY <1>14, <2>1
<1> QED
  BY <1>10, <1>13, <1>15 DEF Totals

\* A set of sockets by induction on its size: nobody waits, or nobody but s
\* waits otherwise than before.
LEMMA TotalsZero ==
  ASSUME IsFiniteSet(Socks), NEW w \in [Socks -> Nat], NEW F, Totals(w, F),
         \A t \in Socks : w[t] = 0
  PROVE  F[Socks] = 0
<1> DEFINE P == {n \in Nat : \A S \in SUBSET Socks : Cardinality(S) = n => F[S] = 0}
<1>0. \A S \in SUBSET Socks : IsFiniteSet(S) /\ Cardinality(S) \in Nat
  BY FS_Subset, FS_CardinalityType
<1>1. 0 \in P
  <2> SUFFICES ASSUME NEW S \in SUBSET Socks, Cardinality(S) = 0 PROVE F[S] = 0
    OBVIOUS
  <2>1. S = {}
    BY <1>0, FS_EmptySet
  <2> QED
    BY <2>1 DEF Totals
<1>2. ASSUME NEW n \in Nat, n \in P PROVE n + 1 \in P
  <2> SUFFICES ASSUME NEW S \in SUBSET Socks, Cardinality(S) = n + 1 PROVE F[S] = 0
    OBVIOUS
  <2>1. CASE S = {}
    BY <2>1 DEF Totals
  <2>2. CASE S # {}
    <3>1. OneOf(S) \in S /\ OneOf(S) \in Socks /\ S \ {OneOf(S)} \in SUBSET Socks
      BY <2>2 DEF OneOf
    <3>2. Cardinality(S \ {OneOf(S)}) = Cardinality(S) - 1
      BY <1>0, <3>1, FS_RemoveElement
    <3>3. F[S \ {OneOf(S)}] = 0
      BY <1>2, <3>1, <3>2
    <3>4. F[S] = w[OneOf(S)] + F[S \ {OneOf(S)}]
      BY <2>2 DEF Totals
    <3> QED
      BY <3>1, <3>3, <3>4
  <2> QED
    BY <2>1, <2>2
<1>3. \A n \in Nat : n \in P
  <2> HIDE DEF P
  <2> QED
    BY <1>1, <1>2, Induction
<1> QED
  BY <1>0, <1>3

\* A sum changes by as much as one of its terms does.
LEMMA TotalsChange ==
  ASSUME IsFiniteSet(Socks), NEW w \in [Socks -> Nat], NEW v \in [Socks -> Nat],
         NEW s \in Socks, \A t \in Socks \ {s} : v[t] = w[t],
         NEW F, Totals(w, F), NEW G, Totals(v, G)
  PROVE  G[Socks] + w[s] = F[Socks] + v[s]
<1> DEFINE Same(S) == IF s \in S THEN G[S] + w[s] = F[S] + v[s] ELSE G[S] = F[S]
           P == {n \in Nat : \A S \in SUBSET Socks : Cardinality(S) = n => Same(S)}
<1>0. \A S \in SUBSET Socks : IsFiniteSet(S) /\ Cardinality(S) \in Nat
  BY FS_Subset, FS_CardinalityType
<1>1. \A S \in SUBSET Socks : F[S] \in Nat /\ G[S] \in Nat
  <2>1. F \in [SUBSET Socks -> Nat] /\ G \in [SUBSET Socks -> Nat]
    BY DEF Totals
  <2> QED
    BY <2>1
<1>2. \A S \in SUBSET Socks : S = {} => Same(S)
  BY DEF Totals
<1>3. 0 \in P
  <2> SUFFICES ASSUME NEW S \in SUBSET Socks, Cardinality(S) = 0 PROVE Same(S)
    OBVIOUS
  <2>1. S = {}
    BY <1>0, FS_EmptySet
  <2> QED
    BY <1>2, <2>1
<1>4. ASSUME NEW n \in Nat, n \in P PROVE n + 1 \in P
  <2> SUFFICES ASSUME NEW S \in SUBSET Socks, Cardinality(S) = n + 1 PROVE Same(S)
    OBVIOUS
  <2>1. CASE S = {}
    BY <1>2, <2>1
  <2>2. CASE S # {}
    <3> DEFINE a == OneOf(S)
               T == S \ {OneOf(S)}
    <3>1. a \in S /\ a \in Socks /\ T \in SUBSET Socks
      BY <2>2 DEF OneOf
    <3>2. Cardinality(T) = Cardinality(S) - 1
      BY <1>0, <3>1, FS_RemoveElement
    <3>3. Same(T)
      BY <1>4, <3>1, <3>2
    <3>4. F[S] = w[a] + F[T] /\ G[S] = v[a] + G[T]
      BY <2>2 DEF Totals
    <3>5. /\ F[T] \in Nat /\ G[T] \in Nat /\ w[a] \in Nat /\ v[a] \in Nat
          /\ w[s] \in Nat /\ v[s] \in Nat
      BY <1>1, <3>1
    <3>6. CASE a = s
      <4>1. s \notin T /\ s \in S
        BY <3>1, <3>6
      <4>2. G[T] = F[T]
        BY <3>3, <4>1
      <4> QED
        BY <3>4, <3>5, <3>6, <4>1, <4>2
    <3>7. CASE a # s
      <4>1. v[a] = w[a] /\ (s \in T <=> s \in S)
        BY <3>1, <3>7
      <4> HIDE DEF a, T
      <4>2. CASE s \in S
        <5>1. G[T] + w[s] = F[T] + v[s]
          BY <3>3, <4>1, <4>2
        <5>2. G[S] + w[s] = F[S] + v[s]
          BY <3>4, <3>5, <4>1, <5>1
        <5> QED
          BY <4>2, <5>2
      <4>3. CASE s \notin S
        BY <3>3, <3>4, <4>1, <4>3
      <4> QED
        BY <4>2, <4>3
    <3> QED
      BY <3>6, <3>7
  <2> QED
    BY <2>1, <2>2
<1>5. \A n \in Nat : n \in P
  <2> HIDE DEF P
  <2> QED
    BY <1>3, <1>4, Induction
<1>6. Same(Socks)
  BY <1>0, <1>5
<1> QED
  BY <1>6

\* Hence the clients that wait, when they change at one socket.
LEMMA TotalFacts ==
  ASSUME IsFiniteSet(Socks)
  PROVE  /\ \A w \in [Socks -> Nat] : Total(w) \in Nat
         /\ \A w \in [Socks -> Nat] : (\A t \in Socks : w[t] = 0) => Total(w) = 0
         /\ \A w, v \in [Socks -> Nat] : \A s \in Socks :
              (\A t \in Socks \ {s} : v[t] = w[t]) => Total(v) + w[s] = Total(w) + v[s]
<1>1. ASSUME NEW w \in [Socks -> Nat] PROVE Total(w) \in Nat
  <2>1. PICK F : Totals(w, F) /\ Total(w) = F[Socks]
    BY TotalsExist
  <2> QED
    BY <2>1 DEF Totals
<1>2. ASSUME NEW w \in [Socks -> Nat], \A t \in Socks : w[t] = 0 PROVE Total(w) = 0
  <2>1. PICK F : Totals(w, F) /\ Total(w) = F[Socks]
    BY TotalsExist
  <2> QED
    BY <1>2, <2>1, TotalsZero
<1>3. ASSUME NEW w \in [Socks -> Nat], NEW v \in [Socks -> Nat], NEW s \in Socks,
             \A t \in Socks \ {s} : v[t] = w[t]
      PROVE  Total(v) + w[s] = Total(w) + v[s]
  <2>1. PICK F : Totals(w, F) /\ Total(w) = F[Socks]
    BY TotalsExist
  <2>2. PICK G : Totals(v, G) /\ Total(v) = G[Socks]
    BY TotalsExist
  <2>3. G[Socks] + w[s] = F[Socks] + v[s]
    BY <1>3, <2>1, <2>2, TotalsChange
  <2> QED
    BY <2>1, <2>2, <2>3
<1> QED
  BY <1>1, <1>2, <1>3

\* Clients that wait or were handled: no more than there are.
ServerClients ==
  /\ waiting \in [Socks -> Nat] /\ handled \in Nat /\ handled + Total(waiting) <= MaxClients

\* No client is there at first.
LEMMA InitClients == ASSUME Server!ServerAssumption, Server!Init PROVE ServerClients
<1>1. /\ waiting \in [Socks -> Nat] /\ \A t \in Socks : waiting[t] = 0
      /\ handled = 0 /\ MaxClients \in Nat /\ IsFiniteSet(Socks)
  BY SocketSets DEF Server!Init
<1>2. Total(waiting) = 0
  BY <1>1, TotalFacts
<1> QED
  BY <1>1, <1>2 DEF ServerClients

\* A client connects, is handled or goes with its socket.
LEMMA NextClients ==
  ASSUME Server!ServerAssumption, ServerInv, ServerClients, [Server!Next]_(Server!vars)
  PROVE  ServerClients'
<1>0. /\ IsFiniteSet(Socks) /\ MaxClients \in Nat /\ waiting \in [Socks -> Nat] /\ handled \in Nat
      /\ Total(waiting) \in Nat /\ handled + Total(waiting) <= MaxClients
  <2>1. IsFiniteSet(Socks) /\ MaxClients \in Nat /\ waiting \in [Socks -> Nat]
    BY SocketSets DEF ServerClients
  <2> QED
    BY <2>1, TotalFacts DEF ServerClients
<1>1. CASE UNCHANGED <<waiting, handled>>
  BY <1>1 DEF ServerClients
<1>2. ASSUME NEW s \in Socks, Server!Connect(s) PROVE ServerClients'
  <2>1. /\ waiting' = [waiting EXCEPT ![s] = waiting[s] + 1] /\ handled' = handled
        /\ handled + Total(waiting) < MaxClients
    BY <1>2, Zenon DEF Server!Connect, Total
  <2>2. /\ waiting[s] \in Nat /\ waiting' \in [Socks -> Nat] /\ waiting'[s] = waiting[s] + 1
        /\ \A t \in Socks \ {s} : waiting'[t] = waiting[t]
    BY <1>0, <2>1
  <2>3. Total(waiting') + waiting[s] = Total(waiting) + waiting'[s] /\ Total(waiting') \in Nat
    BY <1>0, <2>2, TotalFacts
  <2>4. Total(waiting') = Total(waiting) + 1
    BY <1>0, <2>2, <2>3
  <2> QED
    BY <1>0, <2>1, <2>2, <2>3, <2>4 DEF ServerClients
<1>3. ASSUME NEW l \in Server!Loops, Server!Accept(l), waiting' # waiting PROVE ServerClients'
  <2> DEFINE s == loop[l].sock
  <2>1. /\ waiting[s] > 0 /\ waiting' = [waiting EXCEPT ![s] = waiting[s] - 1]
        /\ handled' = handled + 1
    BY <1>3 DEF Server!Accept
  <2>2. s \in Socks
    BY LoopFacts DEF ServerInv, ServerTypes
  <2> HIDE DEF s
  <2>3. /\ waiting[s] \in Nat /\ waiting' \in [Socks -> Nat] /\ waiting'[s] = waiting[s] - 1
        /\ \A t \in Socks \ {s} : waiting'[t] = waiting[t]
    BY <1>0, <2>1, <2>2
  <2>4. Total(waiting') + waiting[s] = Total(waiting) + waiting'[s] /\ Total(waiting') \in Nat
    BY <1>0, <2>2, <2>3, TotalFacts
  <2>5. Total(waiting') + 1 = Total(waiting)
    BY <1>0, <2>3, <2>4
  <2>6. handled' \in Nat /\ handled' + Total(waiting') <= MaxClients
    BY <1>0, <2>1, <2>4, <2>5
  <2> QED
    BY <2>3, <2>6 DEF ServerClients
<1>4. CASE Server!CloseFd
  <2> DEFINE s == Head(closing)
  <2>1. waiting' = [waiting EXCEPT ![s] = 0] /\ handled' = handled
    BY <1>4 DEF Server!CloseFd
  <2>2. s \in Socks
    BY <1>4, TailSockets DEF Server!CloseFd, ServerInv, ServerTypes
  <2> HIDE DEF s
  <2>3. /\ waiting[s] \in Nat /\ waiting' \in [Socks -> Nat] /\ waiting'[s] = 0
        /\ \A t \in Socks \ {s} : waiting'[t] = waiting[t]
    BY <1>0, <2>1, <2>2
  <2>4. Total(waiting') + waiting[s] = Total(waiting) + waiting'[s] /\ Total(waiting') \in Nat
    BY <1>0, <2>2, <2>3, TotalFacts
  <2>5. Total(waiting') <= Total(waiting)
    BY <1>0, <2>3, <2>4
  <2>6. handled' \in Nat /\ handled' + Total(waiting') <= MaxClients
    BY <1>0, <2>1, <2>4, <2>5
  <2> QED
    BY <2>3, <2>6 DEF ServerClients
<1>5. ASSUME NEW l \in Server!Loops, Server!Accept(l), waiting' = waiting PROVE ServerClients'
  <2>1. handled' = handled
    <3>1. CASE handled' = handled + 1
      <4> DEFINE s == loop[l].sock
      <4>1. s \in Socks
        BY LoopFacts DEF ServerInv, ServerTypes
      <4>2. handled' = handled \/ waiting' = [waiting EXCEPT ![s] = waiting[s] - 1]
        BY <1>5 DEF Server!Accept
      <4> HIDE DEF s
      <4>3. waiting[s] \in Nat
        BY <1>0, <4>1
      <4> QED
        BY <1>0, <1>5, <4>1, <4>2, <4>3
    <3> QED
      BY <1>5, <3>1 DEF Server!Accept
  <2> QED
    BY <1>1, <1>5, <2>1
<1>6. CASE UNCHANGED Server!vars
  BY <1>1, <1>6 DEF Server!vars
<1>7. CASE Server!Start \/ Server!Stop \/ Server!StopTask \/ Server!StopCancel
           \/ Server!CloseCancel \/ \E S \in SUBSET Socks : Server!Bind(S)
  <2>1. UNCHANGED <<waiting, handled>>
    BY <1>7 DEF Server!Start, Server!Stop, Server!StopTask, Server!StopCancel,
       Server!CloseCancel, Server!Bind
  <2> QED
    BY <1>1, <2>1
<1>8. ASSUME NEW l \in Server!Loops, Server!Test(l) \/ Server!Park(l) PROVE ServerClients'
  <2>1. UNCHANGED <<waiting, handled>>
    BY <1>8 DEF Server!Test, Server!Park
  <2> QED
    BY <1>1, <2>1
<1> QED
  BY <1>2, <1>3, <1>4, <1>5, <1>6, <1>7, <1>8 DEF Server!Next, Server!Task, Server!Run

\* TypeOK of the server.
LEMMA ServerTells == ASSUME Server!ServerAssumption, ServerInv, ServerClients PROVE Server!TypeOK
<1>1. handled \in 0 .. MaxClients
  <2>1. IsFiniteSet(Socks) /\ MaxClients \in Nat /\ waiting \in [Socks -> Nat] /\ handled \in Nat
    BY SocketSets DEF ServerClients
  <2>2. Total(waiting) \in Nat
    BY <2>1, TotalFacts
  <2> QED
    BY <2>1, <2>2 DEF ServerClients
<1> QED
  BY <1>1 DEF ServerInv, ServerTypes, ServerClients, Server!TypeOK, SocketStates, LoopRecords,
     LoopPlaces
-----------------------------------------------------------------------------
(* Config: setValue and the listeners that it calls.                       *)

\* The calls of setValue on a thread's stack.
CallRecords == [v: Values, at: {"compare", "notify", "assign"}, todo: Seq(Listeners)]

\* The types of the variables.
ConfigTypes ==
  /\ m_val \in Values /\ m_cbs \in Seq(Listeners) /\ Config!IsInjective(m_cbs)
  /\ stack \in [Callers -> Seq(CallRecords)] /\ adding \in [Callers -> SUBSET Listeners]
  /\ copy \in [Listeners -> Values] /\ calls \in 0 .. MaxCalls
  /\ mishaps \subseteq {"overlap", "threw"}

\* A listener that corrects a value makes one call inside the outer one, which
\* is then notifying; no listener is called twice for one value.
StackOk(s) ==
  /\ Len(s) <= 2
  /\ Len(s) = 2 => s[1].v = Good /\ s[2].at = "notify"
  /\ \A i \in DOMAIN s : Config!IsInjective(s[i].todo) /\ (s[i].at = "assign" => s[i].todo = <<>>)
Stacked == \A t \in Callers : StackOk(stack[t])

\* A thread registers one listener at a time, that is not registered, and sets
\* nothing meanwhile.
AddingOne(t) ==
  adding[t] # {} => /\ stack[t] = <<>>
                    /\ \E l \in Listeners : adding[t] = {l} /\ l \notin Config!ToSet(m_cbs)
Registering ==
  /\ \A t \in Callers : AddingOne(t)
  /\ \A t, u \in Callers : t # u => adding[t] \cap adding[u] = {}

\* Without overlap a thread that sets is alone.
Calm == "overlap" \notin mishaps
Alone ==
  Calm => \A t, u \in Callers :
            Config!Setting(t) /\ u # t => ~ Config!Setting(u) /\ adding[u] = {}

\* The call inside another one has compared and will wait for itself.
Hung(t) == Len(stack[t]) = 2 /\ stack[t][1].at # "compare"
\* A listener has the variable's value, or a bad one that a later one refused.
Follows(l) == copy[l] = m_val \/ ("threw" \in mishaps /\ copy[l] \in Bad /\ l \notin Checks)
\* One that has been told the new value has it.
Told(t, l) ==
  LET f == stack[t][Len(stack[t])] IN
  IF l \in Config!ToSet(f.todo) THEN Follows(l)
  ELSE copy[l] = f.v /\ (f.v \in Bad => l \notin Checks)

\* While nobody sets, every listener follows; so do those that are being added,
\* and while one sets, those that have been told.
Following ==
  Calm =>
    /\ (\A t \in Callers : ~ Config!Setting(t)) => \A l \in Config!ToSet(m_cbs) : Follows(l)
    /\ \A t \in Callers : \A l \in adding[t] : Follows(l)
    /\ \A t \in Callers :
         Config!Setting(t) /\ ~ Hung(t) => \A l \in Config!ToSet(m_cbs) : Told(t, l)

\* The inductive invariant.
ConfigInv == ConfigTypes /\ Stacked /\ Registering /\ Alone /\ Following

-----------------------------------------------------------------------------
(* The calls on a stack, and the listeners that they told. *)

\* The members of a call.
LEMMA FrameFacts ==
  /\ \A f \in CallRecords : /\ f.v \in Values /\ f.at \in {"compare", "notify", "assign"}
                            /\ f.todo \in Seq(Listeners)
  /\ \A v \in Values : Config!Calling(v) \in CallRecords /\ Config!Calling(v).v = v
                       /\ Config!Calling(v).at = "compare" /\ Config!Calling(v).todo = <<>>
  /\ \A f \in CallRecords, a \in {"compare", "notify", "assign"}, q \in Seq(Listeners) :
       /\ [f EXCEPT !.at = a, !.todo = q] = [v |-> f.v, at |-> a, todo |-> q]
       /\ [f EXCEPT !.at = a] = [v |-> f.v, at |-> a, todo |-> f.todo]
       /\ [f EXCEPT !.todo = q] = [v |-> f.v, at |-> f.at, todo |-> q]
  /\ \A v \in Values, a \in {"compare", "notify", "assign"}, q \in Seq(Listeners) :
       [v |-> v, at |-> a, todo |-> q] \in CallRecords
<1> DEFINE S == Seq(Listeners)
           A == {"compare", "notify", "assign"}
<1>1. <<>> \in S
  OBVIOUS
<1> HIDE DEF S
<1>2. CallRecords = [v: Values, at: A, todo: S]
  BY DEF CallRecords, S
<1>3. \A f \in [v: Values, at: A, todo: S] : f.v \in Values /\ f.at \in A /\ f.todo \in S
  OBVIOUS
<1>4. \A v \in Values : Config!Calling(v) \in [v: Values, at: A, todo: S] /\ Config!Calling(v).v = v
                       /\ Config!Calling(v).at = "compare" /\ Config!Calling(v).todo = <<>>
  BY <1>1 DEF Config!Calling
<1>5. \A f \in [v: Values, at: A, todo: S], a \in A, q \in S :
       /\ [f EXCEPT !.at = a, !.todo = q] = [v |-> f.v, at |-> a, todo |-> q]
       /\ [f EXCEPT !.at = a] = [v |-> f.v, at |-> a, todo |-> f.todo]
       /\ [f EXCEPT !.todo = q] = [v |-> f.v, at |-> f.at, todo |-> q]
  <2> HIDE DEF A
  <2> TAKE f \in [v: Values, at: A, todo: S], a \in A, q \in S
  <2>1. [f EXCEPT !.at = a] = [v |-> f.v, at |-> a, todo |-> f.todo]
    OBVIOUS
  <2>2. [f EXCEPT !.todo = q] = [v |-> f.v, at |-> f.at, todo |-> q]
    OBVIOUS
  <2>3. [f EXCEPT !.at = a, !.todo = q] = [v |-> f.v, at |-> a, todo |-> q]
    <3> DEFINE h == [v |-> f.v, at |-> a, todo |-> f.todo]
    <3>1. [f EXCEPT !.at = a, !.todo = q] = [h EXCEPT !.todo = q]
      BY <2>1, Zenon
    <3>2. [h EXCEPT !.todo = q] = [v |-> f.v, at |-> a, todo |-> q]
      OBVIOUS
    <3> QED
      BY <3>1, <3>2
  <2> QED
    BY <2>1, <2>2, <2>3
<1>6. \A v \in Values, a \in A, q \in S :
       [v |-> v, at |-> a, todo |-> q] \in [v: Values, at: A, todo: S]
  OBVIOUS
<1> QED
  BY <1>2, <1>3, <1>4, <1>5, <1>6 DEF S

\* Replacing the inner call, calling again, and returning.
LEMMA StackFacts ==
  ASSUME NEW s \in Seq(CallRecords), s # <<>>, NEW f \in CallRecords, NEW g \in CallRecords
  PROVE  /\ Head(s) = s[1] /\ s[1] \in CallRecords /\ Len(s) \in Nat \ {0}
         /\ DOMAIN s = 1 .. Len(s)
         /\ <<f>> \o Tail(s) \in Seq(CallRecords) /\ Len(<<f>> \o Tail(s)) = Len(s)
         /\ (<<f>> \o Tail(s))[1] = f
         /\ \A i \in 2 .. Len(s) : (<<f>> \o Tail(s))[i] = s[i]
         /\ <<f, g>> \o Tail(s) \in Seq(CallRecords) /\ Len(<<f, g>> \o Tail(s)) = Len(s) + 1
         /\ (<<f, g>> \o Tail(s))[1] = f /\ (<<f, g>> \o Tail(s))[2] = g
         /\ \A i \in 3 .. Len(s) + 1 : (<<f, g>> \o Tail(s))[i] = s[i - 1]
         /\ Tail(s) \in Seq(CallRecords) /\ Len(Tail(s)) = Len(s) - 1
         /\ \A i \in 1 .. Len(s) - 1 : Tail(s)[i] = s[i + 1]
<1> HIDE DEF CallRecords
<1>1. /\ Head(s) = s[1] /\ s[1] \in CallRecords /\ Len(s) \in Nat \ {0} /\ DOMAIN s = 1 .. Len(s)
      /\ Tail(s) \in Seq(CallRecords) /\ Len(Tail(s)) = Len(s) - 1
      /\ \A i \in 1 .. Len(s) - 1 : Tail(s)[i] = s[i + 1]
  OBVIOUS
<1> DEFINE r == Tail(s)
<1> HIDE DEF r
<1>2. /\ <<f>> \o r \in Seq(CallRecords) /\ Len(<<f>> \o r) = 1 + Len(r)
      /\ (<<f>> \o r)[1] = f /\ \A i \in 2 .. Len(r) + 1 : (<<f>> \o r)[i] = r[i - 1]
  BY <1>1 DEF r
<1>3. /\ <<f, g>> \o r \in Seq(CallRecords) /\ Len(<<f, g>> \o r) = 2 + Len(r)
      /\ (<<f, g>> \o r)[1] = f /\ (<<f, g>> \o r)[2] = g
      /\ \A i \in 3 .. Len(r) + 2 : (<<f, g>> \o r)[i] = r[i - 2]
  BY <1>1 DEF r
<1>4. \A i \in 2 .. Len(s) : (<<f>> \o r)[i] = s[i]
  BY <1>1, <1>2 DEF r
<1>5. \A i \in 3 .. Len(s) + 1 : (<<f, g>> \o r)[i] = s[i - 1]
  BY <1>1, <1>3 DEF r
<1> QED
  BY <1>1, <1>2, <1>3, <1>4, <1>5 DEF r

\* A list of listeners without one of them, and with one more.
LEMMA ListFacts ==
  ASSUME NEW q \in Seq(Listeners), Config!IsInjective(q)
  PROVE  /\ \A i \in DOMAIN q : /\ Config!RemoveAt(q, i) \in Seq(Listeners)
                                     /\ Config!IsInjective(Config!RemoveAt(q, i))
                                /\ Config!ToSet(Config!RemoveAt(q, i)) \subseteq Config!ToSet(q)
         /\ \A l \in Listeners \ Config!ToSet(q) :
              /\ Append(q, l) \in Seq(Listeners) /\ Config!IsInjective(Append(q, l))
              /\ Config!ToSet(Append(q, l)) = Config!ToSet(q) \cup {l}
         /\ q # <<>> => /\ Head(q) \in Listeners /\ Tail(q) \in Seq(Listeners)
                        /\ Config!IsInjective(Tail(q))
                        /\ Config!ToSet(q) = Config!ToSet(Tail(q)) \cup {Head(q)}
                        /\ Head(q) \notin Config!ToSet(Tail(q))
         /\ Config!ToSet(q) \subseteq Listeners /\ Config!ToSet(<<>>) = {}
<1>1. ASSUME NEW i \in DOMAIN q
      PROVE  /\ Config!RemoveAt(q, i) \in Seq(Listeners)
             /\ Config!IsInjective(Config!RemoveAt(q, i))
             /\ Config!ToSet(Config!RemoveAt(q, i)) \subseteq Config!ToSet(q)
  <2> DEFINE a == SubSeq(q, 1, i - 1)
             b == SubSeq(q, i + 1, Len(q))
  <2>1. /\ a \in Seq(Listeners) /\ Len(a) = i - 1 /\ \A k \in 1 .. i - 1 : a[k] = q[k]
        /\ i \in Nat \ {0} /\ Len(q) \in Nat /\ i <= Len(q) /\ DOMAIN q = 1 .. Len(q)
    OBVIOUS
  <2>2. /\ b \in Seq(Listeners) /\ Len(b) = Len(q) - i
        /\ \A k \in 1 .. Len(q) - i : b[k] = q[i + k]
    <3>1. PICK n \in Nat : n = Len(q) - i
      BY <2>1
    <3>2. i \in Nat /\ i + n = Len(q) /\ i + n <= Len(q)
      BY <2>1, <3>1
    <3>3. /\ SubSeq(q, i + 1, i + n) \in Seq(Listeners) /\ Len(SubSeq(q, i + 1, i + n)) = n
          /\ \A k \in 1 .. n : SubSeq(q, i + 1, i + n)[k] = q[i + k]
      BY <3>2, Part
    <3> QED
      BY <3>1, <3>2, <3>3
  <2> HIDE DEF a, b
  <2>3. /\ a \o b \in Seq(Listeners) /\ Len(a \o b) = Len(q) - 1
        /\ DOMAIN (a \o b) = 1 .. Len(q) - 1
        /\ \A k \in 1 .. i - 1 : (a \o b)[k] = q[k]
        /\ \A k \in i .. Len(q) - 1 : (a \o b)[k] = q[k + 1]
    <3>1. /\ a \o b \in Seq(Listeners) /\ Len(a \o b) = Len(a) + Len(b)
          /\ \A k \in 1 .. Len(a) : (a \o b)[k] = a[k]
          /\ \A k \in Len(a) + 1 .. Len(a) + Len(b) : (a \o b)[k] = b[k - Len(a)]
          /\ DOMAIN (a \o b) = 1 .. Len(a) + Len(b)
      <4>1. a \in Seq(Listeners) /\ b \in Seq(Listeners)
        BY <2>1, <2>2
      <4> QED
        BY <4>1
    <3>2. ASSUME NEW k \in i .. Len(q) - 1 PROVE (a \o b)[k] = q[k + 1]
      <4>1. k \in Len(a) + 1 .. Len(a) + Len(b) /\ k - Len(a) \in 1 .. Len(q) - i
            /\ i + (k - Len(a)) = k + 1
        BY <2>1, <2>2
      <4> QED
        BY <2>2, <3>1, <4>1
    <3>3. Len(a) + Len(b) = Len(q) - 1
      BY <2>1, <2>2
    <3>4. \A k \in 1 .. i - 1 : (a \o b)[k] = q[k]
      BY <2>1, <3>1
    <3> QED
      BY <3>1, <3>2, <3>3, <3>4
  <2>4. Config!RemoveAt(q, i) = a \o b
    BY DEF Config!RemoveAt, a, b
  <2>5. \A k, m \in 1 .. Len(q) : q[k] = q[m] => k = m
    BY <2>1 DEF Config!IsInjective
  <2>6. \A k, m \in 1 .. Len(q) - 1 : (a \o b)[k] = (a \o b)[m] => k = m
    <3> DEFINE old(k) == IF k < i THEN k ELSE k + 1
    <3> TAKE k, m \in 1 .. Len(q) - 1
    <3>1. old(k) \in 1 .. Len(q) /\ old(m) \in 1 .. Len(q) /\ (old(k) = old(m) => k = m)
      BY <2>1
    <3>2. ASSUME NEW x \in 1 .. Len(q) - 1 PROVE (a \o b)[x] = q[old(x)]
      <4>1. CASE x < i
        <5>1. x \in 1 .. i - 1 /\ old(x) = x
          BY <2>1, <4>1
        <5> QED
          BY <2>3, <5>1
      <4>2. CASE ~ (x < i)
        <5>1. x \in i .. Len(q) - 1 /\ old(x) = x + 1
          BY <2>1, <4>2
        <5> HIDE DEF old
        <5> QED
          BY <2>3, <5>1
      <4> QED
        BY <4>1, <4>2
    <3> HIDE DEF old
    <3> QED
      BY <2>5, <3>1, <3>2
  <2>7. \A k \in 1 .. Len(q) - 1 : \E m \in 1 .. Len(q) : (a \o b)[k] = q[m]
    <3> TAKE k \in 1 .. Len(q) - 1
    <3>1. CASE k < i
      <4>1. k \in 1 .. i - 1 /\ k \in 1 .. Len(q)
        BY <2>1, <3>1
      <4> QED
        BY <2>3, <4>1
    <3>2. CASE ~ (k < i)
      <4>1. k \in i .. Len(q) - 1 /\ k + 1 \in 1 .. Len(q)
        BY <2>1, <3>2
      <4> QED
        BY <2>3, <4>1
    <3> QED
      BY <3>1, <3>2
  <2> DEFINE r == a \o b
  <2>8. r \in Seq(Listeners) /\ DOMAIN r = 1 .. Len(q) - 1 /\ Config!RemoveAt(q, i) = r
    BY <2>3, <2>4
  <2>9. Config!IsInjective(r)
    BY <2>6, <2>8 DEF Config!IsInjective
  <2>10. Config!ToSet(r) \subseteq Config!ToSet(q)
    <3> HIDE DEF r
    <3>1. \A k \in DOMAIN r : \E m \in DOMAIN q : r[k] = q[m]
      BY <2>1, <2>7, <2>8 DEF r
    <3> QED
      BY <3>1 DEF Config!ToSet
  <2> QED
    BY <2>8, <2>9, <2>10
<1>2. ASSUME NEW l \in Listeners \ Config!ToSet(q)
      PROVE  /\ Append(q, l) \in Seq(Listeners) /\ Config!IsInjective(Append(q, l))
             /\ Config!ToSet(Append(q, l)) = Config!ToSet(q) \cup {l}
  <2>1. /\ Append(q, l) \in Seq(Listeners) /\ DOMAIN Append(q, l) = 1 .. Len(q) + 1
        /\ \A k \in 1 .. Len(q) : Append(q, l)[k] = q[k]
        /\ Append(q, l)[Len(q) + 1] = l /\ Len(q) \in Nat /\ DOMAIN q = 1 .. Len(q)
    OBVIOUS
  <2> QED
    BY <2>1 DEF Config!IsInjective, Config!ToSet
<1>3. ASSUME q # <<>>
      PROVE  /\ Head(q) \in Listeners /\ Tail(q) \in Seq(Listeners)
             /\ Config!IsInjective(Tail(q))
             /\ Config!ToSet(q) = Config!ToSet(Tail(q)) \cup {Head(q)}
             /\ Head(q) \notin Config!ToSet(Tail(q))
  <2>1. /\ Tail(q) \in Seq(Listeners) /\ DOMAIN Tail(q) = 1 .. Len(q) - 1
        /\ \A k \in 1 .. Len(q) - 1 : Tail(q)[k] = q[k + 1]
        /\ Head(q) = q[1] /\ Len(q) \in Nat \ {0} /\ DOMAIN q = 1 .. Len(q) /\ q[1] \in Listeners
    BY <1>3
  <2>2. ASSUME NEW k \in 2 .. Len(q) PROVE q[k] \in Config!ToSet(Tail(q))
    <3>1. k - 1 \in 1 .. Len(q) - 1 /\ Tail(q)[k - 1] = q[k]
      BY <2>1
    <3> QED
      BY <2>1, <3>1 DEF Config!ToSet
  <2> QED
    BY <2>1, <2>2 DEF Config!IsInjective, Config!ToSet
<1>4. Config!ToSet(q) \subseteq Listeners /\ Config!ToSet(<<>>) = {}
  BY DEF Config!ToSet
<1> QED
  BY <1>1, <1>2, <1>3, <1>4

\* What a stack of at most two calls tells.
Sets(s) == \E i \in DOMAIN s : s[i].at # "compare"
Notifies(s) == \E i \in DOMAIN s : s[i].at = "notify"

\* The members of a sequence.
LEMMA Members ==
  ASSUME NEW S, NEW s \in Seq(S)
  PROVE  \A i \in 1 .. Len(s) : s[i] \in S
OBVIOUS

\* What the calls on a stack of a thread can be.
LEMMA StackKinds ==
  ASSUME NEW s \in Seq(CallRecords), StackOk(s)
  PROVE  /\ Len(s) \in {0, 1, 2} /\ (s = <<>> <=> Len(s) = 0)
         /\ Len(s) = 0 => ~ Sets(s) /\ ~ Notifies(s)
         /\ Len(s) = 1 => /\ s[1] \in CallRecords /\ (Sets(s) <=> s[1].at # "compare")
                          /\ (Notifies(s) <=> s[1].at = "notify")
         /\ Len(s) = 2 => /\ s[1] \in CallRecords /\ s[2] \in CallRecords /\ Sets(s) /\ Notifies(s)
                          /\ s[1].v = Good /\ s[2].at = "notify"
<1> HIDE DEF CallRecords
<1>1. Len(s) \in Nat /\ DOMAIN s = 1 .. Len(s) /\ (s = <<>> <=> Len(s) = 0) /\ Len(s) <= 2
  BY DEF StackOk
<1>2. Len(s) = 1 => s[1] \in CallRecords /\ DOMAIN s = {1}
  BY <1>1
<1>3. Len(s) = 2 => s[1] \in CallRecords /\ s[2] \in CallRecords /\ DOMAIN s = {1, 2}
  <2>1. 1 .. 2 = {1, 2}
    OBVIOUS
  <2>2. \A i \in 1 .. Len(s) : s[i] \in CallRecords
    BY Members
  <2> QED
    BY <1>1, <2>1, <2>2
<1>4. Len(s) = 0 => DOMAIN s = {}
  BY <1>1
<1>5. Len(s) = 2 => s[1].v = Good /\ s[2].at = "notify"
  BY DEF StackOk
<1> QED
  BY <1>1, <1>2, <1>3, <1>4, <1>5 DEF Sets, Notifies

\* These are Setting and Reading.
LEMMA Kinds == \A t \in Callers : (Config!Setting(t) <=> Sets(stack[t]))
     /\ (Config!Reading(t) <=> Notifies(stack[t]))
BY DEF Config!Setting, Config!Reading, Sets, Notifies

\* Setting and Reading in the next state, by the stack.
LEMMA KindsNext ==
  \A t \in Callers : (Config!Setting(t)' <=> Sets(stack'[t]))
       /\ (Config!Reading(t)' <=> Notifies(stack'[t]))
BY DEF Config!Setting, Config!Reading, Sets, Notifies

\* A step of one thread changes its own stack.
LEMMA OneStack ==
  ASSUME stack \in [Callers -> Seq(CallRecords)], Stacked, NEW t \in Callers,
         NEW r \in Seq(CallRecords), StackOk(r), stack' = [stack EXCEPT ![t] = r]
  PROVE  /\ stack' \in [Callers -> Seq(CallRecords)] /\ Stacked' /\ stack'[t] = r
         /\ \A u \in Callers \ {t} : stack'[u] = stack[u]
<1> HIDE DEF CallRecords
<1>1. /\ stack' \in [Callers -> Seq(CallRecords)] /\ stack'[t] = r
      /\ \A u \in Callers \ {t} : stack'[u] = stack[u]
  OBVIOUS
<1> QED
  BY <1>1 DEF Stacked

\* The frames of a stack that a step leaves.
LEMMA StackOne ==
  ASSUME NEW f \in CallRecords, Config!IsInjective(f.todo), f.at = "assign" => f.todo = <<>>
  PROVE  <<f>> \in Seq(CallRecords) /\ StackOk(<<f>>) /\ Len(<<f>>) = 1 /\ <<f>>[1] = f
<1> HIDE DEF CallRecords
<1> QED
  BY DEF StackOk

\* A call inside the notification of another.
LEMMA StackTwo ==
  ASSUME NEW f \in CallRecords, Config!IsInjective(f.todo), f.at = "assign" => f.todo = <<>>,
         NEW g \in CallRecords, Config!IsInjective(g.todo), f.v = Good, g.at = "notify"
  PROVE  /\ <<f, g>> \in Seq(CallRecords) /\ StackOk(<<f, g>>) /\ Len(<<f, g>>) = 2
         /\ <<f, g>>[1] = f /\ <<f, g>>[2] = g
<1> HIDE DEF CallRecords
<1> QED
  BY DEF StackOk

\* Two sequences are equal when their elements are.
LEMMA SameSeq ==
  ASSUME NEW S, NEW p \in Seq(S), NEW q \in Seq(S), Len(p) = Len(q),
         \A i \in 1 .. Len(p) : p[i] = q[i]
  PROVE  p = q
OBVIOUS

\* A stack is empty, one call, or two.
LEMMA StackShape ==
  ASSUME NEW s \in Seq(CallRecords), StackOk(s), s # <<>>
  PROVE  /\ Head(s) = s[1] /\ s[1] \in CallRecords /\ Config!IsInjective(s[1].todo)
         /\ (s[1].at = "assign" => s[1].todo = <<>>)
         /\ \/ Len(s) = 1 /\ Tail(s) = <<>> /\ s = <<s[1]>>
               /\ \A f, g : <<f>> \o Tail(s) = <<f>> /\ <<f, g>> \o Tail(s) = <<f, g>>
            \/ Len(s) = 2 /\ Tail(s) = <<s[2]>> /\ s = <<s[1], s[2]>> /\ s[1].v = Good
               /\ s[2].at = "notify" /\ s[2] \in CallRecords /\ Config!IsInjective(s[2].todo)
               /\ \A f \in CallRecords : <<f>> \o Tail(s) = <<f, s[2]>>
<1> HIDE DEF CallRecords
<1>1. /\ Len(s) \in Nat \ {0} /\ DOMAIN s = 1 .. Len(s) /\ Head(s) = s[1] /\ s[1] \in CallRecords
  OBVIOUS
<1>2. Config!IsInjective(s[1].todo) /\ (s[1].at = "assign" => s[1].todo = <<>>) /\ Len(s) <= 2
  BY <1>1 DEF StackOk
<1>3. CASE Len(s) = 1
  <2>1. Tail(s) = <<>>
    <3>1. Tail(s) \in Seq(CallRecords) /\ Len(Tail(s)) = 0
      BY <1>1, <1>3
    <3>2. \A q \in Seq(CallRecords) : Len(q) = 0 => q = <<>>
      OBVIOUS
    <3> QED
      BY <3>1, <3>2
  <2>3. s = <<s[1]>>
    <3> DEFINE r == <<s[1]>>
    <3>1. r \in Seq(CallRecords) /\ Len(r) = 1 /\ r[1] = s[1]
      BY <1>1
    <3> HIDE DEF r
    <3>2. r = s
      BY <1>3, <3>1, SameSeq
    <3> QED
      BY <3>2 DEF r
  <2>2. \A f, g : <<f>> \o <<>> = <<f>> /\ <<f, g>> \o <<>> = <<f, g>>
    OBVIOUS
  <2> QED
    BY <1>1, <1>2, <1>3, <2>1, <2>2, <2>3
<1>4. CASE Len(s) = 2
  <2>0. s[2] \in CallRecords
    BY <1>4, Members
  <2>1. Tail(s) = <<s[2]>> /\ s = <<s[1], s[2]>> /\ s[2] \in CallRecords
    <3> DEFINE r == <<s[1], s[2]>>
               q == <<s[2]>>
               w == Tail(s)
    <3>1. r \in Seq(CallRecords) /\ Len(r) = 2 /\ r[1] = s[1] /\ r[2] = s[2]
      BY <1>1, <2>0
    <3>2. q \in Seq(CallRecords) /\ Len(q) = 1 /\ q[1] = s[2]
      BY <2>0
    <3>3. w \in Seq(CallRecords) /\ Len(w) = 1 /\ w[1] = s[2]
      BY <1>1, <1>4
    <3> HIDE DEF r, q, w
    <3>4. r = s
      <4>1. \A i \in 1 .. Len(r) : i = 1 \/ i = 2
        BY <3>1
      <4> QED
        BY <1>4, <3>1, <4>1, SameSeq
    <3>5. q = w
      BY <3>2, <3>3, SameSeq
    <3> QED
      BY <2>0, <3>4, <3>5 DEF r, q, w
  <2>2. s[1].v = Good /\ s[2].at = "notify" /\ Config!IsInjective(s[2].todo)
    BY <1>1, <1>4 DEF StackOk
  <2>3. ASSUME NEW f \in CallRecords PROVE <<f>> \o <<s[2]>> = <<f, s[2]>>
    <3> DEFINE r == <<f>> \o <<s[2]>>
               q == <<f, s[2]>>
    <3>1. r \in Seq(CallRecords) /\ Len(r) = 2 /\ r[1] = f /\ r[2] = s[2]
      BY <2>0
    <3>2. q \in Seq(CallRecords) /\ Len(q) = 2 /\ q[1] = f /\ q[2] = s[2]
      BY <2>0
    <3> HIDE DEF r, q
    <3>3. \A i \in 1 .. Len(r) : i = 1 \/ i = 2
      BY <3>1
    <3>4. r = q
      BY <3>1, <3>2, <3>3, SameSeq
    <3> QED
      BY <3>4 DEF r, q
  <2> QED
    BY <1>1, <1>2, <1>4, <2>1, <2>2, <2>3
<1> QED
  BY <1>1, <1>2, <1>3, <1>4

\* What a step leaves alone.
LEMMA KeepFollows ==
  ASSUME UNCHANGED <<m_val, copy>>, mishaps \subseteq mishaps'
  PROVE  \A l : Follows(l) => Follows(l)'
BY DEF Follows

\* A thread whose stack stays is told what it was told.
LEMMA KeepTold ==
  ASSUME UNCHANGED <<m_val, copy>>, mishaps \subseteq mishaps', NEW t, stack'[t] = stack[t]
  PROVE  /\ \A l : Told(t, l) => Told(t, l)'
         /\ (Config!Setting(t)' <=> Config!Setting(t)) /\ (Hung(t)' <=> Hung(t))
         /\ (Config!Reading(t)' <=> Config!Reading(t))
BY KeepFollows DEF Told, Config!Setting, Hung, Config!Reading

\* setValue begins.
LEMMA StepSetValue ==
  ASSUME ConfigInv, NEW t \in Callers, NEW v \in Values, Config!SetValue(t, v),
         Config!ConfigAssumption
  PROVE  ConfigInv'
<1> HIDE DEF CallRecords
<1>1. /\ UNCHANGED <<m_val, m_cbs, adding, copy, mishaps>> /\ calls' \in 0 .. MaxCalls
      /\ stack[t] = <<>> /\ adding[t] = {} /\ stack' = [stack EXCEPT ![t] = <<Config!Calling(v)>>]
  BY DEF Config!SetValue, Config!Begins, ConfigInv, ConfigTypes, Config!ConfigAssumption
<1>2. /\ Config!Calling(v) \in CallRecords /\ Config!Calling(v).at = "compare"
      /\ Config!Calling(v).todo = <<>>
  BY FrameFacts
<1>3. /\ <<Config!Calling(v)>> \in Seq(CallRecords) /\ StackOk(<<Config!Calling(v)>>)
      /\ Len(<<Config!Calling(v)>>) = 1
      /\ <<Config!Calling(v)>>[1] = Config!Calling(v)
  BY <1>2, StackOne DEF Config!IsInjective
<1>4. /\ stack' \in [Callers -> Seq(CallRecords)] /\ Stacked' /\ stack'[t] = <<Config!Calling(v)>>
      /\ \A u \in Callers \ {t} : stack'[u] = stack[u]
  BY <1>1, <1>3, OneStack DEF ConfigInv, ConfigTypes
<1>5. ~ Config!Setting(t) /\ ~ Config!Setting(t)'
  <2>1. ~ Sets(stack'[t])
    BY <1>2, <1>3, <1>4, StackKinds
  <2>2. ~ Sets(stack[t])
    BY <1>1 DEF Sets
  <2> QED
    BY <2>1, <2>2, Kinds, KindsNext
<1>6. \A u \in Callers \ {t} : /\ \A l : Told(u, l) => Told(u, l)'
                              /\ (Config!Setting(u)' <=> Config!Setting(u))
                              /\ (Hung(u)' <=> Hung(u))
  BY <1>1, <1>4, KeepTold
<1>7. ConfigTypes' /\ Stacked'
  BY <1>1, <1>4 DEF ConfigInv, ConfigTypes
<1>8. Registering'
  BY <1>1, <1>4 DEF ConfigInv, Registering, AddingOne
<1>9. Alone'
  BY <1>1, <1>5, <1>6 DEF ConfigInv, Alone, Calm
<1>10. Following'
  <2>1. \A l : Follows(l) => Follows(l)'
    BY <1>1, KeepFollows
  <2> QED
    BY <1>1, <1>5, <1>6, <2>1 DEF ConfigInv, Following, Calm
<1> QED
  BY <1>7, <1>8, <1>9, <1>10 DEF ConfigInv

\* Where a thread's outer call is.
LEMMA Outer ==
  ASSUME NEW t \in Callers, stack[t] \in Seq(CallRecords), StackOk(stack[t]), NEW f,
         stack[t] = <<f>>
  PROVE  /\ (Config!Setting(t) <=> f.at # "compare") /\ ~ Hung(t)
         /\ \A l : Told(t, l) <=> IF l \in Config!ToSet(f.todo) THEN Follows(l)
                                  ELSE copy[l] = f.v /\ (f.v \in Bad => l \notin Checks)
<1> HIDE DEF CallRecords
<1>1. Len(stack[t]) = 1 /\ stack[t][1] = f
  BY SMT
<1>2. Config!Setting(t) <=> f.at # "compare"
  BY <1>1, StackKinds, Kinds
<1>3. ~ Hung(t)
  BY <1>1 DEF Hung
<1> QED
  BY <1>1, <1>2, <1>3, Zenon DEF Told

\* What a thread with one call on its stack has told its listeners.
LEMMA OuterNext ==
  ASSUME NEW t \in Callers, stack'[t] \in Seq(CallRecords), StackOk(stack'[t]), NEW f,
         stack'[t] = <<f>>
  PROVE  /\ (Config!Setting(t)' <=> f.at # "compare") /\ ~ Hung(t)'
         /\ \A l : Told(t, l)' <=> IF l \in Config!ToSet(f.todo) THEN Follows(l)'
                                   ELSE copy'[l] = f.v /\ (f.v \in Bad => l \notin Checks)
<1> HIDE DEF CallRecords
<1>1. Len(stack'[t]) = 1 /\ stack'[t][1] = f
  BY SMT
<1>2. Config!Setting(t)' <=> f.at # "compare"
  BY <1>1, StackKinds, KindsNext
<1>3. ~ Hung(t)'
  BY <1>1 DEF Hung
<1> QED
  BY <1>1, <1>2, <1>3, Zenon DEF Told
\* And where its inner call is.
LEMMA Inner ==
  ASSUME NEW t \in Callers, stack[t] \in Seq(CallRecords), StackOk(stack[t]), NEW f, NEW g,
         stack[t] = <<f, g>>
  PROVE  /\ Config!Setting(t) /\ (Hung(t) <=> f.at # "compare") /\ Config!Reading(t)
         /\ \A l : Told(t, l) <=> IF l \in Config!ToSet(g.todo) THEN Follows(l)
                                  ELSE copy[l] = g.v /\ (g.v \in Bad => l \notin Checks)
<1> HIDE DEF CallRecords
<1>1. Len(stack[t]) = 2 /\ stack[t][1] = f /\ stack[t][2] = g
  BY SMT
<1>2. Config!Setting(t) /\ Config!Reading(t)
  BY <1>1, StackKinds, Kinds
<1> QED
  BY <1>1, <1>2, Zenon DEF Told, Hung

\* What a thread with a call inside another one has told its listeners.
LEMMA InnerNext ==
  ASSUME NEW t \in Callers, stack'[t] \in Seq(CallRecords), StackOk(stack'[t]), NEW f, NEW g,
         stack'[t] = <<f, g>>
  PROVE  /\ Config!Setting(t)' /\ (Hung(t)' <=> f.at # "compare")
         /\ \A l : Told(t, l)' <=> IF l \in Config!ToSet(g.todo) THEN Follows(l)'
                                   ELSE copy'[l] = g.v /\ (g.v \in Bad => l \notin Checks)
<1> HIDE DEF CallRecords
<1>1. Len(stack'[t]) = 2 /\ stack'[t][1] = f /\ stack'[t][2] = g
  BY SMT
<1>2. Config!Setting(t)'
  BY <1>1, StackKinds, KindsNext
<1> QED
  BY <1>1, <1>2, Zenon DEF Told, Hung

\* What a step of a call must keep.
LEMMA CallStep ==
  ASSUME ConfigInv, NEW t \in Callers, NEW r \in Seq(CallRecords), StackOk(r),
         stack' = [stack EXCEPT ![t] = r], UNCHANGED <<m_cbs, adding, calls>>,
         m_val' \in Values, copy' \in [Listeners -> Values],
         mishaps \subseteq mishaps', mishaps' \subseteq {"overlap", "threw"}, stack[t] # <<>>,
         Calm' /\ Config!Setting(t)' =>
            Config!Setting(t) \/ \A u \in Callers \ {t} : ~ Config!Setting(u) /\ adding[u] = {},
         Calm' /\ ~ Config!Setting(t) => \A l : Follows(l) => Follows(l)',
         Calm' /\ ~ Config!Setting(t) /\ ~ Config!Setting(t)' => UNCHANGED <<m_val, copy>>,
         Calm' /\ Config!Setting(t)
              /\ ~ Config!Setting(t)' => \A l \in Config!ToSet(m_cbs) : Follows(l)',
         Calm' /\ Config!Setting(t)' /\ ~ Hung(t)' => \A l \in Config!ToSet(m_cbs) : Told(t, l)'
  PROVE  ConfigInv'
<1> HIDE DEF CallRecords
<1>1. /\ stack' \in [Callers -> Seq(CallRecords)] /\ Stacked' /\ stack'[t] = r
      /\ \A u \in Callers \ {t} : stack'[u] = stack[u]
  BY OneStack DEF ConfigInv, ConfigTypes
<1>2. ConfigTypes' /\ Stacked'
  BY <1>1 DEF ConfigInv, ConfigTypes
<1>3. adding[t] = {}
  BY DEF ConfigInv, Registering, AddingOne
<1>4. Registering'
  BY <1>1, <1>3 DEF ConfigInv, Registering, AddingOne
<1>5. \A u \in Callers \ {t} : (Config!Setting(u)' <=> Config!Setting(u)) /\ (Hung(u)' <=> Hung(u))
  BY <1>1 DEF Config!Setting, Hung
<1>6. Alone'
  BY <1>3, <1>5 DEF ConfigInv, Alone, Calm
<1>7. Following'
  <2>1. CASE ~ Calm'
    BY <2>1 DEF Following
  <2>2. CASE Calm' /\ Config!Setting(t)
    <3>1. \A u \in Callers : (u # t => ~ Config!Setting(u)') /\ adding'[u] = {}
      BY <1>3, <1>5, <2>2 DEF ConfigInv, Alone, Calm
    <3> QED
      BY <2>2, <3>1 DEF Following
  <2>3. CASE Calm' /\ ~ Config!Setting(t) /\ Config!Setting(t)'
    <3>1. \A u \in Callers : (u # t => ~ Config!Setting(u)') /\ adding'[u] = {}
      BY <1>3, <1>5, <2>3
    <3> QED
      BY <2>3, <3>1 DEF Following
  <2>4. CASE Calm' /\ ~ Config!Setting(t) /\ ~ Config!Setting(t)'
    <3>1. \A u \in Callers \ {t} : \A l : Told(u, l) => Told(u, l)'
      BY <1>1, <2>4, KeepTold
    <3>2. Calm
      BY <2>4 DEF Calm
    <3>3. (\A u \in Callers : ~ Config!Setting(u)') => \A l \in Config!ToSet(m_cbs) : Follows(l)'
      BY <1>5, <2>4, <3>2 DEF ConfigInv, Following
    <3>4. \A u \in Callers : \A l \in adding[u] : Follows(l)'
      BY <2>4, <3>2 DEF ConfigInv, Following
    <3>5. ASSUME NEW u \in Callers, Config!Setting(u)', ~ Hung(u)', NEW l \in Config!ToSet(m_cbs)
          PROVE  Told(u, l)'
      <4>1. u # t
        BY <2>4, <3>5
      <4>2. Config!Setting(u) /\ ~ Hung(u)
        BY <1>5, <3>5, <4>1
      <4> QED
        BY <3>1, <3>2, <3>5, <4>1, <4>2 DEF ConfigInv, Following
    <3> QED
      BY <3>3, <3>4, <3>5 DEF Following
  <2> QED
    BY <2>1, <2>2, <2>3, <2>4
<1> QED
  BY <1>2, <1>4, <1>6, <1>7 DEF ConfigInv

\* setValue compares.
LEMMA StepCompare ==
  ASSUME ConfigInv, NEW t \in Callers, Config!Compare(t), Config!ConfigAssumption
  PROVE  ConfigInv'
<1> HIDE DEF CallRecords
<1> DEFINE s == stack[t]
           f == s[1]
           g == s[2]
           k == [f EXCEPT !.at = "notify", !.todo = m_cbs]
<1>1. /\ s \in Seq(CallRecords) /\ StackOk(s) /\ s # <<>> /\ Head(s).at = "compare"
      /\ UNCHANGED <<m_val, m_cbs, adding, copy, calls>>
      /\ m_val \in Values /\ copy \in [Listeners -> Values]
      /\ mishaps \subseteq {"overlap", "threw"}
      /\ m_cbs \in Seq(Listeners) /\ Config!IsInjective(m_cbs)
  BY DEF Config!Compare, Config!At, Config!Top, ConfigInv, ConfigTypes, Stacked
<1>2. /\ Head(s) = f /\ f \in CallRecords /\ Config!IsInjective(f.todo)
      /\ \/ Len(s) = 1 /\ Tail(s) = <<>> /\ s = <<f>>
            /\ \A x, y : <<x>> \o Tail(s) = <<x>> /\ <<x, y>> \o Tail(s) = <<x, y>>
         \/ Len(s) = 2 /\ Tail(s) = <<g>> /\ s = <<f, g>> /\ f.v = Good
            /\ g.at = "notify" /\ g \in CallRecords /\ Config!IsInjective(g.todo)
            /\ \A x \in CallRecords : <<x>> \o Tail(s) = <<x, g>>
  BY <1>1, StackShape
<1>3. f.at = "compare" /\ Config!Top(t) = f /\ s = stack[t]
  BY <1>1, <1>2 DEF Config!Top
<1> HIDE DEF s, f, g
<1>4. k \in CallRecords /\ k.at = "notify" /\ k.todo = m_cbs /\ k.v = f.v
  <2>1. k = [v |-> f.v, at |-> "notify", todo |-> m_cbs]
    BY <1>1, <1>2, FrameFacts
  <2>2. f.v \in Values
    BY <1>2, FrameFacts
  <2>3. [v |-> f.v, at |-> "notify", todo |-> m_cbs] \in CallRecords
    BY <1>1, <2>2, FrameFacts
  <2> HIDE DEF k
  <2> QED
    BY <2>1, <2>3
<1> HIDE DEF k
<1>5. \A l : Follows(l) => Follows(l)'
  BY <1>1, KeepFollows DEF Config!Compare
<1>6. CASE f.v = m_val
  <2>1. stack' = [stack EXCEPT ![t] = Tail(s)] /\ mishaps' = mishaps
    BY <1>3, <1>6 DEF Config!Compare
  <2>2. CASE s = <<f>> /\ Tail(s) = <<>>
    <3>1. /\ <<>> \in Seq(CallRecords) /\ StackOk(<<>>)
      BY DEF StackOk
    <3>2. stack' = [stack EXCEPT ![t] = <<>>]
      BY <2>1, <2>2
    <3>3. stack'[t] = <<>>
      BY <3>1, <3>2, OneStack DEF ConfigInv, ConfigTypes
    <3>4. ~ Config!Setting(t)
      BY <1>1, <1>3, <2>2, Outer
    <3>5. ~ Config!Setting(t)'
      BY <3>3 DEF Config!Setting
    <3> QED
      BY <1>1, <1>3, <1>5, <2>1, <3>1, <3>2, <3>4, <3>5, CallStep
  <2>3. CASE s = <<f, g>> /\ Tail(s) = <<g>> /\ g.at = "notify" /\ g \in CallRecords
             /\ Config!IsInjective(g.todo)
    <3>1. <<g>> \in Seq(CallRecords) /\ StackOk(<<g>>)
      BY <2>3, StackOne
    <3>2. stack' = [stack EXCEPT ![t] = <<g>>]
      BY <2>1, <2>3
    <3>3. stack'[t] = <<g>>
      BY <3>1, <3>2, OneStack DEF ConfigInv, ConfigTypes
    <3>4. /\ Config!Setting(t) /\ ~ Hung(t)
          /\ \A l : Told(t, l) <=> IF l \in Config!ToSet(g.todo) THEN Follows(l)
                                  ELSE copy[l] = g.v /\ (g.v \in Bad => l \notin Checks)
      <4>1. stack[t] = <<f, g>> /\ stack[t] \in Seq(CallRecords) /\ StackOk(stack[t])
        BY <1>1, <1>3, <2>3
      <4> QED
        BY <1>3, <4>1, Inner
    <3>5. /\ Config!Setting(t)' /\ ~ Hung(t)'
          /\ \A l : Told(t, l)' <=> IF l \in Config!ToSet(g.todo) THEN Follows(l)'
                                   ELSE copy'[l] = g.v /\ (g.v \in Bad => l \notin Checks)
      BY <2>3, <3>1, <3>3, OuterNext
    <3>6. Calm' => \A l \in Config!ToSet(m_cbs) : Told(t, l)'
      <4> SUFFICES ASSUME Calm', NEW l \in Config!ToSet(m_cbs) PROVE Told(t, l)'
        OBVIOUS
      <4>1. Told(t, l)
        BY <2>1, <3>4 DEF Calm, ConfigInv, Following
      <4> QED
        BY <1>1, <1>5, <3>4, <3>5, <4>1
    <3> QED
      BY <1>1, <1>3, <2>1, <3>1, <3>2, <3>4, <3>5, <3>6, CallStep
  <2> QED
    BY <1>2, <2>2, <2>3
<1>7. CASE f.v # m_val
  <2>1. /\ stack' = [stack EXCEPT ![t] = <<k>> \o Tail(s)]
        /\ mishaps' = IF \E u \in Callers \ {t} : Config!Setting(u) \/ adding[u] # {}
                      THEN mishaps \cup {"overlap"} ELSE mishaps
    BY <1>3, <1>7 DEF Config!Compare, Config!Goto, k, s
  <2>2. /\ mishaps \subseteq mishaps' /\ mishaps' \subseteq {"overlap", "threw"}
        /\ Calm' => Calm /\ \A u \in Callers \ {t} : ~ Config!Setting(u) /\ adding[u] = {}
    BY <1>1, <2>1 DEF Calm
  <2>3. CASE s = <<f>> /\ <<k>> \o Tail(s) = <<k>>
    <3>1. <<k>> \in Seq(CallRecords) /\ StackOk(<<k>>)
      BY <1>1, <1>4, StackOne
    <3>2. stack' = [stack EXCEPT ![t] = <<k>>]
      BY <2>1, <2>3
    <3>3. stack'[t] = <<k>>
      BY <3>1, <3>2, OneStack DEF ConfigInv, ConfigTypes
    <3>4. ~ Config!Setting(t)
      BY <1>1, <1>3, <2>3, Outer
    <3>5. /\ Config!Setting(t)'
          /\ \A l : Told(t, l)' <=> IF l \in Config!ToSet(k.todo) THEN Follows(l)'
                                   ELSE copy'[l] = k.v /\ (k.v \in Bad => l \notin Checks)
      BY <1>4, <3>1, <3>3, OuterNext
    <3>6. Calm' => \A l \in Config!ToSet(m_cbs) : Told(t, l)'
      <4> SUFFICES ASSUME Calm', NEW l \in Config!ToSet(m_cbs) PROVE Told(t, l)'
        OBVIOUS
      <4>1. \A u \in Callers : ~ Config!Setting(u)
        BY <2>2, <3>4
      <4>2. Follows(l)
        BY <2>2, <4>1 DEF ConfigInv, Following
      <4> QED
        BY <1>4, <1>5, <3>5, <4>2
    <3> QED
      BY <1>1, <1>3, <1>5, <2>2, <3>1, <3>2, <3>4, <3>5, <3>6, CallStep
  <2>4. CASE s = <<f, g>> /\ <<k>> \o Tail(s) = <<k, g>> /\ g.at = "notify" /\ g \in CallRecords
             /\ Config!IsInjective(g.todo) /\ f.v = Good
    <3>1. <<k, g>> \in Seq(CallRecords) /\ StackOk(<<k, g>>)
      BY <1>1, <1>4, <2>4, StackTwo
    <3>2. stack' = [stack EXCEPT ![t] = <<k, g>>]
      BY <2>1, <2>4
    <3>3. stack'[t] = <<k, g>>
      BY <3>1, <3>2, OneStack DEF ConfigInv, ConfigTypes
    <3>4. Config!Setting(t)
      BY <1>1, <1>3, <2>4, Inner
    <3>5. Config!Setting(t)' /\ Hung(t)'
      BY <1>4, <2>4, <3>1, <3>3, InnerNext
    <3> QED
      BY <1>1, <1>3, <2>2, <3>1, <3>2, <3>4, <3>5, CallStep
  <2> QED
    BY <1>2, <1>4, <2>3, <2>4
<1> QED
  BY <1>6, <1>7

\* A listener is called.
LEMMA StepNotify ==
  ASSUME ConfigInv, NEW t \in Callers, Config!Notify(t), Config!ConfigAssumption
  PROVE  ConfigInv'
<1> HIDE DEF CallRecords
<1> DEFINE s == stack[t]
           f == s[1]
           g == s[2]
           l == Head(f.todo)
           k == [f EXCEPT !.todo = Tail(f.todo)]
<1>1. /\ s \in Seq(CallRecords) /\ StackOk(s) /\ s # <<>> /\ Head(s).at = "notify"
      /\ UNCHANGED <<m_val, m_cbs, adding, calls>>
      /\ m_val \in Values /\ copy \in [Listeners -> Values]
      /\ mishaps \subseteq {"overlap", "threw"}
      /\ m_cbs \in Seq(Listeners) /\ Config!IsInjective(m_cbs)
      /\ Good \in Values /\ Good \notin Bad
  BY DEF Config!Notify, Config!At, Config!Top, ConfigInv, ConfigTypes, Stacked,
     Config!ConfigAssumption
<1>2. /\ Head(s) = f /\ f \in CallRecords /\ Config!IsInjective(f.todo)
      /\ \/ Len(s) = 1 /\ Tail(s) = <<>> /\ s = <<f>>
            /\ \A x, y : <<x>> \o Tail(s) = <<x>> /\ <<x, y>> \o Tail(s) = <<x, y>>
         \/ Len(s) = 2 /\ Tail(s) = <<g>> /\ s = <<f, g>> /\ f.v = Good
            /\ g.at = "notify" /\ g \in CallRecords /\ Config!IsInjective(g.todo)
            /\ \A x \in CallRecords : <<x>> \o Tail(s) = <<x, g>>
  BY <1>1, StackShape
<1>3. f.at = "notify" /\ Config!Top(t) = f /\ s = stack[t] /\ f.todo # <<>> /\ f.v \in Values
      /\ f.todo \in Seq(Listeners)
  BY <1>1, <1>2, FrameFacts DEF Config!Top, Config!Notify
<1>0. /\ l = Head(Config!Top(t).todo) /\ f.v = Config!Top(t).v
      /\ k = [Config!Top(t) EXCEPT !.todo = Tail(@)]
  BY <1>3, Zenon
<1> HIDE DEF s, f, g
<1>4. /\ l \in Listeners /\ Tail(f.todo) \in Seq(Listeners) /\ Config!IsInjective(Tail(f.todo))
      /\ Config!ToSet(f.todo) = Config!ToSet(Tail(f.todo)) \cup {l}
      /\ l \notin Config!ToSet(Tail(f.todo))
  BY <1>2, <1>3, ListFacts
<1>5. k \in CallRecords /\ k.at = "notify" /\ k.todo = Tail(f.todo) /\ k.v = f.v
  <2>1. k = [v |-> f.v, at |-> f.at, todo |-> Tail(f.todo)]
    BY <1>2, <1>4, FrameFacts
  <2>3. [v |-> f.v, at |-> "notify", todo |-> Tail(f.todo)] \in CallRecords
    BY <1>3, <1>4, FrameFacts
  <2> HIDE DEF k
  <2> QED
    BY <1>3, <2>1, <2>3
<1> HIDE DEF k, l
<1>6. Config!Setting(t)
  <2>1. CASE s = <<f>>
    BY <1>1, <1>3, <2>1, Outer
  <2>2. CASE s = <<f, g>>
    BY <1>1, <1>3, <2>2, Inner
  <2> QED
    BY <1>2, <2>1, <2>2
<1>7. CASE l \in Checks /\ f.v \in Bad
  <2>1. /\ mishaps' = mishaps \cup {"threw"} /\ copy' = copy
        /\ stack' = [stack EXCEPT ![t] = <<>>]
    BY <1>7, <1>0 DEF Config!Notify
  <2>2. s = <<f>>
    BY <1>1, <1>2, <1>7
  <2>3. <<>> \in Seq(CallRecords) /\ StackOk(<<>>)
    BY DEF StackOk
  <2>4. stack'[t] = <<>>
    BY <2>1, <2>3, OneStack DEF ConfigInv, ConfigTypes
  <2>5. ~ Config!Setting(t)'
    BY <2>4 DEF Config!Setting
  <2>6. /\ ~ Hung(t)
        /\ \A x : Told(t, x) <=> IF x \in Config!ToSet(f.todo) THEN Follows(x)
                                ELSE copy[x] = f.v /\ (f.v \in Bad => x \notin Checks)
    BY <1>1, <1>3, <2>2, Outer
  <2>7. Calm' => \A x \in Config!ToSet(m_cbs) : Follows(x)'
    <3> SUFFICES ASSUME Calm', NEW x \in Config!ToSet(m_cbs) PROVE Follows(x)'
      OBVIOUS
    <3>1. Told(t, x)
      BY <1>6, <2>1, <2>6 DEF Calm, ConfigInv, Following
    <3> QED
      BY <1>1, <1>7, <2>1, <2>6, <3>1 DEF Follows
  <2>8. /\ mishaps \subseteq mishaps' /\ mishaps' \subseteq {"overlap", "threw"}
        /\ stack[t] # <<>> /\ copy' \in [Listeners -> Values]
    BY <1>1, <1>3, <2>1
  <2> QED
    BY <1>1, <1>6, <2>1, <2>3, <2>5, <2>7, <2>8, CallStep
<1>8. CASE ~ (l \in Checks /\ f.v \in Bad)
  <2>1. /\ copy' = [copy EXCEPT ![l] = f.v] /\ mishaps' = mishaps
        /\ IF l \in Clamps /\ f.v \in Bad
           THEN stack' = [stack EXCEPT ![t] = <<Config!Calling(Good), k>> \o Tail(s)]
           ELSE stack' = [stack EXCEPT ![t] = <<k>> \o Tail(s)]
    BY <1>8, <1>0, <1>3 DEF Config!Notify, Config!Goto
  <2>2. /\ copy' \in [Listeners -> Values] /\ copy'[l] = f.v
        /\ \A x \in Listeners \ {l} : copy'[x] = copy[x]
    BY <1>1, <1>3, <1>4, <2>1
  <2>3. \A x \in Listeners \ {l} : Follows(x) => Follows(x)'
    BY <1>1, <2>1, <2>2 DEF Follows
  <2>4. ASSUME s = <<f>>, NEW x \in Config!ToSet(m_cbs), Calm
        PROVE  IF x \in Config!ToSet(k.todo) THEN Follows(x)'
               ELSE copy'[x] = k.v /\ (k.v \in Bad => x \notin Checks)
    <3>1. /\ ~ Hung(t)
          /\ Told(t, x) <=> IF x \in Config!ToSet(f.todo) THEN Follows(x)
                            ELSE copy[x] = f.v /\ (f.v \in Bad => x \notin Checks)
      BY <1>1, <1>3, <2>4, Outer
    <3>2. Told(t, x)
      BY <1>6, <2>4, <3>1 DEF ConfigInv, Following
    <3>3. x \in Listeners
      BY <1>1, ListFacts
    <3> QED
      BY <1>4, <1>5, <1>8, <2>2, <2>3, <3>1, <3>2, <3>3
  <2>5. Calm' => Calm
    BY <2>1 DEF Calm
  <2>6. CASE s = <<f>> /\ <<k>> \o Tail(s) = <<k>>
             /\ <<Config!Calling(Good), k>> \o Tail(s) = <<Config!Calling(Good), k>>
    <3>1. CASE l \in Clamps /\ f.v \in Bad
      <4> DEFINE c == Config!Calling(Good)
      <4>1. c \in CallRecords /\ c.v = Good /\ c.at = "compare" /\ c.todo = <<>>
        BY <1>1, FrameFacts
      <4>2. stack' = [stack EXCEPT ![t] = <<c, k>>]
        BY <2>1, <2>6, <3>1
      <4> HIDE DEF c
      <4>3. <<c, k>> \in Seq(CallRecords) /\ StackOk(<<c, k>>)
        <5>1. Config!IsInjective(c.todo)
          BY <4>1 DEF Config!IsInjective
        <5> QED
          BY <1>4, <1>5, <4>1, <5>1, StackTwo
      <4>4. stack'[t] = <<c, k>>
        BY <4>2, <4>3, OneStack DEF ConfigInv, ConfigTypes
      <4>5. /\ Config!Setting(t)' /\ ~ Hung(t)'
            /\ \A x : Told(t, x)' <=> IF x \in Config!ToSet(k.todo) THEN Follows(x)'
                                     ELSE copy'[x] = k.v /\ (k.v \in Bad => x \notin Checks)
        BY <4>1, <4>3, <4>4, InnerNext
      <4>6. Calm' => \A x \in Config!ToSet(m_cbs) : Told(t, x)'
        BY <2>4, <2>5, <2>6, <4>5
      <4> QED
        BY <1>1, <1>3, <1>6, <2>1, <2>2, <4>2, <4>3, <4>5, <4>6, CallStep
    <3>2. CASE ~ (l \in Clamps /\ f.v \in Bad)
      <4>2. stack' = [stack EXCEPT ![t] = <<k>>]
        BY <2>1, <2>6, <3>2
      <4>3. <<k>> \in Seq(CallRecords) /\ StackOk(<<k>>)
        BY <1>4, <1>5, StackOne
      <4>4. stack'[t] = <<k>>
        BY <4>2, <4>3, OneStack DEF ConfigInv, ConfigTypes
      <4>5. /\ Config!Setting(t)' /\ ~ Hung(t)'
            /\ \A x : Told(t, x)' <=> IF x \in Config!ToSet(k.todo) THEN Follows(x)'
                                     ELSE copy'[x] = k.v /\ (k.v \in Bad => x \notin Checks)
        BY <1>5, <4>3, <4>4, OuterNext
      <4>6. Calm' => \A x \in Config!ToSet(m_cbs) : Told(t, x)'
        BY <2>4, <2>5, <2>6, <4>5
      <4> QED
        BY <1>1, <1>3, <1>6, <2>1, <2>2, <4>2, <4>3, <4>5, <4>6, CallStep
    <3> QED
      BY <3>1, <3>2
  <2>7. CASE s = <<f, g>> /\ <<k>> \o Tail(s) = <<k, g>> /\ g.at = "notify" /\ g \in CallRecords
             /\ Config!IsInjective(g.todo) /\ f.v = Good
    <3>1. stack' = [stack EXCEPT ![t] = <<k, g>>]
      BY <1>1, <2>1, <2>7
    <3>2. <<k, g>> \in Seq(CallRecords) /\ StackOk(<<k, g>>)
      BY <1>4, <1>5, <2>7, StackTwo
    <3>3. stack'[t] = <<k, g>>
      BY <3>1, <3>2, OneStack DEF ConfigInv, ConfigTypes
    <3>4. Config!Setting(t)' /\ Hung(t)'
      BY <1>5, <3>2, <3>3, InnerNext
    <3> QED
      BY <1>1, <1>3, <1>6, <2>1, <2>2, <3>1, <3>2, <3>4, CallStep
  <2> QED
    BY <1>2, <1>5, <2>6, <2>7
<1> QED
  BY <1>7, <1>8

\* The read lock is released.
LEMMA StepUnlock ==
  ASSUME ConfigInv, NEW t \in Callers, Config!Unlock(t), Config!ConfigAssumption
  PROVE  ConfigInv'
<1> HIDE DEF CallRecords
<1> DEFINE s == stack[t]
           f == s[1]
           g == s[2]
           k == [f EXCEPT !.at = "assign"]
<1>1. /\ s \in Seq(CallRecords) /\ StackOk(s) /\ s # <<>> /\ Head(s).at = "notify"
      /\ UNCHANGED <<m_val, m_cbs, adding, copy, calls, mishaps>>
      /\ m_val \in Values /\ copy \in [Listeners -> Values]
      /\ mishaps \subseteq {"overlap", "threw"}
  BY DEF Config!Unlock, Config!At, Config!Top, ConfigInv, ConfigTypes, Stacked
<1>2. /\ Head(s) = f /\ f \in CallRecords /\ Config!IsInjective(f.todo)
      /\ \/ Len(s) = 1 /\ Tail(s) = <<>> /\ s = <<f>>
            /\ \A x, y : <<x>> \o Tail(s) = <<x>> /\ <<x, y>> \o Tail(s) = <<x, y>>
         \/ Len(s) = 2 /\ Tail(s) = <<g>> /\ s = <<f, g>> /\ f.v = Good
            /\ g.at = "notify" /\ g \in CallRecords /\ Config!IsInjective(g.todo)
            /\ \A x \in CallRecords : <<x>> \o Tail(s) = <<x, g>>
  BY <1>1, StackShape
<1>3. f.at = "notify" /\ Config!Top(t) = f /\ s = stack[t] /\ f.todo = <<>> /\ f.v \in Values
  BY <1>1, <1>2, FrameFacts DEF Config!Top, Config!Unlock
<1>0. k = [Config!Top(t) EXCEPT !.at = "assign"]
  BY <1>3, Zenon
<1> HIDE DEF s, f, g
<1>5. k \in CallRecords /\ k.at = "assign" /\ k.todo = <<>> /\ k.v = f.v
  <2>1. k = [v |-> f.v, at |-> "assign", todo |-> <<>>]
    BY <1>2, <1>3, FrameFacts
  <2>2. <<>> \in Seq(Listeners)
    OBVIOUS
  <2>3. [v |-> f.v, at |-> "assign", todo |-> <<>>] \in CallRecords
    BY <1>3, <2>2, FrameFacts
  <2> HIDE DEF k
  <2> QED
    BY <1>3, <2>1, <2>3
<1> HIDE DEF k
<1>4. stack' = [stack EXCEPT ![t] = <<k>> \o Tail(s)]
  BY <1>0, <1>3 DEF Config!Unlock, Config!Goto
<1>6. Config!IsInjective(k.todo)
  BY <1>5 DEF Config!IsInjective
<1>7. CASE s = <<f>> /\ <<k>> \o Tail(s) = <<k>>
  <2>1. stack' = [stack EXCEPT ![t] = <<k>>]
    BY <1>4, <1>7
  <2>2. <<k>> \in Seq(CallRecords) /\ StackOk(<<k>>)
    BY <1>5, <1>6, StackOne
  <2>3. stack'[t] = <<k>>
    BY <2>1, <2>2, OneStack DEF ConfigInv, ConfigTypes
  <2>4. /\ Config!Setting(t)' /\ ~ Hung(t)'
        /\ \A x : Told(t, x)' <=> IF x \in Config!ToSet(k.todo) THEN Follows(x)'
                                 ELSE copy'[x] = k.v /\ (k.v \in Bad => x \notin Checks)
    BY <1>5, <2>2, <2>3, OuterNext
  <2>5. /\ Config!Setting(t) /\ ~ Hung(t)
        /\ \A x : Told(t, x) <=> IF x \in Config!ToSet(f.todo) THEN Follows(x)
                                ELSE copy[x] = f.v /\ (f.v \in Bad => x \notin Checks)
    BY <1>1, <1>3, <1>7, Outer
  <2>6. Calm' => \A x \in Config!ToSet(m_cbs) : Told(t, x)'
    <3> SUFFICES ASSUME Calm', NEW x \in Config!ToSet(m_cbs) PROVE Told(t, x)'
      OBVIOUS
    <3>1. Told(t, x)
      BY <1>1, <2>5 DEF Calm, ConfigInv, Following
    <3>2. Follows(x) => Follows(x)'
      BY <1>1, KeepFollows
    <3> QED
      BY <1>1, <1>3, <1>5, <2>4, <2>5, <3>1, <3>2
  <2> QED
    BY <1>1, <1>3, <2>1, <2>2, <2>4, <2>5, <2>6, CallStep
<1>8. CASE s = <<f, g>> /\ <<k>> \o Tail(s) = <<k, g>> /\ g.at = "notify" /\ g \in CallRecords
           /\ Config!IsInjective(g.todo) /\ f.v = Good
  <2>1. stack' = [stack EXCEPT ![t] = <<k, g>>]
    BY <1>4, <1>8
  <2>2. <<k, g>> \in Seq(CallRecords) /\ StackOk(<<k, g>>)
    BY <1>5, <1>6, <1>8, StackTwo
  <2>3. stack'[t] = <<k, g>>
    BY <2>1, <2>2, OneStack DEF ConfigInv, ConfigTypes
  <2>4. Config!Setting(t)' /\ Hung(t)'
    BY <1>5, <2>2, <2>3, InnerNext
  <2>5. Config!Setting(t)
    BY <1>1, <1>3, <1>8, Inner
  <2> QED
    BY <1>1, <1>3, <2>1, <2>2, <2>4, <2>5, CallStep
<1> QED
  BY <1>2, <1>5, <1>7, <1>8

\* The value is assigned.
LEMMA StepAssign ==
  ASSUME ConfigInv, NEW t \in Callers, Config!Assign(t), Config!ConfigAssumption
  PROVE  ConfigInv'
<1> HIDE DEF CallRecords
<1> DEFINE s == stack[t]
           f == s[1]
           g == s[2]
<1>1. /\ s \in Seq(CallRecords) /\ StackOk(s) /\ s # <<>> /\ Head(s).at = "assign"
      /\ UNCHANGED <<m_cbs, adding, copy, calls, mishaps>> /\ ~ Config!Reading(t)
      /\ m_val \in Values /\ copy \in [Listeners -> Values]
      /\ mishaps \subseteq {"overlap", "threw"}
  BY DEF Config!Assign, Config!Writable, Config!At, Config!Top, ConfigInv, ConfigTypes, Stacked
<1>2. /\ Head(s) = f /\ f \in CallRecords /\ (f.at = "assign" => f.todo = <<>>)
      /\ \/ Len(s) = 1 /\ Tail(s) = <<>> /\ s = <<f>>
         \/ Len(s) = 2 /\ s = <<f, g>> 
  BY <1>1, StackShape
<1>3. f.at = "assign" /\ s = stack[t] /\ f.todo = <<>> /\ f.v \in Values
  BY <1>1, <1>2, FrameFacts
<1>4. stack' = [stack EXCEPT ![t] = Tail(s)] /\ m_val' = f.v
  BY <1>2 DEF Config!Assign, Config!Top
<1> HIDE DEF s, f, g
<1>5. s = <<f>> /\ Tail(s) = <<>>
  <2>1. s # <<f, g>>
    BY <1>1, <1>3, Inner
  <2> QED
    BY <1>2, <2>1
<1>6. <<>> \in Seq(CallRecords) /\ StackOk(<<>>)
  BY DEF StackOk
<1>7. stack' = [stack EXCEPT ![t] = <<>>]
  BY <1>4, <1>5
<1>8. stack'[t] = <<>>
  BY <1>6, <1>7, OneStack DEF ConfigInv, ConfigTypes
<1>9. ~ Config!Setting(t)'
  BY <1>8 DEF Config!Setting
<1>10. /\ Config!Setting(t) /\ ~ Hung(t)
       /\ \A x : Told(t, x) <=> IF x \in Config!ToSet(f.todo) THEN Follows(x)
                               ELSE copy[x] = f.v /\ (f.v \in Bad => x \notin Checks)
  BY <1>1, <1>3, <1>5, Outer
<1>11. Calm' => \A x \in Config!ToSet(m_cbs) : Follows(x)'
  <2> SUFFICES ASSUME Calm', NEW x \in Config!ToSet(m_cbs) PROVE Follows(x)'
    OBVIOUS
  <2>1. Told(t, x)
    BY <1>1, <1>10 DEF Calm, ConfigInv, Following
  <2>2. x \notin Config!ToSet(f.todo)
    BY <1>3 DEF Config!ToSet
  <2> QED
    BY <1>1, <1>4, <1>10, <2>1, <2>2 DEF Follows
<1> QED
  BY <1>1, <1>3, <1>4, <1>6, <1>7, <1>9, <1>10, <1>11, CallStep

\* A user reads the value, to follow it.
LEMMA StepGetValue ==
  ASSUME ConfigInv, NEW t \in Callers, NEW l \in Listeners, Config!GetValue(t, l),
         Config!ConfigAssumption
  PROVE  ConfigInv'
<1> HIDE DEF CallRecords
<1>1. /\ UNCHANGED <<m_val, m_cbs, stack>> /\ calls' \in 0 .. MaxCalls
      /\ stack[t] = <<>> /\ adding[t] = {} /\ adding' = [adding EXCEPT ![t] = {l}]
      /\ l \notin Config!ToSet(m_cbs) /\ \A u \in Callers : l \notin adding[u]
      /\ copy' = [copy EXCEPT ![l] = m_val]
      /\ mishaps' = IF \E u \in Callers : Config!Setting(u) THEN mishaps \cup {"overlap"}
           ELSE mishaps
      /\ DOMAIN adding = Callers
  BY DEF Config!GetValue, Config!Begins, ConfigInv, ConfigTypes, Config!ConfigAssumption,
     Config!Range
<1>2. /\ adding' \in [Callers -> SUBSET Listeners] /\ adding'[t] = {l}
      /\ \A u \in Callers \ {t} : adding'[u] = adding[u]
      /\ copy' \in [Listeners -> Values] /\ copy'[l] = m_val
      /\ \A x \in Listeners \ {l} : copy'[x] = copy[x]
      /\ mishaps' \subseteq {"overlap", "threw"} /\ mishaps \subseteq mishaps'
      /\ Calm' => Calm /\ \A u \in Callers : ~ Config!Setting(u)
  BY <1>1 DEF ConfigInv, ConfigTypes, Calm
<1>3. ConfigTypes' /\ Stacked'
  BY <1>1, <1>2 DEF ConfigInv, ConfigTypes, Stacked
<1>4. Registering'
  BY <1>1, <1>2 DEF ConfigInv, Registering, AddingOne
<1>5. \A u : Config!Setting(u)' <=> Config!Setting(u)
  BY <1>1 DEF Config!Setting
<1>6. Alone'
  BY <1>2, <1>5 DEF Alone, Calm
<1>7. Following'
  <2>1. \A x \in Listeners \ {l} : Follows(x) => Follows(x)'
    BY <1>1, <1>2 DEF Follows
  <2>2. Follows(l)'
    BY <1>1, <1>2 DEF Follows
  <2>3. Config!ToSet(m_cbs) \subseteq Listeners
    BY ListFacts DEF ConfigInv, ConfigTypes
  <2>4. ASSUME Calm' PROVE \A x \in Config!ToSet(m_cbs) : Follows(x)'
    BY <1>1, <1>2, <2>1, <2>3, <2>4 DEF ConfigInv, Following
  <2>5. ASSUME Calm', NEW u \in Callers, NEW x \in adding'[u] PROVE Follows(x)'
    <3>1. CASE x = l
      BY <2>2, <3>1
    <3>2. CASE x # l
      <4>1. x \in adding[u] /\ x \in Listeners
        BY <1>2, <2>5, <3>2
      <4> QED
        BY <1>2, <2>1, <2>5, <3>2, <4>1 DEF ConfigInv, Following
    <3> QED
      BY <3>1, <3>2
  <2> QED
    BY <1>1, <1>2, <1>5, <2>4, <2>5 DEF Following
<1> QED
  BY <1>3, <1>4, <1>6, <1>7 DEF ConfigInv

\* A listener is registered.
LEMMA StepAddListener ==
  ASSUME ConfigInv, NEW t \in Callers, Config!AddListener(t), Config!ConfigAssumption
  PROVE  ConfigInv'
<1> HIDE DEF CallRecords
<1>0. PICK l \in adding[t] : m_cbs' = Append(m_cbs, l)
  BY DEF Config!AddListener
<1>1. /\ UNCHANGED <<m_val, stack, copy, calls, mishaps>>
      /\ adding' = [adding EXCEPT ![t] = {}] /\ m_cbs' = Append(m_cbs, l)
      /\ stack[t] = <<>> /\ adding[t] = {l} /\ l \in Listeners \ Config!ToSet(m_cbs)
      /\ \A u \in Callers \ {t} : l \notin adding[u]
  BY <1>0 DEF Config!AddListener, ConfigInv, Registering, AddingOne
<1>2. /\ adding' \in [Callers -> SUBSET Listeners] /\ adding'[t] = {}
      /\ \A u \in Callers \ {t} : adding'[u] = adding[u]
      /\ m_cbs' \in Seq(Listeners) /\ Config!IsInjective(m_cbs')
      /\ Config!ToSet(m_cbs') = Config!ToSet(m_cbs) \cup {l}
  BY <1>1, ListFacts DEF ConfigInv, ConfigTypes
<1>3. ConfigTypes' /\ Stacked'
  BY <1>1, <1>2 DEF ConfigInv, ConfigTypes, Stacked
<1>4. Registering'
  <2>1. \A u \in Callers \ {t} : \A x : adding[u] = {x} => x # l
    BY <1>1
  <2>2. ASSUME NEW u \in Callers PROVE AddingOne(u)'
    <3>1. AddingOne(u)
      BY DEF ConfigInv, Registering
    <3> QED
      BY <1>1, <1>2, <2>1, <3>1 DEF AddingOne
  <2>3. \A u, w \in Callers : u # w => adding'[u] \cap adding'[w] = {}
    BY <1>2 DEF ConfigInv, Registering
  <2> QED
    BY <2>2, <2>3 DEF Registering
<1>5. \A u : Config!Setting(u)' <=> Config!Setting(u)
  BY <1>1 DEF Config!Setting
<1>6. Alone'
  BY <1>1, <1>2, <1>5 DEF ConfigInv, Alone, Calm
<1>7. ASSUME Calm PROVE \A u \in Callers : ~ Config!Setting(u)
  <2>1. ~ Config!Setting(t)
    BY <1>1 DEF Config!Setting
  <2> QED
    BY <1>1, <1>7, <2>1 DEF ConfigInv, Alone
<1>8. Following'
  <2>1. \A x : Follows(x) => Follows(x)'
    BY <1>1 DEF Follows
  <2>2. Calm' <=> Calm
    BY <1>1 DEF Calm
  <2> QED
    BY <1>1, <1>2, <1>5, <1>7, <2>1, <2>2 DEF ConfigInv, Following
<1> QED
  BY <1>3, <1>4, <1>6, <1>8 DEF ConfigInv

\* A listener is removed.
LEMMA StepDelListener ==
  ASSUME ConfigInv, NEW t \in Callers, NEW l \in Listeners, Config!DelListener(t, l),
         Config!ConfigAssumption
  PROVE  ConfigInv'
<1> HIDE DEF CallRecords
<1>0. PICK i \in DOMAIN m_cbs : m_cbs' = Config!RemoveAt(m_cbs, i)
  BY DEF Config!DelListener
<1>1. /\ UNCHANGED <<m_val, stack, adding, copy, mishaps>> /\ calls' \in 0 .. MaxCalls
  BY DEF Config!DelListener, Config!Begins, ConfigInv, ConfigTypes, Config!ConfigAssumption
<1>2. /\ m_cbs' \in Seq(Listeners) /\ Config!IsInjective(m_cbs')
      /\ Config!ToSet(m_cbs') \subseteq Config!ToSet(m_cbs)
  BY <1>0, ListFacts DEF ConfigInv, ConfigTypes
<1>3. ConfigTypes' /\ Stacked'
  BY <1>1, <1>2 DEF ConfigInv, ConfigTypes, Stacked
<1>4. Registering'
  BY <1>1, <1>2 DEF ConfigInv, Registering, AddingOne
<1>5. \A u : (Config!Setting(u)' <=> Config!Setting(u)) /\ (Hung(u)' <=> Hung(u))
  BY <1>1 DEF Config!Setting, Hung
<1>6. Alone'
  BY <1>1, <1>5 DEF ConfigInv, Alone, Calm
<1>8. Following'
  <2>1. /\ \A x : Follows(x) => Follows(x)'
        /\ \A u, x : Told(u, x) => Told(u, x)'
    BY <1>1 DEF Follows, Told
  <2>2. Calm' <=> Calm
    BY <1>1 DEF Calm
  <2> QED
    BY <1>1, <1>2, <1>5, <2>1, <2>2 DEF ConfigInv, Following
<1> QED
  BY <1>3, <1>4, <1>6, <1>8 DEF ConfigInv

\* It holds at the start.
LEMMA ConfigInit == ASSUME Config!ConfigAssumption, Config!Init PROVE ConfigInv
<1> HIDE DEF CallRecords
<1>1. /\ m_val = Good /\ m_cbs = <<>> /\ stack = [t \in Callers |-> <<>>]
      /\ adding = [t \in Callers |-> {}] /\ copy = [l \in Listeners |-> Good]
      /\ calls = 0 /\ mishaps = {} /\ Good \in Values /\ MaxCalls \in Nat
  BY DEF Config!Init, Config!ConfigAssumption
<1>2. ConfigTypes
  BY <1>1 DEF ConfigTypes, Config!IsInjective
<1>3. Stacked
  BY <1>1 DEF Stacked, StackOk
<1>4. Registering
  BY <1>1 DEF Registering, AddingOne
<1>5. \A t \in Callers : ~ Config!Setting(t)
  BY <1>1 DEF Config!Setting
<1>6. Alone /\ Following
  BY <1>1, <1>5 DEF Alone, Following, Config!ToSet
<1> QED
  BY <1>2, <1>3, <1>4, <1>6 DEF ConfigInv

\* Every step keeps it.
LEMMA ConfigNext == ASSUME Config!ConfigAssumption, ConfigInv, Config!Next PROVE ConfigInv'
BY StepSetValue, StepCompare, StepNotify, StepUnlock, StepAssign, StepGetValue, StepAddListener,
   StepDelListener DEF Config!Next, Config!Run

\* So does a step of others.
LEMMA ConfigStay == ASSUME ConfigInv, UNCHANGED Config!vars PROVE ConfigInv'
<1> HIDE DEF CallRecords
<1>1. UNCHANGED <<m_val, m_cbs, stack, adding, copy, calls, mishaps>>
  BY DEF Config!vars
<1>2. \A t, l : /\ (Config!Setting(t)' <=> Config!Setting(t)) /\ (Hung(t)' <=> Hung(t))
               /\ (Follows(l)' <=> Follows(l)) /\ (Told(t, l)' <=> Told(t, l)) /\ (Calm' <=> Calm)
  BY <1>1 DEF Config!Setting, Hung, Follows, Told, Calm
<1> QED
  BY <1>1, <1>2 DEF ConfigInv, ConfigTypes, Stacked, Registering, AddingOne, Alone, Following

\* And it says what the runs check.
LEMMA ConfigTells == ASSUME ConfigInv PROVE Config!TypeOK /\ Config!FollowersExact
<1> HIDE DEF CallRecords
<1>1. Config!TypeOK
  <2>1. ASSUME NEW t \in Callers, NEW i \in DOMAIN stack[t]
        PROVE  stack[t][i].v \in Values /\ stack[t][i].todo \in Seq(Listeners)
    <3>1. stack[t] \in Seq(CallRecords)
      BY DEF ConfigInv, ConfigTypes
    <3>2. stack[t][i] \in CallRecords
      BY <3>1
    <3> QED
      BY <3>2, FrameFacts
  <2> QED
    BY <2>1 DEF Config!TypeOK, ConfigInv, ConfigTypes
<1>2. ASSUME Config!Quiet, Calm, NEW l \in Config!ToSet(m_cbs) PROVE Follows(l)
  <2>1. \A t \in Callers : ~ Config!Setting(t)
    BY <1>2 DEF Config!Quiet, Config!Setting
  <2> QED
    BY <1>2, <2>1 DEF ConfigInv, Following
<1> QED
  BY <1>1, <1>2 DEF Config!FollowersExact, Calm, Follows
-----------------------------------------------------------------------------
(* Log: a reload of the loggers' definitions.                              *)

\* A logger's level and appenders.
Logger == [level: Nat, appenders: Seq({"file", "stdout"})]

\* The types of the variables.
LogTypes ==
  /\ g_log_defines \in Log!Files /\ file \in Log!Files
  /\ m_loggers \in [Log!ToSet(Names) -> Logger] /\ before \in [Log!ToSet(Names) -> Logger]
  /\ todo \in SUBSET Log!ToSet(Names) /\ at \in Nat /\ ignored \in BOOLEAN
  /\ state \in {"idle", "apply", "remove", "crashed"}

\* Loggers are as a file says; the ones that it lacks log to root's appenders.
LogPlain(m, n) == m[n].level <= Log!DEBUG /\ (n # "root" => m[n].appenders = <<>>)
AsIn(m, f) ==
  \A n \in Log!ToSet(Names) : IF n \in DOMAIN f THEN m[n] = f[n] ELSE LogPlain(m, n)

\* Between two reloads; before the listener of a reload has gone through the new
\* file; and while it goes through what is gone.
LogIdle ==
  /\ AsIn(m_loggers, g_log_defines) /\ Log!SameFile(file, g_log_defines)
  /\ ignored \/ file = g_log_defines
LogKept(n) == n \in DOMAIN g_log_defines /\ Log!Same(file, g_log_defines, n)
LogPartly(n) ==
  IF at = 0 THEN m_loggers[n] = before[n]
  ELSE /\ ~ LogKept(n) /\ m_loggers[n].level = file[n].level
       /\ IF at = 1 THEN m_loggers[n].appenders = before[n].appenders
          ELSE /\ at - 2 < Len(file[n].appenders)
               /\ m_loggers[n].appenders = SubSeq(file[n].appenders, 1, at - 2)
LogApplying ==
  /\ AsIn(before, g_log_defines) /\ todo \subseteq DOMAIN file
  /\ \A i, j \in DOMAIN Names : Names[i] \in DOMAIN file \ todo /\ Names[j] \in todo => i < j
  /\ \A n \in DOMAIN file \ todo : m_loggers[n] = file[n]
  /\ \A n \in Log!ToSet(Names) \ DOMAIN file : m_loggers[n] = before[n]
  /\ \A n \in todo : n # Log!First(todo) => m_loggers[n] = before[n]
  /\ todo # {} => LogPartly(Log!First(todo))
  /\ at # 0 => todo # {}
LogRemoving ==
  /\ \A n \in DOMAIN file : m_loggers[n] = file[n]
  /\ todo \subseteq Log!ToSet(Names) \ DOMAIN file
  /\ \A n \in Log!ToSet(Names) \ (DOMAIN file \cup todo) : LogPlain(m_loggers, n)
  /\ at \in {0, 1} /\ (at = 1 => todo # {} /\ m_loggers[Log!First(todo)].level = Log!UNKNOW)

\* The inductive invariant.
LogInv ==
  /\ LogTypes
  /\ state = "idle" => LogIdle
  /\ state = "apply" => LogApplying
  /\ state = "remove" => LogRemoving
  /\ state = "crashed" => LogApplying /\ at = 0 /\ todo # {}

\* What a file holds.
LEMMA FileFacts ==
  ASSUME Log!LogAssumption, NEW f \in Log!Files
  PROVE  /\ DOMAIN f \subseteq Log!ToSet(Names)
         /\ \A n \in DOMAIN f : /\ f[n] \in Logger /\ f[n].level \in Nat
                                /\ f[n].appenders \in Seq({"file", "stdout"})
<1>1. PICK S \in SUBSET Log!ToSet(Names) : f \in [S -> Log!Define]
  BY DEF Log!Files
<1>2. Log!Define \subseteq Logger
  <2> DEFINE L == Levels \cup {Log!UNKNOW}
             A == Seq({"file", "stdout"})
  <2>1. L \subseteq Nat /\ Appenders \subseteq A
    BY DEF Log!LogAssumption, Log!UNKNOW
  <2> HIDE DEF L, A
  <2>2. [level: L, appenders: Appenders] \subseteq [level: Nat, appenders: A]
    BY <2>1
  <2> QED
    BY <2>2 DEF Log!Define, Logger, L, A
<1>3. DOMAIN f = S /\ \A n \in S : f[n] \in Logger
  BY <1>1, <1>2
<1>4. \A l \in Logger : l.level \in Nat /\ l.appenders \in Seq({"file", "stdout"})
  BY DEF Logger
<1> QED
  BY <1>3, <1>4

\* The file that names no logger.
LEMMA NoFile == <<>> \in Log!Files /\ DOMAIN <<>> = {}
<1> DEFINE e == [n \in {} |-> n]
<1>1. e \in [{} -> Log!Define]
  OBVIOUS
<1>2. e \in Log!Files
  <2>1. {} \in SUBSET Log!ToSet(Names)
    OBVIOUS
  <2> HIDE DEF e
  <2> QED
    BY <1>1, <2>1 DEF Log!Files
<1>3. e = <<>>
  OBVIOUS
<1> QED
  BY <1>2, <1>3

\* The first name of a set is in it, and in front of the others.
LEMMA FirstName ==
  ASSUME Log!LogAssumption, NEW S \in SUBSET Log!ToSet(Names), S # {}
  PROVE  /\ Log!First(S) \in S
         /\ \E k \in DOMAIN Names : /\ Log!First(S) = Names[k]
                                    /\ \A i \in DOMAIN Names : Names[i] \in S => k <= i
<1> DEFINE T == {i \in DOMAIN Names : Names[i] \in S}
<1>1. T \subseteq Nat /\ T # {}
  BY DEF Log!LogAssumption, Log!ToSet
<1>2. \E x \in T : \A y \in T : x <= y
  BY <1>1, Least
<1>3. Log!Min(T) \in T /\ \A y \in T : Log!Min(T) <= y
  BY <1>2 DEF Log!Min
<1>4. Log!First(S) = Names[Log!Min(T)]
  BY DEF Log!First
<1> QED
  BY <1>3, <1>4

\* Two entries of a logger are the logger.
LEMMA LoggerFacts ==
  /\ \A l \in Logger : l.level \in Nat /\ l.appenders \in Seq({"file", "stdout"})
  /\ \A k, l \in Logger : k.level = l.level /\ k.appenders = l.appenders => k = l
<1> DEFINE A == Seq({"file", "stdout"})
           N == Log!ToSet(Names)
<1> HIDE DEF A, N
<1>1. \A l \in [level: Nat, appenders: A] : l.level \in Nat /\ l.appenders \in A
  OBVIOUS
<1>2. \A k, l \in [level: Nat, appenders: A] : k.level = l.level
           /\ k.appenders = l.appenders => k = l
  OBVIOUS
<1> QED
  BY <1>1, <1>2 DEF Logger, A

\* A level or the appenders of one logger are set.
LEMMA SetLevel ==
  ASSUME NEW m \in [Log!ToSet(Names) -> Logger], NEW n \in Log!ToSet(Names), NEW x \in Nat, NEW w,
         w = [m EXCEPT ![n].level = x]
  PROVE  /\ w \in [Log!ToSet(Names) -> Logger] /\ w[n].level = x
         /\ w[n].appenders = m[n].appenders
         /\ \A k \in Log!ToSet(Names) \ {n} : w[k] = m[k]
<1> DEFINE A == Seq({"file", "stdout"})
           N == Log!ToSet(Names)
<1> HIDE DEF A, N
<1>1. m \in [N -> [level: Nat, appenders: A]] /\ n \in N /\ x \in Nat
  BY DEF Logger, A, N
<1>2. /\ w \in [N -> [level: Nat, appenders: A]] /\ w[n].level = x
      /\ w[n].appenders = m[n].appenders /\ \A k \in N \ {n} : w[k] = m[k]
  BY <1>1
<1> QED
  BY <1>2 DEF Logger, A, N
Given(m, n, q) == [m EXCEPT ![n].appenders = q]

\* A logger's appenders set anew.
LEMMA SetAppenders ==
  ASSUME NEW m \in [Log!ToSet(Names) -> Logger], NEW n \in Log!ToSet(Names),
         NEW q \in Seq({"file", "stdout"})
  PROVE  /\ Given(m, n, q) \in [Log!ToSet(Names) -> Logger]
         /\ Given(m, n, q)[n].level = m[n].level /\ Given(m, n, q)[n].appenders = q
         /\ \A k \in Log!ToSet(Names) \ {n} : Given(m, n, q)[k] = m[k]
<1> DEFINE A == Seq({"file", "stdout"})
           N == Log!ToSet(Names)
<1> HIDE DEF A, N
<1>1. m \in [N -> [level: Nat, appenders: A]] /\ n \in N /\ q \in A
  BY DEF Logger, A, N
<1>2. /\ Given(m, n, q) \in [N -> [level: Nat, appenders: A]]
      /\ Given(m, n, q)[n].level = m[n].level
      /\ Given(m, n, q)[n].appenders = q /\ \A k \in N \ {n} : Given(m, n, q)[k] = m[k]
  BY <1>1 DEF Given
<1> QED
  BY <1>2 DEF Logger, A, N

\* It holds at the start.
LEMMA LogInit == ASSUME Log!LogAssumption, Log!Init PROVE LogInv
<1>1. /\ g_log_defines = <<>> /\ file = <<>> /\ todo = {} /\ at = 0 /\ state = "idle"
      /\ m_loggers = [n \in Log!ToSet(Names) |->
           [level |-> Log!DEBUG, appenders |-> IF n = "root" THEN <<"stdout">> ELSE <<>>]]
      /\ before = m_loggers /\ ignored = FALSE
  BY DEF Log!Init
<1>2. /\ m_loggers \in [Log!ToSet(Names) -> Logger]
      /\ \A n \in Log!ToSet(Names) : LogPlain(m_loggers, n)
  <2>1. ASSUME NEW n \in Log!ToSet(Names)
        PROVE  m_loggers[n] \in Logger /\ LogPlain(m_loggers, n)
    <3> DEFINE q == IF n = "root" THEN <<"stdout">> ELSE <<>>
    <3>1. q \in Seq({"file", "stdout"})
      <4>1. <<"stdout">> \in Seq({"file", "stdout"}) /\ <<>> \in Seq({"file", "stdout"})
        OBVIOUS
      <4> QED
        BY <4>1
    <3>2. m_loggers[n] = [level |-> 1, appenders |-> q]
      BY <1>1 DEF Log!DEBUG
    <3> HIDE DEF q
    <3>3. m_loggers[n] \in Logger /\ m_loggers[n].level = 1 /\ m_loggers[n].appenders = q
      BY <3>1, <3>2 DEF Logger
    <3> QED
      BY <3>3 DEF LogPlain, Log!DEBUG, q
  <2> QED
    BY <1>1, <2>1
<1>3. LogTypes
  BY <1>1, <1>2, NoFile DEF LogTypes
<1>4. LogIdle
  BY <1>1, <1>2, NoFile DEF LogIdle, AsIn, Log!SameFile
<1> QED
  BY <1>1, <1>3, <1>4 DEF LogInv

\* A file is loaded.
LEMMA StepLoad == ASSUME Log!LogAssumption, LogInv, NEW f \in Log!Files, Log!Load(f) PROVE LogInv'
<1>1. /\ state = "idle" /\ file' = f /\ at' = 0 /\ before' = m_loggers
      /\ ignored' = (f # g_log_defines /\ Log!SameFile(f, g_log_defines))
      /\ IF Log!SameFile(f, g_log_defines) THEN UNCHANGED <<state, todo>>
         ELSE state' = "apply" /\ todo' = DOMAIN f
      /\ UNCHANGED <<g_log_defines, m_loggers>>
  BY DEF Log!Load
<1>2. DOMAIN f \subseteq Log!ToSet(Names)
  BY FileFacts
<1>3. LogTypes'
  BY <1>1, <1>2 DEF LogInv, LogTypes
<1>4. AsIn(m_loggers, g_log_defines)
  BY <1>1 DEF LogInv, LogIdle
<1>5. CASE Log!SameFile(f, g_log_defines)
  <2>1. LogIdle'
    BY <1>1, <1>4, <1>5 DEF LogIdle
  <2> QED
    BY <1>1, <1>3, <1>5, <2>1 DEF LogInv
<1>6. CASE ~ Log!SameFile(f, g_log_defines)
  <2>1. todo' = DOMAIN f /\ state' = "apply"
    BY <1>1, <1>6
  <2>2. todo' # {} => Log!First(todo') \in todo'
    BY <1>2, <2>1, FirstName
  <2>3. LogApplying'
    <3>1. AsIn(before, g_log_defines)'
      BY <1>1, <1>4
    <3>2. \A n : m_loggers'[n] = before'[n]
      BY <1>1
    <3> QED
      BY <1>1, <2>1, <3>1, <3>2 DEF LogApplying, LogPartly
  <2> QED
    BY <1>3, <2>1, <2>3 DEF LogInv
<1> QED
  BY <1>5, <1>6

\* The listener goes on with a name of the new file.
LEMMA StepApply == ASSUME Log!LogAssumption, LogInv, Log!Apply PROVE LogInv'
<1>n. PICK n : n = Log!First(todo)
  OBVIOUS
<1>q. PICK q : q = file[n].appenders
  OBVIOUS
<1>1. /\ state = "apply" /\ todo # {} /\ UNCHANGED <<g_log_defines, file, before, ignored>>
      /\ LogTypes /\ LogApplying /\ UNCHANGED loads
  BY DEF Log!Apply, LogInv, Log!history
<1>2. n \in todo /\ todo \subseteq DOMAIN file /\ todo \subseteq Log!ToSet(Names)
  BY <1>1, <1>n, FirstName DEF LogApplying, LogTypes
<1>3. /\ file[n] \in Logger /\ file[n].level \in Nat /\ q \in Seq({"file", "stdout"})
      /\ n \in Log!ToSet(Names) /\ n \in DOMAIN file
  BY <1>1, <1>2, <1>q, FileFacts DEF LogTypes
<1>4. LogKept(n) <=> n \in DOMAIN g_log_defines /\ Log!Same(file, g_log_defines, n)
  BY DEF LogKept
<1>0. LogPartly(n)
  BY <1>1, <1>n DEF LogApplying
<1>5. CASE LogKept(n)
  <2>1. state' = "crashed" /\ UNCHANGED <<m_loggers, at, todo>>
    BY <1>n, <1>4, <1>5 DEF Log!Apply
  <2>2. at = 0
    BY <1>0, <1>5 DEF LogPartly
  <2>3. LogTypes' /\ LogApplying'
    <3>1. LogPartly(Log!First(todo))'
      <4>1. Log!First(todo)' = n
        BY <1>n, <2>1 DEF Log!First
      <4> QED
        BY <1>0, <1>1, <2>1, <2>2, <4>1 DEF LogPartly
    <3> QED
      BY <1>1, <2>1, <2>2, <3>1 DEF LogTypes, LogApplying
  <2> QED
    BY <1>1, <2>1, <2>2, <2>3 DEF LogInv
<1>6. CASE ~ LogKept(n)
  <2>1. /\ state' = state
        /\ m_loggers' = CASE at = 0 -> [m_loggers EXCEPT ![n].level = file[n].level]
                          [] at = 1 -> [m_loggers EXCEPT ![n].appenders = <<>>]
                          [] OTHER -> [m_loggers EXCEPT ![n].appenders = Append(@, q[at - 1])]
        /\ IF at <= Len(q) THEN at' = at + 1 /\ todo' = todo
           ELSE at' = 0 /\ todo' = todo \ {n}
    BY <1>n, <1>q, <1>4, <1>6 DEF Log!Apply
  <2>2. at \in Nat /\ Len(q) \in Nat /\ m_loggers \in [Log!ToSet(Names) -> Logger]
        /\ m_loggers[n].appenders \in Seq({"file", "stdout"}) /\ m_loggers[n].level \in Nat
    BY <1>1, <1>3, LoggerFacts DEF LogTypes
  <2>3. /\ m_loggers' \in [Log!ToSet(Names) -> Logger]
        /\ \A k \in Log!ToSet(Names) \ {n} : m_loggers'[k] = m_loggers[k]
        /\ m_loggers'[n].level = file[n].level
        /\ IF at = 0 THEN m_loggers'[n].appenders = before[n].appenders
           ELSE at - 1 <= Len(q) /\ m_loggers'[n].appenders = SubSeq(q, 1, at - 1)
    <3>1. CASE at = 0
      <4>1. m_loggers' = [m_loggers EXCEPT ![n].level = file[n].level]
        BY <2>1, <3>1
      <4>2. m_loggers[n] = before[n]
        BY <1>0, <3>1 DEF LogPartly
      <4> QED
        BY <1>3, <2>2, <3>1, <4>1, <4>2, SetLevel
    <3>2. CASE at = 1
      <4>1. m_loggers' = [m_loggers EXCEPT ![n].appenders = <<>>]
        BY <2>1, <3>2
      <4>2. m_loggers[n].level = file[n].level
        BY <1>0, <3>2 DEF LogPartly
      <4>3. <<>> \in Seq({"file", "stdout"}) /\ SubSeq(q, 1, at - 1) = <<>> /\ 0 <= Len(q)
        BY <1>3, <3>2
      <4>4. /\ m_loggers' \in [Log!ToSet(Names) -> Logger]
            /\ \A k \in Log!ToSet(Names) \ {n} : m_loggers'[k] = m_loggers[k]
            /\ m_loggers'[n].level = m_loggers[n].level /\ m_loggers'[n].appenders = <<>>
        <5>1. m_loggers' = Given(m_loggers, n, <<>>)
          BY <4>1 DEF Given
        <5>2. /\ m_loggers \in [Log!ToSet(Names) -> Logger] /\ n \in Log!ToSet(Names)
              /\ <<>> \in Seq({"file", "stdout"})
          BY <1>3, <2>2, <4>3
        <5>3. /\ Given(m_loggers, n, <<>>) \in [Log!ToSet(Names) -> Logger]
              /\ Given(m_loggers, n, <<>>)[n].level = m_loggers[n].level
              /\ Given(m_loggers, n, <<>>)[n].appenders = <<>>
              /\ \A k \in Log!ToSet(Names) \ {n} : Given(m_loggers, n, <<>>)[k] = m_loggers[k]
          BY <5>2, SetAppenders
        <5> QED
          BY <5>1, <5>3
      <4> QED
        BY <2>2, <3>2, <4>2, <4>3, <4>4
    <3>3. CASE at \notin {0, 1}
      <4> DEFINE a == at - 2
                 x == q[at - 1]
                 p == Append(m_loggers[n].appenders, x)
      <4>1. m_loggers' = [m_loggers EXCEPT ![n].appenders = p]
        BY <2>1, <3>3
      <4>2. /\ m_loggers[n].level = file[n].level /\ a < Len(q) /\ a \in Nat /\ at - 1 = a + 1
            /\ m_loggers[n].appenders = SubSeq(q, 1, a)
        BY <1>0, <1>q, <2>2, <3>3 DEF LogPartly
      <4>3. x = q[a + 1] /\ x \in {"file", "stdout"}
        BY <1>3, <2>2, <4>2
      <4>4. p \in Seq({"file", "stdout"}) /\ p = SubSeq(q, 1, a + 1)
        <5> HIDE DEF a, x
        <5>1. p = Append(SubSeq(q, 1, a), q[a + 1])
          BY <4>2, <4>3
        <5>2. p \in Seq({"file", "stdout"})
          BY <2>2, <4>3
        <5> HIDE DEF p
        <5>3. Append(SubSeq(q, 1, a), q[a + 1]) = SubSeq(q, 1, a + 1)
          BY <1>3, <4>2
        <5> QED
          BY <5>1, <5>2, <5>3
      <4> HIDE DEF p, x
      <4>5. /\ m_loggers' \in [Log!ToSet(Names) -> Logger]
            /\ \A k \in Log!ToSet(Names) \ {n} : m_loggers'[k] = m_loggers[k]
            /\ m_loggers'[n].level = m_loggers[n].level /\ m_loggers'[n].appenders = p
        <5>1. m_loggers' = Given(m_loggers, n, p)
          BY <4>1 DEF Given
        <5>2. /\ m_loggers \in [Log!ToSet(Names) -> Logger] /\ n \in Log!ToSet(Names)
              /\ p \in Seq({"file", "stdout"})
          BY <1>3, <2>2, <4>4
        <5>3. /\ Given(m_loggers, n, p) \in [Log!ToSet(Names) -> Logger]
              /\ Given(m_loggers, n, p)[n].level = m_loggers[n].level
              /\ Given(m_loggers, n, p)[n].appenders = p
              /\ \A k \in Log!ToSet(Names) \ {n} : Given(m_loggers, n, p)[k] = m_loggers[k]
          BY <5>2, SetAppenders
        <5> QED
          BY <5>1, <5>3
      <4> QED
        BY <2>2, <3>3, <4>2, <4>4, <4>5
    <3> QED
      BY <3>1, <3>2, <3>3
  <2>4. LogTypes'
    BY <1>1, <2>1, <2>2, <2>3 DEF LogTypes
  <2>5. CASE at <= Len(q)
    <3>1. at' = at + 1 /\ todo' = todo
      BY <2>1, <2>5
    <3>2. LogPartly(n)'
      <4>1. ~ LogKept(n)'
        BY <1>1, <1>6 DEF LogKept, Log!Same
      <4>2. at' # 0 /\ (at' = 1 <=> at = 0) /\ at' - 2 = at - 1
        BY <2>2, <3>1
      <4> QED
        BY <1>1, <1>q, <2>2, <2>3, <2>5, <3>1, <4>1, <4>2 DEF LogPartly
    <3>3. Log!First(todo)' = n
      BY <1>n, <3>1 DEF Log!First
    <3>4. LogApplying'
      <4>1. AsIn(before, g_log_defines)'
        BY <1>1 DEF LogApplying, AsIn, LogPlain
      <4>2. \A k \in DOMAIN file \ todo : m_loggers'[k] = file[k]
        <5>1. DOMAIN file \subseteq Log!ToSet(Names)
          BY <1>1, FileFacts DEF LogTypes
        <5> QED
          BY <1>1, <1>2, <2>3, <5>1 DEF LogApplying
      <4>3. \A k \in Log!ToSet(Names) \ DOMAIN file : m_loggers'[k] = before[k]
        BY <1>1, <1>3, <2>3 DEF LogApplying
      <4>4. \A k \in todo : k # n => m_loggers'[k] = before[k]
        BY <1>1, <1>2, <1>n, <2>3 DEF LogApplying
      <4> QED
        BY <1>1, <1>2, <3>1, <3>2, <3>3, <4>1, <4>2, <4>3, <4>4 DEF LogApplying
    <3> QED
      BY <1>1, <2>1, <2>4, <3>4 DEF LogInv
  <2>6. CASE ~ (at <= Len(q))
    <3>1. at' = 0 /\ todo' = todo \ {n}
      BY <2>1, <2>6
    <3>2. m_loggers'[n] = file[n]
      <4>1. at # 0 /\ at - 1 = Len(q)
        BY <2>2, <2>3, <2>6
      <4>2. SubSeq(q, 1, Len(q)) = q
        BY <1>3
      <4>3. m_loggers'[n].appenders = q /\ m_loggers'[n].level = file[n].level
                 /\ m_loggers'[n] \in Logger
        BY <1>3, <2>3, <4>1, <4>2
      <4> QED
        BY <1>3, <1>q, <4>3, LoggerFacts
    <3>3. \A k \in todo' : m_loggers'[k] = before'[k]
      BY <1>1, <1>2, <2>3, <3>1, <1>n DEF LogApplying
    <3>4. ASSUME NEW i \in DOMAIN Names, NEW j \in DOMAIN Names,
                 Names[i] \in DOMAIN file \ todo', Names[j] \in todo'
          PROVE  i < j
      <4>1. CASE Names[i] # n
        BY <1>1, <3>1, <3>4, <4>1 DEF LogApplying
      <4>2. CASE Names[i] = n
        <5>1. PICK k \in DOMAIN Names : n = Names[k]
                   /\ \A m \in DOMAIN Names : Names[m] \in todo => k <= m
          BY <1>1, <1>n, FirstName DEF LogTypes
        <5>2. i = k /\ i # j /\ i \in Nat /\ j \in Nat
          BY <3>1, <3>4, <4>2, <5>1 DEF Log!LogAssumption, Log!IsInjective
        <5> QED
          BY <3>1, <3>4, <5>1, <5>2
      <4> QED
        BY <4>1, <4>2
    <3>5. \A k \in DOMAIN file \ todo' : m_loggers'[k] = file'[k]
      <4>1. DOMAIN file \subseteq Log!ToSet(Names)
        BY <1>1, FileFacts DEF LogTypes
      <4> QED
        BY <1>1, <2>3, <3>1, <3>2, <4>1 DEF LogApplying
    <3>6. todo' # {} => LogPartly(Log!First(todo))'
      <4>1. todo' # {} => Log!First(todo)' \in todo'
        <5>1. todo' # {} => Log!First(todo') \in todo'
          BY <2>4, FirstName DEF LogTypes
        <5> QED
          BY <5>1 DEF Log!First
      <4> QED
        BY <3>1, <3>3, <4>1 DEF LogPartly
    <3>7. \A k \in Log!ToSet(Names) \ DOMAIN file : m_loggers'[k] = before'[k]
      BY <1>1, <1>3, <2>3 DEF LogApplying
    <3>8. AsIn(before, g_log_defines)'
      BY <1>1 DEF LogApplying, AsIn, LogPlain
    <3>9. LogApplying'
      BY <1>1, <1>2, <3>1, <3>3, <3>4, <3>5, <3>6, <3>7, <3>8 DEF LogApplying
    <3> QED
      BY <1>1, <2>1, <2>4, <3>9 DEF LogInv
  <2> QED
    BY <2>5, <2>6
<1> QED
  BY <1>5, <1>6

\* The new file is applied, and the listener turns to what is gone.
LEMMA StepApplied == ASSUME Log!LogAssumption, LogInv, Log!Applied PROVE LogInv'
<1>1. /\ state = "apply" /\ todo = {} /\ state' = "remove" /\ todo' = Log!Gone
      /\ UNCHANGED <<g_log_defines, m_loggers, file, at, before, ignored>>
      /\ LogTypes /\ LogApplying
  BY DEF Log!Applied, LogInv, Log!history
<1>2. DOMAIN g_log_defines \subseteq Log!ToSet(Names)
  BY <1>1, FileFacts DEF LogTypes
<1>3. LogTypes'
  BY <1>1, <1>2 DEF LogTypes, Log!Gone
<1>4. LogRemoving'
  <2>1. \A n \in DOMAIN file : m_loggers[n] = file[n]
    BY <1>1 DEF LogApplying
  <2>2. at = 0
    BY <1>1 DEF LogApplying
  <2>3. ASSUME NEW n \in Log!ToSet(Names) \ (DOMAIN file \cup Log!Gone)
        PROVE  LogPlain(m_loggers, n)'
    BY <1>1, <2>3 DEF LogApplying, AsIn, LogPlain, Log!Gone
  <2> QED
    BY <1>1, <1>2, <2>1, <2>2, <2>3 DEF LogRemoving, Log!Gone
<1> QED
  BY <1>1, <1>3, <1>4 DEF LogInv

\* A removed logger logs everything.
LEMMA StepRemoveLevel == ASSUME Log!LogAssumption, LogInv, Log!RemoveLevel PROVE LogInv'
<1>n. PICK n : n = Log!First(todo)
  OBVIOUS
<1>1. /\ state = "remove" /\ todo # {} /\ at = 0 /\ at' = 1
      /\ m_loggers' = [m_loggers EXCEPT ![n].level = Log!UNKNOW]
      /\ UNCHANGED <<g_log_defines, file, todo, state, before, ignored>>
      /\ LogTypes /\ LogRemoving
  BY <1>n DEF Log!RemoveLevel, LogInv, Log!history
<1>2. n \in todo /\ n \in Log!ToSet(Names) /\ DOMAIN file \subseteq Log!ToSet(Names)
           /\ n \notin DOMAIN file
  BY <1>n, <1>1, FirstName, FileFacts DEF LogTypes, LogRemoving
<1>3. /\ m_loggers' \in [Log!ToSet(Names) -> Logger] /\ m_loggers'[n].level = Log!UNKNOW
      /\ \A k \in Log!ToSet(Names) \ {n} : m_loggers'[k] = m_loggers[k]
  <2>1. Log!UNKNOW \in Nat
    BY DEF Log!UNKNOW
  <2> QED
    BY <1>1, <1>2, <2>1, SetLevel DEF LogTypes
<1>4. LogTypes'
  BY <1>1, <1>3 DEF LogTypes
<1>5. Log!First(todo)' = n
  BY <1>1, <1>n DEF Log!First
<1>6. LogRemoving'
  BY <1>1, <1>2, <1>3, <1>5 DEF LogRemoving, LogPlain
<1> QED
  BY <1>1, <1>4, <1>6 DEF LogInv

\* And loses its appenders.
LEMMA StepRemoveAppenders == ASSUME Log!LogAssumption, LogInv, Log!RemoveAppenders PROVE LogInv'
<1>n. PICK n : n = Log!First(todo)
  OBVIOUS
<1>1. /\ state = "remove" /\ at = 1 /\ at' = 0 /\ todo' = todo \ {n}
      /\ m_loggers' = [m_loggers EXCEPT ![n].appenders = <<>>]
      /\ UNCHANGED <<g_log_defines, file, state, before, ignored>>
      /\ LogTypes /\ LogRemoving
  BY <1>n DEF Log!RemoveAppenders, LogInv, Log!history
<1>2. /\ n \in todo /\ n \in Log!ToSet(Names) /\ DOMAIN file \subseteq Log!ToSet(Names)
      /\ n \notin DOMAIN file /\ m_loggers[n].level = 0
  BY <1>n, <1>1, FirstName, FileFacts DEF LogTypes, LogRemoving, Log!UNKNOW
<1>3. /\ m_loggers' \in [Log!ToSet(Names) -> Logger] /\ m_loggers'[n].level = m_loggers[n].level
      /\ m_loggers'[n].appenders = <<>>
      /\ \A k \in Log!ToSet(Names) \ {n} : m_loggers'[k] = m_loggers[k]
  <2>1. m_loggers' = Given(m_loggers, n, <<>>)
    BY <1>1 DEF Given
  <2>2. <<>> \in Seq({"file", "stdout"}) /\ m_loggers \in [Log!ToSet(Names) -> Logger]
    BY <1>1 DEF LogTypes
  <2>3. /\ Given(m_loggers, n, <<>>) \in [Log!ToSet(Names) -> Logger]
        /\ Given(m_loggers, n, <<>>)[n].level = m_loggers[n].level
        /\ Given(m_loggers, n, <<>>)[n].appenders = <<>>
        /\ \A k \in Log!ToSet(Names) \ {n} : Given(m_loggers, n, <<>>)[k] = m_loggers[k]
    <3>1. PICK m : m = m_loggers
      OBVIOUS
    <3>2. PICK q : q = <<>>
      OBVIOUS
    <3>3. m \in [Log!ToSet(Names) -> Logger] /\ n \in Log!ToSet(Names)
      BY <1>2, <2>2, <3>1
    <3>4. q \in Seq({"file", "stdout"})
      BY <2>2, <3>2
    <3>5. /\ Given(m, n, q) \in [Log!ToSet(Names) -> Logger]
          /\ Given(m, n, q)[n].level = m[n].level /\ Given(m, n, q)[n].appenders = q
          /\ \A k \in Log!ToSet(Names) \ {n} : Given(m, n, q)[k] = m[k]
      BY <3>3, <3>4, SetAppenders
    <3> QED
      BY <3>1, <3>2, <3>5
  <2> QED
    BY <2>1, <2>3
<1>4. LogTypes'
  BY <1>1, <1>3 DEF LogTypes
<1>5. LogPlain(m_loggers, n)'
  BY <1>2, <1>3 DEF LogPlain, Log!DEBUG
<1>6. LogRemoving'
  <2>1. \A k \in Log!ToSet(Names) \ (DOMAIN file \cup todo') : LogPlain(m_loggers, k)'
    BY <1>1, <1>3, <1>5 DEF LogRemoving, LogPlain
  <2>2. \A k \in DOMAIN file : m_loggers'[k] = file[k]
    BY <1>1, <1>2, <1>3 DEF LogRemoving
  <2>3. todo' \subseteq Log!ToSet(Names) \ DOMAIN file
    BY <1>1 DEF LogRemoving
  <2>4. at' = 0 /\ file' = file /\ at' \in {0, 1} /\ at' # 1
    BY <1>1
  <2> QED
    BY <2>1, <2>2, <2>3, <2>4 DEF LogRemoving
<1> QED
  BY <1>1, <1>4, <1>6 DEF LogInv

\* The variable takes the value.
LEMMA StepAssigned == ASSUME Log!LogAssumption, LogInv, Log!Assign PROVE LogInv'
<1>1. /\ state = "remove" /\ todo = {} /\ state' = "idle" /\ g_log_defines' = file
      /\ UNCHANGED <<m_loggers, file, todo, at, before, ignored>>
      /\ LogTypes /\ LogRemoving
  BY DEF Log!Assign, LogInv, Log!history
<1>2. LogTypes'
  BY <1>1 DEF LogTypes
<1>3. LogIdle'
  <2>1. Log!SameFile(file, g_log_defines)'
    BY <1>1 DEF Log!SameFile, Log!Same
  <2>2. AsIn(m_loggers, g_log_defines)'
    BY <1>1 DEF LogRemoving, AsIn, LogPlain
  <2> QED
    BY <1>1, <2>1, <2>2 DEF LogIdle
<1> QED
  BY <1>1, <1>2, <1>3 DEF LogInv

\* Every step keeps the invariant.
LEMMA LogNext == ASSUME Log!LogAssumption, LogInv, Log!Next PROVE LogInv'
BY StepLoad, StepApply, StepApplied, StepRemoveLevel, StepRemoveAppenders, StepAssigned
   DEF Log!Next, Log!Reload

\* So does a step of others.
LEMMA LogStay == ASSUME LogInv, UNCHANGED Log!vars PROVE LogInv'
<1>1. UNCHANGED <<g_log_defines, m_loggers, file, todo, at, state, before, ignored>>
  BY DEF Log!vars, Log!history
<1>2. (LogIdle' <=> LogIdle) /\ (LogTypes' <=> LogTypes) /\ (LogRemoving' <=> LogRemoving)
  BY <1>1 DEF LogIdle, AsIn, LogPlain, Log!SameFile, Log!Same, LogTypes, LogRemoving, Log!First
<1>3. LogApplying' <=> LogApplying
  <2>1. Log!First(todo)' = Log!First(todo)
    BY <1>1 DEF Log!First
  <2>2. LogPartly(Log!First(todo))' <=> LogPartly(Log!First(todo))
    BY <1>1, <2>1 DEF LogPartly, LogKept, Log!Same
  <2>3. AsIn(before, g_log_defines)' <=> AsIn(before, g_log_defines)
    BY <1>1 DEF AsIn, LogPlain
  <2> QED
    BY <1>1, <2>1, <2>2, <2>3 DEF LogApplying
<1> QED
  BY <1>1, <1>2, <1>3 DEF LogInv

\* And it says what the runs check.
LEMMA LogTells == ASSUME Log!LogAssumption, LogInv PROVE Log!TypeOK /\ Log!LoggersExact
<1>1. Log!TypeOK
  BY DEF Log!TypeOK, LogInv, LogTypes, Logger
<1>2. /\ LogTypes /\ DOMAIN file \subseteq Log!ToSet(Names)
      /\ \A n \in DOMAIN file : file[n].appenders \in Seq({"file", "stdout"})
  BY FileFacts DEF LogInv, LogTypes
<1>3. ASSUME state = "idle"
      PROVE  /\ \A n \in DOMAIN file :
                  /\ m_loggers[n].level = file[n].level
                  /\ ~ ignored => m_loggers[n].appenders = file[n].appenders
             /\ \A n \in Log!ToSet(Names) \ DOMAIN file :
                  m_loggers[n].level <= Log!DEBUG
                       /\ (n # "root" => Log!Sinks(n, Log!DEBUG) = Log!ToRoot(Log!DEBUG))
  <2>1. LogIdle
    BY <1>3 DEF LogInv
  <2>2. \A n \in DOMAIN file : m_loggers[n].level = file[n].level
    BY <1>2, <2>1 DEF LogIdle, AsIn, Log!SameFile, Log!Same
  <2>3. ~ ignored => \A n \in DOMAIN file : m_loggers[n].appenders = file[n].appenders
    BY <1>2, <2>1 DEF LogIdle, AsIn
  <2>4. ASSUME NEW n \in Log!ToSet(Names) \ DOMAIN file
        PROVE  m_loggers[n].level <= Log!DEBUG
                    /\ (n # "root" => Log!Sinks(n, Log!DEBUG) = Log!ToRoot(Log!DEBUG))
    <3>1. LogPlain(m_loggers, n)
      BY <2>1, <2>4 DEF LogIdle, AsIn, Log!SameFile
    <3>2. m_loggers[n].level \in Nat
      BY <1>2, LoggerFacts DEF LogTypes
    <3>3. m_loggers[n].level <= Log!DEBUG /\ ~ (Log!DEBUG < m_loggers[n].level)
      BY <3>1, <3>2 DEF LogPlain, Log!DEBUG
    <3> QED
      BY <3>1, <3>3 DEF LogPlain, Log!Sinks
  <2> QED
    BY <2>2, <2>3, <2>4
<1>4. ASSUME state # "idle", NEW n \in DOMAIN file
      PROVE  \/ m_loggers[n].appenders = before[n].appenders
             \/ Log!IsPrefix(m_loggers[n].appenders, file[n].appenders)
  <2> DEFINE q == file[n].appenders
             p == m_loggers[n].appenders
  <2>0. q \in Seq({"file", "stdout"}) /\ n \in Log!ToSet(Names)
    BY <1>2
  <2>1. CASE p = q
    BY <2>0, <2>1 DEF Log!IsPrefix
  <2>2. CASE state = "remove"
    <3>1. p = q
      BY <2>2 DEF LogInv, LogRemoving
    <3> QED
      BY <2>1, <3>1
  <2>3. CASE state \in {"apply", "crashed"}
    <3>1. LogApplying
      BY <2>3 DEF LogInv
    <3>2. CASE n \notin todo
      <4>1. p = q
        BY <3>1, <3>2 DEF LogApplying
      <4> QED
        BY <2>1, <4>1
    <3>3. CASE n \in todo /\ n # Log!First(todo)
      BY <3>1, <3>3 DEF LogApplying
    <3>4. CASE n \in todo /\ n = Log!First(todo)
      <4>1. LogPartly(n)
        BY <3>1, <3>4 DEF LogApplying
      <4>2. CASE at \in {0, 1}
        BY <4>1, <4>2 DEF LogPartly
      <4>3. CASE at \notin {0, 1}
        <5> DEFINE a == at - 2
        <5>1. a \in Nat /\ a < Len(q) /\ p = SubSeq(q, 1, a)
          BY <1>2, <4>1, <4>3 DEF LogPartly, LogTypes
        <5> HIDE DEF a, p, q
        <5>2. /\ p \in Seq({"file", "stdout"}) /\ Len(p) = a
              /\ \A i \in 1 .. a : p[i] = q[i]
          BY <2>0, <5>1
        <5>3. SubSeq(p, 1, Len(p)) = p
          BY <5>2
        <5>4. Log!IsPrefix(p, q)
          BY <2>0, <5>1, <5>2, <5>3 DEF Log!IsPrefix
        <5> QED
          BY <5>4 DEF p, q
      <4> QED
        BY <4>2, <4>3
    <3> QED
      BY <3>2, <3>3, <3>4
  <2> QED
    BY <1>2, <1>4, <2>2, <2>3 DEF LogTypes
<1>5. ASSUME state = "crashed", NEW i \in DOMAIN Names, NEW j \in DOMAIN Names,
             Log!First(todo) = Names[j]
      PROVE  /\ i < j /\ Names[i] \in DOMAIN file => m_loggers[Names[i]] = file[Names[i]]
             /\ i >= j => m_loggers[Names[i]] = before[Names[i]]
  <2>1. LogApplying /\ at = 0 /\ todo # {}
    BY <1>5 DEF LogInv
  <2>2. PICK k \in DOMAIN Names : /\ Log!First(todo) = Names[k]
                                  /\ \A m \in DOMAIN Names : Names[m] \in todo => k <= m
    BY <1>2, <2>1, FirstName DEF LogTypes
  <2>3. k = j /\ i \in Nat /\ j \in Nat /\ Names[j] \in todo /\ Names[i] \in Log!ToSet(Names)
    <3>1. Names[j] \in todo
      BY <1>2, <1>5, <2>1, FirstName DEF LogTypes
    <3>2. k = j
      BY <1>5, <2>2 DEF Log!LogAssumption, Log!IsInjective
    <3>3. i \in Nat /\ j \in Nat /\ Names[i] \in Log!ToSet(Names)
      BY DEF Log!LogAssumption, Log!ToSet
    <3> QED
      BY <3>1, <3>2, <3>3
  <2>4. i < j /\ Names[i] \in DOMAIN file => m_loggers[Names[i]] = file[Names[i]]
    BY <2>1, <2>2, <2>3 DEF LogApplying
  <2>5. ASSUME i >= j PROVE m_loggers[Names[i]] = before[Names[i]]
    <3>1. CASE Names[i] \in todo
      BY <2>1, <3>1 DEF LogApplying, LogPartly
    <3>2. CASE Names[i] \notin DOMAIN file
      BY <2>1, <2>3, <3>2 DEF LogApplying
    <3>3. ~ (Names[i] \in DOMAIN file \ todo)
      BY <2>1, <2>3, <2>5 DEF LogApplying
    <3> QED
      BY <3>1, <3>2, <3>3
  <2> QED
    BY <2>4, <2>5
<1> QED
  BY <1>1, <1>3, <1>4, <1>5 DEF Log!LoggersExact
-----------------------------------------------------------------------------
(* The composite. *)

\* The invariants of all modules: those that do not run keep theirs.
AllInv ==
  /\ which \in {"connection", "pool", "session", "server", "config", "log"}
  /\ ConnectionInv /\ PoolInv /\ SessionInv /\ ServerInv /\ ServerClients
  /\ ConfigInv /\ LogInv

\* Every module starts in one of its initial states.
LEMMA AllInit == ServicesAssumption /\ InitAll => AllInv
<1> SUFFICES ASSUME ServicesAssumption, InitAll PROVE AllInv
  OBVIOUS
<1>1. /\ PoolAssumption /\ Connection!ConnectionAssumption /\ Session!SessionAssumption
      /\ Server!ServerAssumption /\ Config!ConfigAssumption /\ Log!LogAssumption
  BY DEF ServicesAssumption
<1>2. /\ which \in {"connection", "pool", "session", "server", "config", "log"}
      /\ Connection!Init /\ Init /\ Session!Init /\ Server!Init /\ Config!Init /\ Log!Init
  BY DEF InitAll
<1>3. ConnectionInv /\ PoolInv /\ SessionInv
  BY <1>1, <1>2, ConnectionInit, PoolInit, SessionInit
<1>4. ServerInv /\ ServerClients /\ ConfigInv /\ LogInv
  BY <1>1, <1>2, ServerInit, InitClients, ConfigInit, LogInit
<1> QED
  BY <1>2, <1>3, <1>4 DEF AllInv

\* A step of the composite is one of a module, and the others stay.
LEMMA AllSteps ==
  ASSUME [NextAll]_all
  PROVE  /\ which' = which
         /\ Connection!Next \/ UNCHANGED Connection!vars
         /\ [Next]_vars
         /\ Session!Next \/ UNCHANGED Session!vars
         /\ [Server!Next]_(Server!vars)
         /\ Config!Next \/ UNCHANGED Config!vars
         /\ Log!Next \/ UNCHANGED Log!vars
<1>1. /\ UNCHANGED connection => UNCHANGED Connection!vars
      /\ UNCHANGED session => UNCHANGED Session!vars
      /\ UNCHANGED server => UNCHANGED Server!vars
      /\ UNCHANGED config => UNCHANGED Config!vars
      /\ UNCHANGED log => UNCHANGED Log!vars
  BY DEF connection, session, server, config, log, Connection!vars, Session!vars, Server!vars,
         Config!vars, Log!vars, Log!history
<1>2. CASE UNCHANGED all
  BY <1>1, <1>2 DEF all
<1>3. CASE NextAll
  BY <1>1, <1>3 DEF NextAll, Only
<1> QED
  BY <1>2, <1>3

\* Every step keeps the invariants.
LEMMA AllNext == ServicesAssumption /\ AllInv /\ [NextAll]_all => AllInv'
<1> SUFFICES ASSUME ServicesAssumption, AllInv, [NextAll]_all PROVE AllInv'
  OBVIOUS
<1>1. /\ PoolAssumption /\ ClockAssumption /\ Connection!ConnectionAssumption
      /\ Session!SessionAssumption /\ Server!ServerAssumption /\ Config!ConfigAssumption
      /\ Log!LogAssumption
  BY DEF ServicesAssumption
<1>2. /\ which \in {"connection", "pool", "session", "server", "config", "log"}
      /\ ConnectionInv /\ PoolInv /\ SessionInv /\ ServerInv /\ ServerClients
      /\ ConfigInv /\ LogInv
  BY DEF AllInv
<1>3. ConnectionInv'
  BY <1>1, <1>2, AllSteps, ConnectionNext, ConnectionStay
<1>4. PoolInv'
  BY <1>1, <1>2, AllSteps, PoolNext
<1>5. SessionInv'
  BY <1>1, <1>2, AllSteps, SessionNext, SessionStay
<1>6. ServerInv' /\ ServerClients'
  BY <1>1, <1>2, AllSteps, ServerNext, NextClients
<1>7. ConfigInv'
  BY <1>1, <1>2, AllSteps, ConfigNext, ConfigStay
<1>8. LogInv'
  BY <1>1, <1>2, AllSteps, LogNext, LogStay
<1>9. which' \in {"connection", "pool", "session", "server", "config", "log"}
  BY <1>2, AllSteps
<1> QED
  BY <1>3, <1>4, <1>5, <1>6, <1>7, <1>8, <1>9 DEF AllInv

\* The invariants hold in every behaviour of the composite.
LEMMA AllInvariance == SpecAll => []AllInv
<1>1. InitAll => AllInv
  BY ServicesAssumption, AllInit
<1>2. AllInv /\ [NextAll]_all => AllInv'
  BY ServicesAssumption, AllNext
<1> QED
  BY <1>1, <1>2, PTL DEF SpecAll

\* AllTypeOK: the variables of every module have their types; among them, the
\* buffers of recvRequest and recvResponse never overflow, and no more clients
\* are handled than connected.
THEOREM AllTypesCorrect == SpecAll => []AllTypeOK
<1>1. AllInv => AllTypeOK
  BY ServicesAssumption, ConnectionTells, PoolTypeOK, SessionTells, ServerTells, ConfigTells,
     LogTells DEF AllInv, AllTypeOK, ServicesAssumption
<1> QED
  BY <1>1, AllInvariance, PTL

\* MessagesExact: what recvResponse returns and what handleClient gives a
\* servlet and answers is what was sent, for any responses and conversations.
THEOREM MessagesCorrect == SpecAll => []MessagesExact
<1>1. AllInv => MessagesExact
  BY ServicesAssumption, ConnectionTells, SessionTells
     DEF AllInv, MessagesExact, ServicesAssumption
<1> QED
  BY <1>1, AllInvariance, PTL

\* PoolExact in the composite, where the pool's assumptions are given.
THEOREM PoolsCorrect == SpecAll => []PoolExact
<1>1. AllInv => PoolExact
  BY ServicesAssumption, PoolIsExact DEF AllInv, ServicesAssumption
<1> QED
  BY <1>1, AllInvariance, PTL

\* AcceptExact: each socket of a TcpServer has its accept loop from start() to
\* stop(), for any number of sockets, starts and clients.
THEOREM AcceptCorrect == SpecAll => []AcceptExact
<1>1. AllInv => AcceptExact
  BY ServerAccepts DEF AllInv, AcceptExact
<1> QED
  BY <1>1, AllInvariance, PTL

\* ConfigExact: when no setValue() is under way, every listener of a variable
\* has its value, and the loggers are as the last file says.
THEOREM ConfigCorrect == SpecAll => []ConfigExact
<1>1. AllInv => ConfigExact
  BY ServicesAssumption, ConfigTells, LogTells DEF AllInv, ConfigExact, ServicesAssumption
<1> QED
  BY <1>1, AllInvariance, PTL
=============================================================================
