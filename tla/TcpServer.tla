----------------------------- MODULE TcpServer ------------------------------
(***************************************************************************)
(* TcpServer: bind, start and stop of one user thread, the accept loops of *)
(* the accept worker's fibers and the task that stop() leaves behind.      *)
(* accept() and close() are the hooked calls of module Hook: accept looks, *)
(* and waits for an event only in a later step; close() first cancels the  *)
(* events of its descriptor.  Calls on one vector at once (start() reads   *)
(* m_socks while the task clears it) are steps here, a data race there.    *)
(***************************************************************************)
EXTENDS Integers, Sequences, FiniteSets, SequencesExt

CONSTANTS
  Socks,      \* the sockets that calls of bind() create, each once
  MaxStarts,  \* bound: calls of start() that start something, waiting tasks
              \* of stop()
  MaxClients  \* bound: connections of clients
ServerAssumption ==
  IsFiniteSet(Socks) /\ MaxStarts \in Nat /\ MaxClients \in Nat

Loops == 1 .. MaxStarts * Cardinality(Socks)

VARIABLES
  m_isStop, m_socks,
  sock,     \* of each socket: "none", "open", the task's steps, or "closed"
  loop,     \* of each fiber of startAccept: [pc, sock]
  tasks,    \* the tasks of stop() that have not begun
  closing,  \* what the running task of stop() has left to close
  waiting,  \* of each socket: clients that connected and are not accepted
  handled,  \* how many clients were scheduled to handleClient
  starts,   \* calls of start() that started something
  fault,    \* did an assertion of IOManager::addEvent fail?
  history   \* "overlap": start() while a stop()'s task had not ended or an
            \* accept loop not seen it; "refused": a bind() failed
vars == <<m_isStop, m_socks, sock, loop, tasks, closing, waiting, handled, starts,
          fault, history>>

Init ==
  /\ m_isStop = TRUE /\ m_socks = <<>>
  /\ sock = [s \in Socks |-> "none"]
  /\ loop = [l \in Loops |-> [pc |-> "none", sock |-> CHOOSE s \in Socks : TRUE]]
  /\ tasks = 0 /\ closing = <<>> /\ waiting = [s \in Socks |-> 0]
  /\ handled = 0 /\ starts = 0 /\ fault = FALSE /\ history = {}

Holds(l, s) == loop[l].pc \notin {"none", "end"} /\ loop[l].sock = s
Used(s) == \E l \in Loops : Holds(l, s)
Closed(S) == [s \in Socks |-> IF s \in S THEN "closed" ELSE sock[s]]

(* A socket that no accept loop holds is closed when m_socks drops it.      *)
(* bind() of some addresses; one that fails empties m_socks.  Not while    *)
(* the task of stop() walks through m_socks: push_back would be undefined. *)
Bind(S) ==
  /\ closing = <<>> /\ S # {} /\ \A s \in S : sock[s] = "none"
  /\ \/ /\ m_socks' = m_socks \o SetToSeq(S)
        /\ sock' = [s \in Socks |-> IF s \in S THEN "open" ELSE sock[s]]
        /\ UNCHANGED history
     \/ /\ m_socks' = <<>> /\ history' = history \cup {"refused"}
        /\ sock' = Closed(S \cup {s \in ToSet(m_socks) : ~ Used(s)})
  /\ UNCHANGED <<m_isStop, loop, tasks, closing, waiting, handled, starts, fault>>

(* start(): a fiber for every socket, unless the server is running.        *)
Stopping == tasks > 0 \/ closing # <<>> \/ \E s \in Socks : Used(s)
Start ==
  /\ m_isStop /\ starts < MaxStarts
  /\ m_isStop' = FALSE /\ starts' = starts + 1
  /\ loop' = [l \in Loops |->
       LET i == l - starts * Cardinality(Socks) IN
       IF i \in DOMAIN m_socks THEN [pc |-> "test", sock |-> m_socks[i]] ELSE loop[l]]
  /\ history' = IF Stopping THEN history \cup {"overlap"} ELSE history
  /\ UNCHANGED <<m_socks, sock, tasks, closing, waiting, handled, fault>>

(* stop(), whether or not the server runs: the sockets are closed by a task *)
(* of the accept worker.  At most MaxStarts of these tasks wait at once.    *)
Stop ==
  /\ tasks < MaxStarts /\ m_isStop' = TRUE /\ tasks' = tasks + 1
  /\ UNCHANGED <<m_socks, sock, loop, closing, waiting, handled, starts, fault, history>>

(* The task: cancelAll, then the events are cancelled again by the hooked  *)
(* close(), then the descriptor is closed; m_socks is cleared at the end.  *)
Woken(s) == [l \in Loops |-> IF loop[l].pc = "wait" /\ loop[l].sock = s
                             THEN [loop[l] EXCEPT !.pc = "accept"] ELSE loop[l]]
StopTask ==
  /\ tasks > 0 /\ closing = <<>> /\ tasks' = tasks - 1 /\ closing' = m_socks
  /\ UNCHANGED <<m_isStop, m_socks, sock, loop, waiting, handled, starts, fault, history>>
StopCancel ==
  /\ closing # <<>> /\ sock[Head(closing)] = "open"
  /\ sock' = [sock EXCEPT ![Head(closing)] = "cancelled"]
  /\ loop' = Woken(Head(closing))
  /\ UNCHANGED <<m_isStop, m_socks, tasks, closing, waiting, handled, starts, fault, history>>
CloseCancel ==
  /\ closing # <<>> /\ sock[Head(closing)] = "cancelled"
  /\ sock' = [sock EXCEPT ![Head(closing)] = "closing"]
  /\ loop' = Woken(Head(closing))
  /\ UNCHANGED <<m_isStop, m_socks, tasks, closing, waiting, handled, starts, fault, history>>
\* Mutant of CloseFd: m_socks is not cleared.
CloseFdKeeps ==
  /\ closing # <<>> /\ sock[Head(closing)] \in {"closing", "closed"}
  /\ sock' = Closed({Head(closing)}) /\ closing' = Tail(closing)
  /\ waiting' = [waiting EXCEPT ![Head(closing)] = 0]
  /\ UNCHANGED <<m_isStop, m_socks, loop, tasks, handled, starts, fault, history>>
CloseFd ==
  /\ closing # <<>> /\ sock[Head(closing)] \in {"closing", "closed"}
  /\ sock' = Closed({Head(closing)})
  /\ waiting' = [waiting EXCEPT ![Head(closing)] = 0]
  /\ closing' = Tail(closing)
  /\ m_socks' = IF Len(closing) = 1 THEN <<>> ELSE m_socks
  /\ UNCHANGED <<m_isStop, loop, tasks, handled, starts, fault, history>>

(* A fiber of startAccept; its socket may go with it.                      *)
Goto(l, place) == loop' = [loop EXCEPT ![l].pc = place]
Test(l) ==
  LET s == loop[l].sock
      last == s \notin ToSet(m_socks) /\ \A k \in Loops \ {l} : ~ Holds(k, s) IN
  /\ loop[l].pc = "test" /\ Goto(l, IF m_isStop THEN "end" ELSE "accept")
  /\ sock' = IF m_isStop /\ last THEN Closed({s}) ELSE sock
  /\ UNCHANGED <<m_isStop, m_socks, tasks, closing, waiting, handled, starts,
                 fault, history>>
(* accept(): a client, whose handleClient is scheduled; an error, on which *)
(* the loop goes on; or nothing yet.                                       *)
Accept(l) ==
  LET s == loop[l].sock IN
  /\ loop[l].pc = "accept"
  /\ IF sock[s] # "closed" /\ waiting[s] > 0
     THEN /\ waiting' = [waiting EXCEPT ![s] = @ - 1] /\ handled' = handled + 1
          /\ Goto(l, "test")
     ELSE /\ Goto(l, IF sock[s] = "closed" THEN "test" ELSE "park")
          /\ UNCHANGED <<waiting, handled>>
  /\ UNCHANGED <<m_isStop, m_socks, sock, tasks, closing, starts, fault, history>>
(* addEvent(READ): the event of a descriptor has one waiter.  It fires at  *)
(* once for a client that came in between, and fails when the descriptor   *)
(* has been closed.                                                        *)
Park(l) ==
  LET s == loop[l].sock IN
  /\ loop[l].pc = "park"
  /\ fault' = (fault \/ \E k \in Loops : loop[k].pc = "wait" /\ loop[k].sock = s
                                         /\ sock[s] # "closed")
  /\ Goto(l, CASE sock[s] = "closed" -> "test"
               [] waiting[s] > 0 -> "accept"
               [] OTHER -> "wait")
  /\ UNCHANGED <<m_isStop, m_socks, sock, tasks, closing, waiting, handled, starts, history>>

(* A client connects to a listening socket.                                *)
Connect(s) ==
  /\ sock[s] \notin {"none", "closed"} /\ waiting' = [waiting EXCEPT ![s] = @ + 1]
  /\ handled + FoldSet(LAMBDA t, n : waiting[t] + n, 0, Socks) < MaxClients
  /\ loop' = Woken(s)
  /\ UNCHANGED <<m_isStop, m_socks, sock, tasks, closing, handled, starts, fault, history>>

Run(l) == ~ fault /\ (Test(l) \/ Accept(l) \/ Park(l))
Task   == ~ fault /\ (StopTask \/ StopCancel \/ CloseCancel \/ CloseFd)
Next ==
  \/ ~ fault /\ (Start \/ Stop \/ (\E S \in SUBSET Socks : Bind(S)) \/ \E s \in Socks : Connect(s))
  \/ Task \/ \E l \in Loops : Run(l)

(* The accept worker runs its tasks and fibers.                            *)
Fairness == WF_vars(Task) /\ \A l \in Loops : WF_vars(Run(l))
Spec == Init /\ [][Next]_vars /\ Fairness
-----------------------------------------------------------------------------
(* The variables have their types.                                         *)
TypeOK ==
  /\ m_isStop \in BOOLEAN /\ m_socks \in Seq(Socks) /\ closing \in Seq(Socks)
  /\ sock \in [Socks -> {"none", "open", "cancelled", "closing", "closed"}]
  /\ loop \in [Loops -> [pc: {"none", "test", "accept", "park", "wait", "end"},
                         sock: Socks]]
  /\ tasks \in Nat /\ waiting \in [Socks -> Nat] /\ handled \in 0 .. MaxClients

(* A loop whose socket is closed under it: between the hooked close()'s    *)
(* cancelling and its closing the loop has begun to wait again.            *)
Lost(l) == loop[l].pc = "wait" /\ sock[loop[l].sock] = "closed"
(* A socket that only its accept loop still holds.                         *)
Orphan(s) == sock[s] = "open" /\ s \notin ToSet(m_socks)

(* AcceptExact: every listening socket is one that the next stop() will    *)
(* close, unless a failed bind() dropped it while its loop ran.  A socket  *)
(* has one accept loop, addEvent's assertion holds and no loop spins on a  *)
(* closed socket, unless start() was called when a stop() had returned but *)
(* its task had not ended or a loop had not seen m_isStop set: then each   *)
(* of them can go wrong.  A loop waits on a closed socket only if the task *)
(* ran beside it.                                                          *)
AcceptExact ==
  /\ \A s \in Socks : Orphan(s) => "refused" \in history
  /\ "overlap" \notin history =>
       /\ ~ fault
       /\ \A s \in Socks : \A l, k \in Loops : Holds(l, s) /\ Holds(k, s) => l = k
       /\ \A l \in Loops : loop[l].pc \in {"test", "accept"} /\ ~ m_isStop
            => sock[loop[l].sock] # "closed"

(* Returns: after the last stop() every accept loop ends, unless a loop    *)
(* began to wait again inside close(), its socket was dropped by a failed  *)
(* bind(), or the server was started too early; it waits for a client.     *)
Ended(l) == loop[l].pc \in {"none", "end"} \/ Lost(l)
Returns ==
  <>[](m_isStop => "overlap" \in history
                   \/ \A l \in Loops : Ended(l) \/ Orphan(loop[l].sock))
=============================================================================
