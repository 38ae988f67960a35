-------------------------- MODULE SchedulerProofs --------------------------
(***************************************************************************)
(* Safety of the scheduler for any threads, tasks and constructor          *)
(* arguments: the counters are exact, a task that does not park is run by  *)
(* one thread at a time, a task is lost in one way only, stop() leaves     *)
(* nothing behind and with one worker no assertion of fiber.cpp fails.     *)
(*                                                                         *)
(* IInv, at the end, is the inductive invariant.  TypeOK and Phases say    *)
(* where the threads and stop() are; InOnePlace follows a task that does   *)
(* not park from schedule() to its end; Pins and Attended say why the last *)
(* thread that leaves has seen an empty list; Tracked says who will resume *)
(* a task that parks.  OneWorkerInv, on top of it, is for one worker.      *)
(***************************************************************************)
EXTENDS Scheduler, FiniteSetTheorems, TLAPS

-----------------------------------------------------------------------------
(* The list of tasks. *)

\* push_back: the old entries keep their places, the new one is the last.
LEMMA Appended ==
  ASSUME NEW S, NEW s \in Seq(S), NEW e \in S
  PROVE  /\ Append(s, e) \in Seq(S)
         /\ DOMAIN Append(s, e) = DOMAIN s \cup {Len(s) + 1}
         /\ Append(s, e)[Len(s) + 1] = e
         /\ \A i \in DOMAIN s : Append(s, e)[i] = s[i]
         /\ Len(s) + 1 \notin DOMAIN s
  OBVIOUS

\* erase: what is left are the other entries, in their order.
LEMMA Removed ==
  ASSUME NEW S, NEW s \in Seq(S), NEW i \in DOMAIN s
  PROVE  /\ RemoveAt(s, i) \in Seq(S)
         /\ DOMAIN RemoveAt(s, i) = 1 .. Len(s) - 1
         /\ \A j \in 1 .. Len(s) - 1 : RemoveAt(s, i)[j] = s[IF j < i THEN j ELSE j + 1]
<1> DEFINE p == SubSeq(s, 1, i - 1)
           q == SubSeq(s, i + 1, Len(s))
<1>1. i \in 1 .. Len(s) /\ Len(s) \in Nat
  OBVIOUS
<1>2. p \in Seq(S) /\ Len(p) = i - 1 /\ \A j \in 1 .. i - 1 : p[j] = s[j]
  BY <1>1
<1>3. /\ q \in Seq(S) /\ Len(q) = Len(s) - i
      /\ \A j \in 1 .. Len(s) - i : q[j] = s[i + j]
  BY <1>1
<1>4. RemoveAt(s, i) = p \o q
  BY DEF RemoveAt
<1> HIDE DEF p, q
<1>5. /\ p \o q \in Seq(S) /\ Len(p \o q) = Len(s) - 1
      /\ \A j \in 1 .. Len(s) - 1 : (p \o q)[j] = IF j < i THEN p[j] ELSE q[j - (i - 1)]
  BY <1>1, <1>2, <1>3
<1>6. ASSUME NEW j \in 1 .. Len(s) - 1
      PROVE  (p \o q)[j] = s[IF j < i THEN j ELSE j + 1]
  <2>1. CASE j < i
    <3>1. j \in 1 .. i - 1
      BY <1>1, <2>1
    <3> QED
      BY <1>2, <1>5, <2>1, <3>1
  <2>2. CASE ~(j < i)
    <3>1. j - (i - 1) \in 1 .. Len(s) - i /\ i + (j - (i - 1)) = j + 1
      BY <1>1, <2>2
    <3> QED
      BY <1>3, <1>5, <2>2, <3>1
  <2> QED
    BY <2>1, <2>2
<1> QED
  BY <1>1, <1>4, <1>5, <1>6

\* A FiberAndThread can be taken apart and built, and the empty one is none.
LEMMA EntryFacts ==
  /\ \A e \in Entries : e.work \in Works /\ e.thread \in Threads \cup {AnyThread}
  /\ \A w \in Works, h \in Threads \cup {AnyThread}, c \in BOOLEAN :
       /\ [work |-> w, thread |-> h, cb |-> c] \in Entries
       /\ [work |-> w, thread |-> h, cb |-> c].work = w
       /\ [work |-> w, thread |-> h, cb |-> c].thread = h
  /\ NoWork \notin Entries /\ NoWork.work \notin Works
<1>1. \A e \in Entries : e.work \in Works /\ e.thread \in Threads \cup {AnyThread}
  BY DEF Entries
<1>2. \A w \in Works, h \in Threads \cup {AnyThread}, c \in BOOLEAN :
       /\ [work |-> w, thread |-> h, cb |-> c] \in Entries
       /\ [work |-> w, thread |-> h, cb |-> c].work = w
       /\ [work |-> w, thread |-> h, cb |-> c].thread = h
  BY Zenon DEF Entries
<1>3. NoWork.work \notin Works
  BY WorksAssumption DEF NoWork
<1> QED
  BY <1>1, <1>2, <1>3

\* What TypeOK says of a thread that has taken a task.
LEMMA HoldingFacts ==
  ASSUME TypeOK, NEW t \in Threads, pc[t] \in HoldingPlaces
  PROVE  ft[t] \in Entries /\ ft[t].work \in Works
  BY EntryFacts DEF TypeOK

\* scheduleNoLock keeps the list a list of entries.
LEMMA EnqueueType ==
  ASSUME TypeOK, NEW w \in Works, NEW h \in Threads \cup {AnyThread}, NEW c \in BOOLEAN,
         Enqueue(w, h, c)
  PROVE  m_fibers' \in Seq(Entries)
  BY EntryFacts, Appended, Zenon DEF TypeOK, Enqueue

-----------------------------------------------------------------------------
(* The invariant. *)

\* How far start() and stop() have come, and what that says of the threads:
\* only then may a thread have left, and the caller's own thread is in run()
\* only while stop() has called it.
Phases ==
  /\ main = "created" => \A t \in Threads : pc[t] = "created"
  /\ main # "created" => \A t \in pool \ {m_rootThread} : pc[t] # "created"
  /\ main \in {"running", "stopping"} /\ m_rootThread # NoThread => pc[m_rootThread] = "created"
  /\ main \in {"joining", "stopped"} /\ m_rootThread # NoThread =>
       pc[m_rootThread] \in {"created", "done"}
  /\ main = "stopped" => \A t \in pool \ {m_rootThread} : pc[t] = "done"
  /\ \A t \in Threads \ pool : pc[t] = "created"
  /\ \A t \in Threads : pc[t] = "done" => t \in idleTerm
  /\ idleTerm # {} => main \notin {"created", "running"}
  /\ m_autoStop => main \notin {"created", "running"}

\* The constructor's arguments, as TypeOK has them.
LEMMA SetupFacts ==
  ASSUME TypeOK
  PROVE  /\ pool \subseteq Threads /\ pool # {}
         /\ m_rootThread = NoThread \/ m_rootThread \in Threads
         /\ m_rootThread \in pool \cup {NoThread}
         /\ NoThread \notin Threads
<1>1. [pool |-> pool, root |-> m_rootThread] \in Setups
  BY DEF TypeOK
<1> QED
  BY <1>1, ThreadsAssumption

-----------------------------------------------------------------------------
(* Types. *)

LEMMA InitType == Init => TypeOK
<1> SUFFICES ASSUME Init PROVE TypeOK
  OBVIOUS
<1>1. [pool |-> pool, root |-> m_rootThread] \in Setups
  <2>1. PICK s \in Setups : pool = s.pool /\ m_rootThread = s.root
    BY DEF Init
  <2>2. s = [pool |-> s.pool, root |-> s.root]
    BY ThreadsAssumption
  <2> QED
    BY <2>1, <2>2
<1>2. ft \in [Threads -> Entries \cup {NoWork}]
      /\ \A t \in Threads : ft[t] \in Entries <=> pc[t] \in HoldingPlaces
  BY EntryFacts DEF Init, HoldingPlaces, ActivePlaces
<1>3. m_fibers \in Seq(Entries) /\ m_activeThreadCount \in Int /\ m_idleThreadCount \in Int
      /\ yields \in [Works -> Nat] /\ saved \subseteq Works /\ ended \subseteq Works
      /\ overwritten \subseteq Works /\ idleTerm \subseteq Threads /\ unborn \subseteq Works /\ armed \subseteq Works
  BY WorksAssumption DEF Init
<1>4. m_stopping \in BOOLEAN /\ m_autoStop \in BOOLEAN
  BY DEF Init
<1>5. m_state \in [Works -> FiberStates] /\ pc \in [Threads -> Places]
      /\ main \in {"created", "running", "stopping", "calling", "joining", "stopped"}
      /\ fault \in Faults
  BY DEF Init, FiberStates, Places, Faults
<1> QED
  BY <1>1, <1>2, <1>3, <1>4, <1>5 DEF TypeOK

\* Every step keeps the types.
LEMMA NextType == TypeOK /\ Phases /\ [Next]_vars => TypeOK'
<1> SUFFICES ASSUME TypeOK, Phases, [Next]_vars PROVE TypeOK'
  OBVIOUS
<1> USE DEF queueVars, countVars, setupVars, stopVars, fiberVars
<1>1. CASE Start
  <2>1. pc' \in [Threads -> Places] /\ \A t \in Threads : pc'[t] \notin HoldingPlaces
    BY <1>1 DEF Start, MainAt, Phases, Places, HoldingPlaces, ActivePlaces
  <2>2. \A t \in Threads : ft'[t] \notin Entries
    BY <1>1 DEF Start, MainAt, Phases, HoldingPlaces, ActivePlaces, TypeOK
  <2>3. m_stopping' \in BOOLEAN
    BY <1>1 DEF Start
  <2> QED
    BY <1>1, <2>1, <2>2, <2>3 DEF TypeOK, Start
<1>2. CASE Stop
  BY <1>2 DEF TypeOK, Stop, MainAt
<1>3. CASE StopCallRoot
  <2>1. CASE m_rootThread # NoThread /\ ~Stopping
    <3>1. m_rootThread \in Threads /\ pc[m_rootThread] = "created"
      BY <1>3, <2>1, SetupFacts DEF StopCallRoot, MainAt, Phases
    <3>2. pc' = [pc EXCEPT ![m_rootThread] = "fetch"] /\ main' = "calling"
      BY <1>3, <2>1 DEF StopCallRoot, Goto
    <3> QED
      BY <1>3, <3>1, <3>2 DEF TypeOK, StopCallRoot, Places, HoldingPlaces, ActivePlaces
  <2>2. CASE ~(m_rootThread # NoThread /\ ~Stopping)
    BY <1>3, <2>2 DEF TypeOK, StopCallRoot
  <2> QED
    BY <2>1, <2>2
<1>4. CASE RootReturned
  BY <1>4 DEF TypeOK, RootReturned, MainAt
<1>5. CASE Join
  BY <1>5 DEF TypeOK, Join, MainAt
<1>6. ASSUME NEW w \in Works, MainSchedule(w) PROVE TypeOK'
  <2>1. m_fibers' \in Seq(Entries)
    <3>1. Pin[w] \in Threads \cup {AnyThread} /\ (w \in Callbacks) \in BOOLEAN
      BY WorksAssumption
    <3> QED
      BY <1>6, <3>1, EnqueueType, Zenon DEF MainSchedule
  <2> QED
    BY <1>6, <2>1 DEF TypeOK, MainSchedule
<1>7. ASSUME NEW w \in Works, Wake(w) PROVE TypeOK'
  <2>1. m_fibers' \in Seq(Entries)
    BY <1>7, EnqueueType, Zenon DEF Wake, Reschedule
  <2> QED
    BY <1>7, <2>1 DEF TypeOK, Wake
<1>8. ASSUME NEW t \in Threads, Fetch(t) PROVE TypeOK'
  <2>1. CASE Take(t)
    <3>1. PICK i \in TakeableAt(t) :
            /\ ft' = [ft EXCEPT ![t] = m_fibers[i]]
            /\ m_fibers' = RemoveAt(m_fibers, i)
            /\ m_activeThreadCount' = m_activeThreadCount + 1
            /\ pc' = [pc EXCEPT ![t] = "dispatch"]
      BY <2>1 DEF Take, Erase, Goto
    <3>2. i \in DOMAIN m_fibers /\ m_fibers[i] \in Entries
      BY DEF TakeableAt, TypeOK
    <3>3. m_fibers' \in Seq(Entries)
      BY <3>1, <3>2, Removed DEF TypeOK
    <3> QED
      BY <1>8, <3>1, <3>2, <3>3 DEF TypeOK, Fetch, Places, HoldingPlaces, ActivePlaces
  <2>2. CASE TakeNothing(t)
    BY <1>8, <2>2 DEF TypeOK, Fetch, TakeNothing, At, Goto, Places, HoldingPlaces,
        ActivePlaces
  <2> QED
    BY <1>8, <2>1, <2>2 DEF Fetch
<1>0. ASSUME NEW t \in Threads, NEW q \in Places,
             pc[t] \in HoldingPlaces <=> q \in HoldingPlaces,
             pc' = [pc EXCEPT ![t] = q], UNCHANGED ft
      PROVE  /\ pc' \in [Threads -> Places] /\ ft' \in [Threads -> Entries \cup {NoWork}]
             /\ \A u \in Threads : ft'[u] \in Entries <=> pc'[u] \in HoldingPlaces
  BY <1>0 DEF TypeOK
<1>9. ASSUME NEW t \in Threads, Skip(t) PROVE TypeOK'
  BY <1>9, EntryFacts, HoldingFacts DEF TypeOK, Skip, Release, Deactivate,
   At, Goto, Places, HoldingPlaces, ActivePlaces
<1>10. ASSUME NEW t \in Threads, SwapOut(t) PROVE TypeOK'
  <2>1. \E q \in {"returned"} : pc' = [pc EXCEPT ![t] = q]
    BY <1>10 DEF SwapOut, Goto
  <2>2. pc[t] = "swapOut" /\ UNCHANGED ft
    BY <1>10 DEF SwapOut, At
  <2>3. /\ pc' \in [Threads -> Places] /\ ft' \in [Threads -> Entries \cup {NoWork}]
        /\ \A u \in Threads : ft'[u] \in Entries <=> pc'[u] \in HoldingPlaces
    BY <1>0, <2>1, <2>2 DEF Places, HoldingPlaces, ActivePlaces
  <2> QED
    BY <1>10, <2>2, <2>3, HoldingFacts DEF TypeOK, SwapOut, HoldingPlaces, ActivePlaces
<1>11. ASSUME NEW t \in Threads, CountDown(t) PROVE TypeOK'
  <2>1. \E q \in {"askReady"} : pc' = [pc EXCEPT ![t] = q]
    BY <1>11 DEF CountDown, Goto
  <2>2. pc[t] = "returned" /\ UNCHANGED ft
    BY <1>11 DEF CountDown, At
  <2>3. /\ pc' \in [Threads -> Places] /\ ft' \in [Threads -> Entries \cup {NoWork}]
        /\ \A u \in Threads : ft'[u] \in Entries <=> pc'[u] \in HoldingPlaces
    BY <1>0, <2>1, <2>2 DEF Places, HoldingPlaces, ActivePlaces
  <2> QED
    BY <1>11, <2>3 DEF TypeOK, CountDown, Deactivate
<1>12. ASSUME NEW t \in Threads, IdleEnter(t) PROVE TypeOK'
  <2>1. \E q \in {"inIdle"} : pc' = [pc EXCEPT ![t] = q]
    BY <1>12 DEF IdleEnter, Goto
  <2>2. pc[t] = "idle" /\ UNCHANGED ft
    BY <1>12 DEF IdleEnter, At
  <2>3. /\ pc' \in [Threads -> Places] /\ ft' \in [Threads -> Entries \cup {NoWork}]
        /\ \A u \in Threads : ft'[u] \in Entries <=> pc'[u] \in HoldingPlaces
    BY <1>0, <2>1, <2>2 DEF Places, HoldingPlaces, ActivePlaces
  <2> QED
    BY <1>12, <2>3 DEF TypeOK, IdleEnter
<1>13. ASSUME NEW t \in Threads, IdleRound(t) PROVE TypeOK'
  <2>1. \E q \in {"idleOut"} : pc' = [pc EXCEPT ![t] = q]
    BY <1>13 DEF IdleRound, Goto
  <2>2. pc[t] = "inIdle" /\ UNCHANGED ft
    BY <1>13 DEF IdleRound, At
  <2>3. /\ pc' \in [Threads -> Places] /\ ft' \in [Threads -> Entries \cup {NoWork}]
        /\ \A u \in Threads : ft'[u] \in Entries <=> pc'[u] \in HoldingPlaces
    BY <1>0, <2>1, <2>2 DEF Places, HoldingPlaces, ActivePlaces
  <2> QED
    BY <1>13, <2>3 DEF TypeOK, IdleRound
<1>14. ASSUME NEW t \in Threads, IdleLeave(t) PROVE TypeOK'
  <2>1. \E q \in {"fetch"} : pc' = [pc EXCEPT ![t] = q]
    BY <1>14 DEF IdleLeave, Goto
  <2>2. pc[t] = "idleOut" /\ UNCHANGED ft
    BY <1>14 DEF IdleLeave, At
  <2>3. /\ pc' \in [Threads -> Places] /\ ft' \in [Threads -> Entries \cup {NoWork}]
        /\ \A u \in Threads : ft'[u] \in Entries <=> pc'[u] \in HoldingPlaces
    BY <1>0, <2>1, <2>2 DEF Places, HoldingPlaces, ActivePlaces
  <2> QED
    BY <1>14, <2>3 DEF TypeOK, IdleLeave
<1>15. ASSUME NEW t \in Threads, Exit(t) PROVE TypeOK'
  <2>1. \E q \in {"done"} : pc' = [pc EXCEPT ![t] = q]
    BY <1>15 DEF Exit, Goto
  <2>2. pc[t] = "idle" /\ UNCHANGED ft
    BY <1>15 DEF Exit, At
  <2>3. /\ pc' \in [Threads -> Places] /\ ft' \in [Threads -> Entries \cup {NoWork}]
        /\ \A u \in Threads : ft'[u] \in Entries <=> pc'[u] \in HoldingPlaces
    BY <1>0, <2>1, <2>2 DEF Places, HoldingPlaces, ActivePlaces
  <2> QED
    BY <1>15, <2>3 DEF TypeOK, Exit
<1>16. ASSUME NEW t \in Threads, Arm(t) PROVE TypeOK'
  BY <1>16, EntryFacts, HoldingFacts DEF TypeOK, Arm,
   At, Goto, Places, HoldingPlaces, ActivePlaces
<1>17. ASSUME NEW t \in Threads, Test(t) \/ AskReady(t) PROVE TypeOK'
  <2>1. \E q \in {"skip", "swapIn", "requeue", "askOver"} : pc' = [pc EXCEPT ![t] = q]
    BY <1>17 DEF Test, AskReady, Goto
  <2>2. pc[t] \in {"dispatch", "askReady"} /\ UNCHANGED ft
    BY <1>17 DEF Test, AskReady, At
  <2>3. /\ pc' \in [Threads -> Places] /\ ft' \in [Threads -> Entries \cup {NoWork}]
        /\ \A u \in Threads : ft'[u] \in Entries <=> pc'[u] \in HoldingPlaces
    BY <1>0, <2>1, <2>2 DEF Places, HoldingPlaces, ActivePlaces
  <2> QED
    BY <1>17, <2>3 DEF TypeOK, Test, AskReady
<1>18. ASSUME NEW t \in Threads, NotRunning(t) \/ SwapIn(t) \/ ResetCheck(t) PROVE TypeOK'
  <2>1. fault' \in Faults
    BY <1>18 DEF NotRunning, SwapIn, ResetCheck, SwitchFault, Faults
  <2>2. pc[t] \in {"swapIn", "switch", "reset"} /\ ft[t] \in Entries
    BY <1>18, HoldingFacts DEF NotRunning, SwapIn, ResetCheck, At, HoldingPlaces, ActivePlaces
  <2>3. UNCHANGED ft /\ \E q \in {"mark", "body", "recycle"} : pc' = [pc EXCEPT ![t] = q]
    BY <1>18 DEF NotRunning, SwapIn, ResetCheck, Goto
  <2> QED
    BY <1>18, <2>1, <2>2, <2>3
    DEF TypeOK, NotRunning, SwapIn, ResetCheck, Places, HoldingPlaces, ActivePlaces
<1>24. ASSUME NEW t \in Threads, Mark(t) \/ SetReady(t) \/ SetHold(t) PROVE TypeOK'
  <2>1. /\ pc[t] \in {"mark", "toReady", "toHold"} /\ ft[t] \in Entries
        /\ ft[t].work \in Works
    BY <1>24, HoldingFacts
    DEF Mark, SetReady, SetHold, SetState, At, HoldingPlaces, ActivePlaces
  <2>2. UNCHANGED ft /\ \E q \in {"switch", "swapOut"} : pc' = [pc EXCEPT ![t] = q]
    BY <1>24 DEF Mark, SetReady, SetHold, SetState, Goto
  <2>3. m_state' \in [Works -> FiberStates]
    BY <1>24, <2>1 DEF Mark, SetReady, SetHold, SetState, TypeOK, FiberStates
  <2> QED
    BY <1>24, <2>1, <2>2, <2>3
    DEF TypeOK, Mark, SetReady, SetHold, SetState, Places, HoldingPlaces, ActivePlaces
<1>25. ASSUME NEW t \in Threads, Requeue(t) \/ AskOver(t) \/ Recycle(t) \/ Hold(t)
      PROVE  TypeOK'
  <2>1. pc[t] \in {"requeue", "askOver", "recycle", "hold"} /\ ft[t] \in Entries
        /\ ft[t].work \in Works
    BY <1>25, HoldingFacts DEF Requeue, AskOver, Recycle, Hold, At, HoldingPlaces
  <2>2. \/ pc' = [pc EXCEPT ![t] = "fetch"] /\ ft' = [ft EXCEPT ![t] = NoWork]
        \/ UNCHANGED ft /\ \E q \in {"reset", "hold"} : pc' = [pc EXCEPT ![t] = q]
    BY <1>25 DEF Requeue, AskOver, Recycle, Hold, Goto, Release
  <2>3. /\ pc' \in [Threads -> Places] /\ ft' \in [Threads -> Entries \cup {NoWork}]
        /\ \A u \in Threads : ft'[u] \in Entries <=> pc'[u] \in HoldingPlaces
    <3>1. CASE pc' = [pc EXCEPT ![t] = "fetch"] /\ ft' = [ft EXCEPT ![t] = NoWork]
      BY <3>1, EntryFacts DEF TypeOK, Places, HoldingPlaces, ActivePlaces
    <3>2. CASE UNCHANGED ft /\ \E q \in {"reset", "hold"} : pc' = [pc EXCEPT ![t] = q]
      BY <1>0, <2>1, <3>2 DEF Places, HoldingPlaces, ActivePlaces
    <3> QED
      BY <2>2, <3>1, <3>2
  <2>4. m_fibers' \in Seq(Entries)
    <3>1. CASE UNCHANGED m_fibers
      BY <3>1 DEF TypeOK
    <3>2. CASE Reschedule(ft[t].work)
      BY <2>1, <3>2, EnqueueType, Zenon DEF Reschedule
    <3> QED
      BY <1>25, <3>1, <3>2 DEF Requeue, AskOver, Recycle, Hold
  <2>5. m_state' \in [Works -> FiberStates] /\ fault' \in Faults
    BY <1>25, <2>1 DEF Requeue, AskOver, Recycle, Hold, TypeOK, FiberStates, Faults
  <2>6. overwritten' \subseteq Works
    <3>1. overwritten \subseteq Works
      BY DEF TypeOK
    <3>2. overwritten' = overwritten \/ overwritten' = overwritten \cup {ft[t].work}
      BY <1>25 DEF Requeue, AskOver, Recycle, Hold
    <3> QED
      BY <2>1, <3>1, <3>2
  <2> QED
    BY <1>25, <2>3, <2>4, <2>5, <2>6 DEF TypeOK, Requeue, AskOver, Recycle, Hold
<1>19. ASSUME NEW t \in Threads, YieldToReady(t) \/ YieldToHold(t) PROVE TypeOK'
  <2>1. pc[t] \in {"body", "arming"} /\ ft[t] \in Entries /\ ft[t].work \in Works
    BY <1>19, HoldingFacts
    DEF YieldToReady, YieldToHold, Yield, At, HoldingPlaces, ActivePlaces
  <2>2. UNCHANGED ft /\ \E q \in {"toReady", "toHold"} : pc' = [pc EXCEPT ![t] = q]
    BY <1>19 DEF YieldToReady, YieldToHold, Yield, Goto
  <2>3. fault' \in Faults
    BY <1>19 DEF YieldToReady, YieldToHold, Yield, Faults
  <2>4. yields' \in [Works -> Nat]
    <3>1. /\ yields' = [yields EXCEPT ![ft[t].work] = yields[ft[t].work] - 1]
          /\ yields[ft[t].work] > 0
      BY <1>19 DEF YieldToReady, YieldToHold, Yield
    <3>2. yields \in [Works -> Nat] /\ yields[ft[t].work] \in Nat
      BY <2>1 DEF TypeOK
    <3> QED
      BY <2>1, <3>1, <3>2
  <2> QED
    BY <1>19, <2>1, <2>2, <2>3, <2>4
    DEF TypeOK, YieldToReady, YieldToHold, Yield, Places, HoldingPlaces, ActivePlaces
<1>20. ASSUME NEW t \in Threads, NEW w \in Works, Spawn(t, w) PROVE TypeOK'
  <2>1. m_fibers' \in Seq(Entries)
    <3>1. Pin[w] \in Threads \cup {AnyThread} /\ (w \in Callbacks) \in BOOLEAN
      BY WorksAssumption
    <3> QED
      BY <1>20, <3>1, EnqueueType, Zenon DEF Spawn
  <2> QED
    BY <1>20, <2>1 DEF TypeOK, Spawn
<1>21. ASSUME NEW t \in Threads, NEW o \in {"return", "std", "other"}, Finish(t, o)
      PROVE  TypeOK'
  <2>1. pc[t] \in {"body", "arming"} /\ ft[t] \in Entries /\ ft[t].work \in Works
    BY <1>21, HoldingFacts DEF Finish, At, HoldingPlaces, ActivePlaces
  <2>2. pc' = [pc EXCEPT ![t] = "swapOut"] /\ UNCHANGED ft
    BY <1>21 DEF Finish, Goto
  <2>3. m_state' \in [Works -> FiberStates]
    BY <1>21, <2>1 DEF Finish, FinalState, TypeOK, FiberStates
  <2> QED
    BY <1>21, <2>1, <2>2, <2>3 DEF TypeOK, Finish, Places, HoldingPlaces, ActivePlaces
<1>22. CASE UNCHANGED vars
  BY <1>22 DEF TypeOK, vars
<1> QED
  BY <1>1, <1>2, <1>3, <1>4, <1>5, <1>6, <1>7, <1>8, <1>9, <1>10, <1>11,
     <1>12, <1>13, <1>14, <1>15, <1>16, <1>17, <1>18, <1>19, <1>20, <1>21, <1>22,
     <1>24, <1>25
  DEF Next, StopStep, RunStep, BodyStep

-----------------------------------------------------------------------------
(* The threads and stop(). *)

\* A step of run() or of the task a thread runs moves that thread only, from
\* a place inside run(), and it leaves only with its idle fiber TERM.
LEMMA ThreadMoves ==
  ASSUME TypeOK, NEW t \in Threads, RunStep(t) \/ BodyStep(t)
  PROVE  /\ pc[t] \notin {"created", "done"}
         /\ pc'[t] # "created" /\ (pc'[t] = "done" => t \in idleTerm)
         /\ \A u \in Threads \ {t} : pc'[u] = pc[u]
         /\ UNCHANGED <<pool, m_rootThread, main, m_autoStop, m_stopping>>
         /\ idleTerm' = idleTerm \/ (idleTerm' = idleTerm \cup {t} /\ pc[t] = "inIdle" /\ Stopping)
<1> DEFINE Goal ==
      /\ pc[t] \notin {"created", "done"}
      /\ pc'[t] # "created" /\ (pc'[t] = "done" => t \in idleTerm)
      /\ \A u \in Threads \ {t} : pc'[u] = pc[u]
      /\ UNCHANGED <<pool, m_rootThread, main, m_autoStop, m_stopping>>
      /\ idleTerm' = idleTerm \/ (idleTerm' = idleTerm \cup {t} /\ pc[t] = "inIdle" /\ Stopping)
<1> SUFFICES Goal
  OBVIOUS
<1>0. pc \in [Threads -> Places]
  BY DEF TypeOK
<1> USE <1>0 DEF stopVars, At, Goto
<1>1. CASE Fetch(t)
  BY <1>1 DEF Fetch, Take, TakeNothing
<1>2. CASE Test(t) \/ Skip(t) \/ NotRunning(t)
  BY <1>2 DEF Test, Skip, NotRunning
<1>3. CASE Mark(t) \/ SwapIn(t)
  BY <1>3 DEF Mark, SwapIn
<1>4. CASE SwapOut(t) \/ CountDown(t)
  BY <1>4 DEF SwapOut, CountDown
<1>5. CASE AskReady(t) \/ Requeue(t) \/ AskOver(t)
  BY <1>5 DEF AskReady, Requeue, AskOver
<1>6. CASE ResetCheck(t) \/ Recycle(t) \/ Hold(t)
  BY <1>6 DEF ResetCheck, Recycle, Hold
<1>7. CASE IdleEnter(t)
  BY <1>7 DEF IdleEnter
<1>8. CASE IdleRound(t)
  BY <1>8 DEF IdleRound
<1>9. CASE IdleLeave(t)
  BY <1>9 DEF IdleLeave
<1>10. CASE Exit(t)
  BY <1>10 DEF Exit
<1>11. CASE Arm(t)
  BY <1>11 DEF Arm
<1>12. CASE YieldToReady(t) \/ YieldToHold(t)
  BY <1>12 DEF YieldToReady, YieldToHold, Yield
<1>13. CASE SetReady(t) \/ SetHold(t)
  BY <1>13 DEF SetReady, SetHold, SetState
<1>14. ASSUME NEW w \in Works, Spawn(t, w) PROVE Goal
  <2>1. pc[t] = "body" /\ pc' = pc
    BY <1>14 DEF Spawn
  <2> QED
    BY <1>14, <2>1 DEF Spawn
<1>15. ASSUME NEW o, Finish(t, o) PROVE Goal
  BY <1>15 DEF Finish
<1> HIDE DEF Goal
<1> QED
  BY <1>1, <1>2, <1>3, <1>4, <1>5, <1>6, <1>7, <1>8, <1>9, <1>10, <1>11,
     <1>12, <1>13, <1>14, <1>15 DEF RunStep, BodyStep

LEMMA InitPhases == Init => Phases
<1> SUFFICES ASSUME Init PROVE Phases
  OBVIOUS
<1>1. m_autoStop = FALSE /\ main = "created" /\ idleTerm = {} /\ \A t \in Threads : pc[t] = "created"
  BY DEF Init
<1> QED
  BY <1>1 DEF Phases

LEMMA NextPhases == TypeOK /\ Phases /\ [Next]_vars => Phases'
<1> SUFFICES ASSUME TypeOK, Phases, [Next]_vars PROVE Phases'
  OBVIOUS
<1> USE SetupFacts DEF setupVars, stopVars
<1>1. CASE Start
  <2>1. /\ \A t \in Threads : pc'[t] = IF t \in pool \ {m_rootThread} THEN "fetch" ELSE "created"
        /\ main = "created" /\ main' = "running"
        /\ UNCHANGED <<pool, m_rootThread, idleTerm, m_autoStop>>
    BY <1>1 DEF Start, MainAt, Phases
  <2> QED
    BY <2>1 DEF Phases
<1>2. CASE Stop
  BY <1>2 DEF Phases, Stop, MainAt
<1>3. CASE StopCallRoot
  <2>1. CASE m_rootThread # NoThread /\ ~Stopping
    <3>1. /\ m_rootThread \in Threads /\ pc' = [pc EXCEPT ![m_rootThread] = "fetch"]
          /\ main = "stopping" /\ main' = "calling"
          /\ UNCHANGED <<pool, m_rootThread, idleTerm, m_autoStop>>
      BY <1>3, <2>1 DEF StopCallRoot, MainAt, Goto
    <3>2. \A t \in Threads : pc'[t] = IF t = m_rootThread THEN "fetch" ELSE pc[t]
      BY <3>1 DEF TypeOK
    <3> QED
      BY <3>1, <3>2 DEF Phases
  <2>2. CASE ~(m_rootThread # NoThread /\ ~Stopping)
    BY <1>3, <2>2 DEF StopCallRoot, MainAt, Phases
  <2> QED
    BY <2>1, <2>2
<1>4. CASE RootReturned
  BY <1>4 DEF Phases, RootReturned, MainAt
<1>5. CASE Join
  BY <1>5 DEF Phases, Join, MainAt
<1>6. ASSUME NEW w \in Works, MainSchedule(w) \/ Wake(w) PROVE Phases'
  BY <1>6 DEF Phases, MainSchedule, Wake
<1>7. ASSUME NEW t \in Threads, RunStep(t) \/ BodyStep(t) PROVE Phases'
  <2>1. /\ pc'[t] # "created" /\ (pc'[t] = "done" => t \in idleTerm)
        /\ \A u \in Threads \ {t} : pc'[u] = pc[u]
    BY <1>7, ThreadMoves
  <2>2. /\ pc[t] \notin {"created", "done"}
        /\ UNCHANGED <<pool, m_rootThread, main, m_autoStop>>
        /\ idleTerm \subseteq idleTerm'
        /\ idleTerm' # {} => idleTerm # {} \/ m_autoStop
    BY <1>7, ThreadMoves DEF Stopping
  <2> QED
    BY <2>1, <2>2 DEF Phases
<1>8. CASE UNCHANGED vars
  BY <1>8 DEF Phases, vars
<1> QED
  BY <1>1, <1>2, <1>3, <1>4, <1>5, <1>6, <1>7, <1>8 DEF Next, StopStep

-----------------------------------------------------------------------------
(* The counters. *)

Inside(p, P) == {u \in Threads : p[u] \in P}

\* One thread that enters a set of places adds one to the number of threads
\* there, one that leaves takes one away.
LEMMA Counting ==
  ASSUME NEW p, NEW q, NEW P, NEW t \in Threads, \A u \in Threads \ {t} : q[u] = p[u]
  PROVE  /\ Cardinality(Inside(p, P)) \in Nat
         /\ Cardinality(Inside(q, P)) = Cardinality(Inside(p, P))
              + (IF q[t] \in P THEN 1 ELSE 0) - (IF p[t] \in P THEN 1 ELSE 0)
<1>1. IsFiniteSet(Inside(p, P))
  BY FS_Subset, ThreadsAssumption DEF Inside
<1>2. Cardinality(Inside(p, P)) \in Nat
  BY <1>1, FS_CardinalityType
<1>3. ASSUME p[t] \notin P, q[t] \in P
      PROVE  Cardinality(Inside(q, P)) = Cardinality(Inside(p, P)) + 1
  <2>1. Inside(q, P) = Inside(p, P) \cup {t} /\ t \notin Inside(p, P)
    BY <1>3 DEF Inside
  <2> QED
    BY <1>1, <2>1, FS_AddElement
<1>4. ASSUME p[t] \in P, q[t] \notin P
      PROVE  Cardinality(Inside(q, P)) = Cardinality(Inside(p, P)) - 1
  <2>1. Inside(q, P) = Inside(p, P) \ {t} /\ t \in Inside(p, P)
    BY <1>4 DEF Inside
  <2> QED
    BY <1>1, <2>1, FS_RemoveElement
<1>5. ASSUME p[t] \in P <=> q[t] \in P PROVE Inside(q, P) = Inside(p, P)
  BY <1>5 DEF Inside
<1> QED
  BY <1>2, <1>3, <1>4, <1>5

IdlePlaces == {"inIdle", "idleOut"}

\* CountersExact in the terms of the lemma.
LEMMA CountersInside ==
  CountersExact <=> /\ m_activeThreadCount = Cardinality(Inside(pc, ActivePlaces))
                    /\ m_idleThreadCount = Cardinality(Inside(pc, IdlePlaces))
  BY DEF CountersExact, Inside, IdlePlaces

LEMMA InitCounters == Init => CountersExact
<1> SUFFICES ASSUME Init PROVE CountersExact
  OBVIOUS
<1>1. \A t \in Threads : pc[t] = "created"
  BY DEF Init
<1>2. Inside(pc, ActivePlaces) = {} /\ Inside(pc, IdlePlaces) = {}
  BY <1>1 DEF Inside, ActivePlaces, IdlePlaces
<1> QED
  BY <1>2, CountersInside, FS_EmptySet DEF Init

\* What a step of a thread does to its place and to the two counters.
LEMMA ThreadCounts ==
  ASSUME TypeOK, NEW t \in Threads, RunStep(t) \/ BodyStep(t)
  PROVE  /\ m_activeThreadCount' =
              m_activeThreadCount + (IF pc'[t] \in ActivePlaces THEN 1 ELSE 0)
                                  - (IF pc[t] \in ActivePlaces THEN 1 ELSE 0)
         /\ m_idleThreadCount' =
              m_idleThreadCount + (IF pc'[t] \in IdlePlaces THEN 1 ELSE 0)
                                - (IF pc[t] \in IdlePlaces THEN 1 ELSE 0)
<1> DEFINE Goal ==
      /\ m_activeThreadCount' =
           m_activeThreadCount + (IF pc'[t] \in ActivePlaces THEN 1 ELSE 0)
                               - (IF pc[t] \in ActivePlaces THEN 1 ELSE 0)
      /\ m_idleThreadCount' =
           m_idleThreadCount + (IF pc'[t] \in IdlePlaces THEN 1 ELSE 0)
                             - (IF pc[t] \in IdlePlaces THEN 1 ELSE 0)
<1> SUFFICES Goal
  OBVIOUS
<1>0. /\ pc \in [Threads -> Places]
      /\ m_activeThreadCount \in Int /\ m_idleThreadCount \in Int
  BY DEF TypeOK
<1> USE <1>0 DEF countVars, At, Goto, ActivePlaces, IdlePlaces
<1>1. CASE Fetch(t)
  BY <1>1 DEF Fetch, Take, TakeNothing
<1>2. CASE Skip(t) \/ CountDown(t)
  BY <1>2 DEF Skip, CountDown, Deactivate
<1>3. CASE Test(t) \/ NotRunning(t) \/ Mark(t) \/ SwapIn(t) \/ SwapOut(t)
  <2>1. /\ pc[t] \in {"dispatch", "swapIn", "mark", "switch", "swapOut"}
        /\ pc'[t] \in {"skip", "swapIn", "mark", "switch", "body", "returned"}
        /\ UNCHANGED countVars
    BY <1>3 DEF Test, NotRunning, Mark, SwapIn, SwapOut
  <2> QED
    BY <2>1
<1>5. CASE AskReady(t) \/ Requeue(t) \/ AskOver(t)
  <2>1. /\ pc[t] \in {"askReady", "requeue", "askOver"}
        /\ pc'[t] \in {"requeue", "askOver", "reset", "hold", "fetch"}
        /\ UNCHANGED countVars
    BY <1>5 DEF AskReady, Requeue, AskOver
  <2> QED
    BY <2>1
<1>6. CASE ResetCheck(t) \/ Recycle(t) \/ Hold(t)
  <2>1. /\ pc[t] \in {"reset", "recycle", "hold"} /\ pc'[t] \in {"recycle", "fetch"}
        /\ UNCHANGED countVars
    BY <1>6 DEF ResetCheck, Recycle, Hold
  <2> QED
    BY <2>1
<1>7. CASE IdleEnter(t)
  BY <1>7 DEF IdleEnter
<1>8. CASE IdleRound(t)
  BY <1>8 DEF IdleRound
<1>9. CASE IdleLeave(t)
  BY <1>9 DEF IdleLeave
<1>10. CASE Exit(t)
  BY <1>10 DEF Exit
<1>11. CASE Arm(t)
  BY <1>11 DEF Arm
<1>12. CASE YieldToReady(t) \/ YieldToHold(t)
  <2>1. /\ pc[t] \in {"body", "arming"} /\ pc'[t] \in {"toReady", "toHold"}
        /\ UNCHANGED countVars
    BY <1>12 DEF YieldToReady, YieldToHold, Yield
  <2> QED
    BY <2>1
<1>13. CASE SetReady(t) \/ SetHold(t)
  <2>1. pc[t] \in {"toReady", "toHold"} /\ pc'[t] = "swapOut" /\ UNCHANGED countVars
    BY <1>13 DEF SetReady, SetHold, SetState
  <2> QED
    BY <2>1
<1>14. ASSUME NEW w \in Works, Spawn(t, w) PROVE Goal
  BY <1>14 DEF Spawn
<1>15. ASSUME NEW o, Finish(t, o) PROVE Goal
  BY <1>15 DEF Finish
<1> HIDE DEF Goal
<1> QED
  BY <1>1, <1>2, <1>3, <1>5, <1>6, <1>7, <1>8, <1>9, <1>10, <1>11,
     <1>12, <1>13, <1>14, <1>15 DEF RunStep, BodyStep

\* Every step keeps the counters exact.
LEMMA NextCounters ==
  TypeOK /\ Phases /\ CountersExact /\ [Next]_vars => CountersExact'
<1> SUFFICES ASSUME TypeOK, Phases, CountersExact, [Next]_vars PROVE CountersExact'
  OBVIOUS
<1> USE DEF countVars, setupVars, stopVars
<1>1. ASSUME UNCHANGED countVars,
             \A t \in Threads : pc'[t] \in ActivePlaces <=> pc[t] \in ActivePlaces,
             \A t \in Threads : pc'[t] \in IdlePlaces <=> pc[t] \in IdlePlaces
      PROVE  CountersExact'
  <2>1. {u \in Threads : pc'[u] \in ActivePlaces} = {u \in Threads : pc[u] \in ActivePlaces}
    BY <1>1
  <2>2. {u \in Threads : pc'[u] \in IdlePlaces} = {u \in Threads : pc[u] \in IdlePlaces}
    BY <1>1
  <2> QED
    BY <1>1, <2>1, <2>2 DEF CountersExact, IdlePlaces
<1>2. CASE Start
  BY <1>1, <1>2 DEF Start, MainAt, Phases, ActivePlaces, IdlePlaces
<1>3. CASE StopCallRoot
  <2>1. CASE m_rootThread # NoThread /\ ~Stopping
    <3>1. pc[m_rootThread] = "created" /\ pc' = [pc EXCEPT ![m_rootThread] = "fetch"]
      BY <1>3, <2>1 DEF StopCallRoot, MainAt, Goto, Phases
    <3> QED
      BY <1>1, <1>3, <3>1 DEF StopCallRoot, TypeOK, ActivePlaces, IdlePlaces
  <2>2. CASE ~(m_rootThread # NoThread /\ ~Stopping)
    BY <1>1, <1>3, <2>2 DEF StopCallRoot
  <2> QED
    BY <2>1, <2>2
<1>4. CASE Stop \/ RootReturned \/ Join
  BY <1>1, <1>4 DEF Stop, RootReturned, Join
<1>5. ASSUME NEW w \in Works, MainSchedule(w) \/ Wake(w) PROVE CountersExact'
  BY <1>1, <1>5 DEF MainSchedule, Wake
<1>6. ASSUME NEW t \in Threads, RunStep(t) \/ BodyStep(t) PROVE CountersExact'
  <2>1. \A u \in Threads \ {t} : pc'[u] = pc[u]
    BY <1>6, ThreadMoves
  <2>2. m_activeThreadCount' = Cardinality(Inside(pc', ActivePlaces))
    <3>1. /\ Cardinality(Inside(pc, ActivePlaces)) \in Nat
          /\ Cardinality(Inside(pc', ActivePlaces)) = Cardinality(Inside(pc, ActivePlaces))
               + (IF pc'[t] \in ActivePlaces THEN 1 ELSE 0)
               - (IF pc[t] \in ActivePlaces THEN 1 ELSE 0)
      BY <2>1, Counting
    <3> QED
      BY <1>6, <3>1, ThreadCounts, CountersInside
  <2>3. m_idleThreadCount' = Cardinality(Inside(pc', IdlePlaces))
    <3>1. /\ Cardinality(Inside(pc, IdlePlaces)) \in Nat
          /\ Cardinality(Inside(pc', IdlePlaces)) = Cardinality(Inside(pc, IdlePlaces))
               + (IF pc'[t] \in IdlePlaces THEN 1 ELSE 0)
               - (IF pc[t] \in IdlePlaces THEN 1 ELSE 0)
      BY <2>1, Counting
    <3> QED
      BY <1>6, <3>1, ThreadCounts, CountersInside
  <2> QED
    BY <2>2, <2>3 DEF CountersExact, Inside, IdlePlaces, ActivePlaces
<1>7. CASE UNCHANGED vars
  BY <1>1, <1>7 DEF vars
<1> QED
  BY <1>2, <1>3, <1>4, <1>5, <1>6, <1>7 DEF Next, StopStep

-----------------------------------------------------------------------------
(* The tasks that do not park. *)

Plain == Works \ Waiters

InList(s, w) == \E i \in DOMAIN s : s[i].work = w
OnceIn(s, w) == \A i, j \in DOMAIN s : s[i].work = w /\ s[j].work = w => i = j

\* push_back and erase, seen from one task.
LEMMA ListAppend ==
  ASSUME NEW s \in Seq(Entries), NEW e \in Entries, NEW w
  PROVE  /\ InList(Append(s, e), w) <=> InList(s, w) \/ e.work = w
         /\ OnceIn(s, w) /\ (e.work = w => ~InList(s, w)) => OnceIn(Append(s, e), w)
<1>1. /\ DOMAIN Append(s, e) = DOMAIN s \cup {Len(s) + 1}
      /\ Append(s, e)[Len(s) + 1] = e
      /\ \A i \in DOMAIN s : Append(s, e)[i] = s[i]
  BY Appended
<1> DEFINE r == Append(s, e)
           n == Len(s) + 1
<1> HIDE DEF r, n
<1>2. DOMAIN r = DOMAIN s \cup {n} /\ r[n] = e /\ \A i \in DOMAIN s : r[i] = s[i]
  BY <1>1 DEF r, n
<1>3. /\ InList(r, w) <=> InList(s, w) \/ e.work = w
      /\ OnceIn(s, w) /\ (e.work = w => ~InList(s, w)) => OnceIn(r, w)
  BY <1>2 DEF InList, OnceIn
<1> QED
  BY <1>3 DEF r

LEMMA ListRemove ==
  ASSUME NEW s \in Seq(Entries), NEW i \in DOMAIN s, NEW w
  PROVE  /\ InList(RemoveAt(s, i), w) => InList(s, w)
         /\ s[i].work # w /\ InList(s, w) => InList(RemoveAt(s, i), w)
         /\ OnceIn(s, w) => OnceIn(RemoveAt(s, i), w)
         /\ s[i].work = w /\ OnceIn(s, w) => ~InList(RemoveAt(s, i), w)
<1> DEFINE r == RemoveAt(s, i)
           at(j) == IF j < i THEN j ELSE j + 1
<1>1. Len(s) \in Nat /\ DOMAIN s = 1 .. Len(s) /\ i \in 1 .. Len(s)
  OBVIOUS
<1>2. DOMAIN r = 1 .. Len(s) - 1 /\ \A j \in DOMAIN r : r[j] = s[at(j)]
  BY Removed
<1>3. \A j \in DOMAIN r : at(j) \in DOMAIN s /\ at(j) # i
  BY <1>1, <1>2
<1>4. \A j, k \in DOMAIN r : at(j) = at(k) => j = k
  BY <1>1, <1>2
<1>5. ASSUME NEW k \in DOMAIN s, k # i PROVE \E j \in DOMAIN r : at(j) = k
  <2>1. CASE k < i
    BY <1>1, <1>2, <2>1
  <2>2. CASE k > i
    <3>1. k - 1 \in DOMAIN r /\ at(k - 1) = k
      BY <1>1, <1>2, <2>2
    <3> QED
      BY <3>1
  <2> QED
    BY <1>1, <1>5, <2>1, <2>2
<1> HIDE DEF r, at
<1>6. InList(r, w) => InList(s, w)
  BY <1>2, <1>3 DEF InList
<1>7. s[i].work # w /\ InList(s, w) => InList(r, w)
  BY <1>2, <1>5 DEF InList
<1>8. OnceIn(s, w) => OnceIn(r, w)
  BY <1>2, <1>3, <1>4 DEF OnceIn
<1>9. s[i].work = w /\ OnceIn(s, w) => ~InList(r, w)
  BY <1>2, <1>3 DEF OnceIn, InList
<1> QED
  BY <1>6, <1>7, <1>8, <1>9 DEF r

\* A task that can be resumed, or started.
Fresh(w) == w \notin ended /\ m_state[w] \in {"INIT", "READY"}
HeldBy(w, t) == ft[t].work = w

\* A plain task is in one place only: nobody has scheduled it, it is on the
\* list, one thread has it, or it is over; and on the list it can be resumed.
InOnePlace(w) ==
  /\ w \notin armed /\ w \notin overwritten
  /\ OnceIn(m_fibers, w)
  /\ \A t, u \in Threads : HeldBy(w, t) /\ HeldBy(w, u) => t = u
  /\ \A t \in Threads : HeldBy(w, t) => ~InList(m_fibers, w) /\ w \notin unborn
  /\ w \in unborn => ~InList(m_fibers, w) /\ Fresh(w)
  /\ InList(m_fibers, w) => Fresh(w)
  /\ \A t \in Threads : HeldBy(w, t) =>
       /\ pc[t] \in {"dispatch", "swapIn", "mark", "requeue"} => Fresh(w)
       /\ pc[t] \in {"switch", "body", "toReady"} => w \notin ended /\ m_state[w] = "EXEC"
       /\ pc[t] \notin {"skip", "arming", "toHold"}
       /\ pc[t] \in {"swapOut", "returned", "askReady"} =>
            (w \in ended <=> m_state[w] # "READY")
       /\ pc[t] \in {"askOver", "reset", "recycle", "hold"} =>
            w \in ended /\ m_state[w] # "READY"
  /\ w \in unborn \/ w \in ended \/ InList(m_fibers, w) \/ \E t \in Threads : HeldBy(w, t)

LEMMA InitPlace == ASSUME NEW w \in Plain PROVE Init => InOnePlace(w)
<1> SUFFICES ASSUME Init PROVE InOnePlace(w)
  OBVIOUS
<1>1. w \in Works /\ \A t \in Threads : ~HeldBy(w, t)
  BY EntryFacts DEF Init, HeldBy, Plain
<1>2. OnceIn(m_fibers, w) /\ ~InList(m_fibers, w)
  BY DEF Init, OnceIn, InList
<1>3. w \in unborn /\ w \notin armed /\ w \notin overwritten /\ Fresh(w)
  BY <1>1 DEF Init, Fresh
<1> QED
  BY <1>1, <1>2, <1>3 DEF InOnePlace

\* scheduleNoLock of task v, seen from task w.
LEMMA EnqueueSeen ==
  ASSUME TypeOK, NEW w, NEW v \in Works, NEW h \in Threads \cup {AnyThread},
         NEW c \in BOOLEAN, Enqueue(v, h, c)
  PROVE  /\ InList(m_fibers', w) <=> InList(m_fibers, w) \/ v = w
         /\ OnceIn(m_fibers, w) /\ (v = w => ~InList(m_fibers, w)) => OnceIn(m_fibers', w)
<1> DEFINE e == [work |-> v, thread |-> h, cb |-> c]
<1>1. e \in Entries /\ e.work = v /\ m_fibers' = Append(m_fibers, e)
  BY EntryFacts, Zenon DEF Enqueue
<1> HIDE DEF e
<1>2. m_fibers \in Seq(Entries)
  BY DEF TypeOK
<1> QED
  BY <1>1, <1>2, ListAppend

\* Every step keeps a plain task in one place.
LEMMA NextPlace ==
  ASSUME TypeOK, Phases, NEW w \in Plain, InOnePlace(w), [Next]_vars
  PROVE  InOnePlace(w)'
<1> USE DEF queueVars, countVars, setupVars, stopVars, fiberVars
<1>0. /\ w \in Works /\ w \notin Waiters
      /\ pc \in [Threads -> Places] /\ m_state \in [Works -> FiberStates]
      /\ DOMAIN ft = Threads
  BY DEF Plain, TypeOK
<1>1. \A t \in Threads : HeldBy(w, t) => pc[t] \in HoldingPlaces
  BY <1>0, EntryFacts DEF TypeOK, HeldBy
<1>2. ASSUME UNCHANGED <<m_fibers, unborn, m_state, ended, overwritten, ft>>, w \notin armed',
             \A t \in Threads : HeldBy(w, t) => pc'[t] = pc[t]
      PROVE  InOnePlace(w)'
  BY <1>2 DEF InOnePlace, HeldBy, Fresh
<1>3. CASE Start
  <2>1. \A t \in Threads : ~HeldBy(w, t)
    BY <1>1, <1>3 DEF Start, MainAt, Phases, HoldingPlaces, ActivePlaces
  <2> QED
    BY <1>2, <1>3, <2>1 DEF Start, InOnePlace
<1>4. CASE StopCallRoot
  <2>1. \A t \in Threads : HeldBy(w, t) => pc'[t] = pc[t]
    <3>1. CASE m_rootThread # NoThread /\ ~Stopping
      BY <1>0, <1>1, <1>4, <3>1
      DEF StopCallRoot, MainAt, Goto, Phases, HoldingPlaces, ActivePlaces
    <3>2. CASE ~(m_rootThread # NoThread /\ ~Stopping)
      BY <1>4, <3>2 DEF StopCallRoot
    <3> QED
      BY <3>1, <3>2
  <2> QED
    BY <1>2, <1>4, <2>1 DEF StopCallRoot, InOnePlace
<1>5. CASE Stop \/ RootReturned \/ Join
  BY <1>2, <1>5 DEF Stop, RootReturned, Join, InOnePlace
<1>6. ASSUME NEW v \in Works, v \in unborn, unborn' = unborn \ {v},
             Enqueue(v, Pin[v], v \in Callbacks),
             UNCHANGED <<m_state, ended, overwritten, ft, armed, pc>>
      PROVE  InOnePlace(w)'
  <2> DEFINE h == Pin[v]
             c == v \in Callbacks
  <2>1. h \in Threads \cup {AnyThread} /\ c \in BOOLEAN
    BY WorksAssumption
  <2>3. Enqueue(v, h, c)
    BY <1>6
  <2> HIDE DEF h, c
  <2>2. /\ InList(m_fibers', w) <=> InList(m_fibers, w) \/ v = w
        /\ OnceIn(m_fibers, w) /\ (v = w => ~InList(m_fibers, w)) => OnceIn(m_fibers', w)
    BY <2>1, <2>3, EnqueueSeen
  <2> QED
    BY <1>6, <2>2 DEF InOnePlace, HeldBy, Fresh
<1>7. ASSUME NEW v \in Works, MainSchedule(v) PROVE InOnePlace(w)'
  BY <1>6, <1>7 DEF MainSchedule
<1>8. ASSUME NEW v \in Works, Wake(v) PROVE InOnePlace(w)'
  <2>1. v # w
    BY <1>8 DEF Wake, InOnePlace
  <2>2. (InList(m_fibers', w) <=> InList(m_fibers, w)) /\ (OnceIn(m_fibers, w) => OnceIn(m_fibers', w))
    BY <1>8, <2>1, EnqueueSeen DEF Wake, Reschedule
  <2> QED
    BY <1>8, <2>2 DEF Wake, InOnePlace, HeldBy, Fresh
<1>9. ASSUME NEW t \in Threads, RunStep(t) \/ BodyStep(t) PROVE InOnePlace(w)'
  <2> DEFINE v == ft[t].work
  <2>1. \A u \in Threads \ {t} : pc'[u] = pc[u]
    BY <1>9, ThreadMoves
  <2>2. ASSUME UNCHANGED <<m_fibers, unborn, m_state, ended, overwritten, ft>>,
               w \notin armed', ~HeldBy(w, t)
        PROVE  InOnePlace(w)'
    BY <1>2, <2>1, <2>2
  <2>3. pc[t] \in HoldingPlaces => v \in Works
    BY HoldingFacts
  <2>4. CASE Fetch(t)
    <3>1. pc[t] = "fetch" /\ ~HeldBy(w, t) /\ w \notin armed'
      BY <1>1, <2>4 DEF Fetch, At, HoldingPlaces, ActivePlaces, InOnePlace
    <3>2. CASE TakeNothing(t)
      BY <2>2, <2>4, <3>1, <3>2 DEF Fetch, TakeNothing
    <3>3. CASE Take(t)
      <4>1. PICK i \in DOMAIN m_fibers :
              /\ ft' = [ft EXCEPT ![t] = m_fibers[i]]
              /\ m_fibers' = RemoveAt(m_fibers, i)
              /\ pc' = [pc EXCEPT ![t] = "dispatch"]
        BY <3>3 DEF Take, Erase, Goto, TakeableAt
      <4>2. /\ InList(m_fibers', w) => InList(m_fibers, w)
            /\ m_fibers[i].work # w /\ InList(m_fibers, w) => InList(m_fibers', w)
            /\ OnceIn(m_fibers, w) => OnceIn(m_fibers', w)
            /\ m_fibers[i].work = w /\ OnceIn(m_fibers, w) => ~InList(m_fibers', w)
        BY <4>1, ListRemove DEF TypeOK
      <4>3. \A u \in Threads : ft'[u].work = IF u = t THEN m_fibers[i].work ELSE ft[u].work
        BY <1>0, <4>1
      <4>4. m_fibers[i].work = w => InList(m_fibers, w)
        BY DEF InList
      <4>5. pc'[t] = "dispatch" /\ UNCHANGED <<m_state, ended, overwritten, unborn, armed>>
        BY <1>0, <2>4, <4>1 DEF Fetch
      <4> QED
        BY <2>1, <3>1, <4>2, <4>3, <4>4, <4>5 DEF InOnePlace, HeldBy, Fresh
    <3> QED
      BY <2>4, <3>2, <3>3 DEF Fetch
  <2>5. CASE Skip(t)
    <3>1. pc[t] = "skip" /\ v # w
      BY <2>5 DEF Skip, At, InOnePlace, HeldBy
    <3>2. \A u \in Threads : ft'[u].work = w <=> ft[u].work = w
      BY <1>0, <2>5, <3>1, EntryFacts DEF Skip, Release
    <3>3. UNCHANGED <<m_fibers, m_state, ended, overwritten, unborn, armed>>
      BY <2>5 DEF Skip
    <3> QED
      BY <2>1, <3>1, <3>2, <3>3 DEF InOnePlace, HeldBy, Fresh
  <2>6. CASE Test(t) \/ AskReady(t)
    <3>1. /\ \/ pc[t] = "dispatch" /\ pc'[t] \in {"skip", "swapIn"}
                /\ (pc'[t] = "skip" => Over(v))
             \/ pc[t] = "askReady" /\ m_state[v] = "READY" /\ pc'[t] = "requeue"
             \/ pc[t] = "askReady" /\ m_state[v] # "READY" /\ pc'[t] = "askOver"
          /\ UNCHANGED <<m_fibers, m_state, ended, overwritten, unborn, armed, ft>>
      BY <1>0, <2>6 DEF Test, AskReady, At, Goto
    <3>2. v = w /\ pc[t] = "dispatch" => ~Over(v)
      BY DEF InOnePlace, HeldBy, Fresh, Over
    <3> QED
      BY <2>1, <3>1, <3>2 DEF InOnePlace, HeldBy, Fresh
  <2>7. CASE NotRunning(t) \/ SwapIn(t) \/ SwapOut(t) \/ CountDown(t) \/ ResetCheck(t)
    <3>1. /\ \/ pc[t] = "swapIn" /\ pc'[t] = "mark"
             \/ pc[t] = "switch" /\ pc'[t] = "body"
             \/ pc[t] = "swapOut" /\ pc'[t] = "returned"
             \/ pc[t] = "returned" /\ pc'[t] = "askReady"
             \/ pc[t] = "reset" /\ pc'[t] = "recycle"
          /\ UNCHANGED <<m_fibers, m_state, ended, overwritten, unborn, armed, ft>>
      BY <1>0, <2>7 DEF NotRunning, SwapIn, SwapOut, CountDown, ResetCheck, At, Goto
    <3> QED
      BY <2>1, <3>1 DEF InOnePlace, HeldBy, Fresh
  <2>8. CASE Mark(t) \/ SetReady(t) \/ SetHold(t)
    <3>1. /\ v \in Works
          /\ \/ /\ pc[t] = "mark" /\ pc'[t] = "switch"
                /\ m_state' = [m_state EXCEPT ![v] = "EXEC"]
             \/ /\ pc[t] = "toReady" /\ pc'[t] = "swapOut"
                /\ m_state' = [m_state EXCEPT ![v] = "READY"]
             \/ /\ pc[t] = "toHold" /\ pc'[t] = "swapOut"
                /\ m_state' = [m_state EXCEPT ![v] = "HOLD"]
          /\ UNCHANGED <<m_fibers, ended, overwritten, unborn, armed, ft>>
      BY <1>0, <2>3, <2>8
      DEF Mark, SetReady, SetHold, SetState, At, Goto, HoldingPlaces, ActivePlaces
    <3>2. v = w => pc[t] # "toHold"
      BY DEF InOnePlace, HeldBy
    <3>3. m_state'[w] = IF v # w THEN m_state[w] ELSE IF pc[t] = "mark" THEN "EXEC" ELSE "READY"
      BY <1>0, <3>1, <3>2
    <3> QED
      BY <2>1, <3>1, <3>2, <3>3 DEF InOnePlace, HeldBy, Fresh
  <2>15. CASE Requeue(t)
    <3>1. /\ pc[t] = "requeue" /\ pc'[t] = "fetch" /\ v \in Works /\ Reschedule(v)
          /\ UNCHANGED <<m_state, ended, overwritten, unborn, armed>>
      BY <1>0, <2>3, <2>15 DEF Requeue, At, Goto, HoldingPlaces
    <3>2. \A u \in Threads : ft'[u].work = w <=> u # t /\ ft[u].work = w
      BY <1>0, <2>15, EntryFacts DEF Requeue, Release
    <3>3. /\ InList(m_fibers', w) <=> InList(m_fibers, w) \/ v = w
          /\ OnceIn(m_fibers, w) /\ (v = w => ~InList(m_fibers, w)) => OnceIn(m_fibers', w)
      BY <3>1, EnqueueSeen DEF Reschedule
    <3> QED
      BY <2>1, <3>1, <3>2, <3>3 DEF InOnePlace, HeldBy, Fresh
  <2>16. CASE AskOver(t)
    <3>1. /\ pc[t] = "askOver" /\ pc'[t] \in {"reset", "hold", "fetch"}
          /\ UNCHANGED <<m_fibers, m_state, ended, overwritten, unborn, armed>>
          /\ \/ pc'[t] # "fetch" /\ UNCHANGED ft
             \/ pc'[t] = "fetch" /\ ft' = [ft EXCEPT ![t] = NoWork]
      BY <1>0, <2>16 DEF AskOver, At, Goto, Release
    <3>2. \A u \in Threads : ft'[u].work = w => ft[u].work = w /\ (u = t => pc'[t] # "fetch")
      BY <1>0, <3>1, EntryFacts
    <3>3. \A u \in Threads : u # t /\ ft[u].work = w => ft'[u].work = w
      BY <1>0, <3>1
    <3>4. v = w => w \in ended /\ m_state[w] # "READY"
      BY <3>1 DEF InOnePlace, HeldBy
    <3> QED
      BY <2>1, <3>1, <3>2, <3>3, <3>4 DEF InOnePlace, HeldBy, Fresh
  <2>17. CASE Recycle(t) \/ Hold(t)
    <3>1. /\ pc[t] \in {"recycle", "hold"} /\ pc'[t] = "fetch" /\ v \in Works
          /\ \E q \in {"INIT", "HOLD"} : m_state' = [m_state EXCEPT ![v] = q]
          /\ overwritten' = overwritten \/ (overwritten' = overwritten \cup {v} /\ m_state[v] = "READY")
          /\ UNCHANGED <<m_fibers, ended, unborn, armed>>
      BY <1>0, <2>3, <2>17 DEF Recycle, Hold, At, Goto, HoldingPlaces
    <3>2. \A u \in Threads : ft'[u].work = w <=> u # t /\ ft[u].work = w
      BY <1>0, <2>17, EntryFacts DEF Recycle, Hold, Release
    <3>3. v # w => m_state'[w] = m_state[w]
      BY <1>0, <3>1
    <3>4. v = w => w \in ended /\ m_state[w] # "READY"
      BY <3>1 DEF InOnePlace, HeldBy
    <3> QED
      BY <2>1, <3>1, <3>2, <3>3, <3>4 DEF InOnePlace, HeldBy, Fresh
  <2>9. CASE IdleEnter(t) \/ IdleRound(t) \/ IdleLeave(t) \/ Exit(t)
    <3>1. /\ pc[t] \notin HoldingPlaces
          /\ UNCHANGED <<m_fibers, m_state, ended, overwritten, unborn, armed, ft>>
      BY <2>9 DEF IdleEnter, IdleRound, IdleLeave, Exit, At, HoldingPlaces, ActivePlaces
    <3> QED
      BY <1>1, <2>2, <3>1 DEF InOnePlace
  <2>10. CASE Arm(t)
    <3>1. v # w /\ w \notin armed' /\ UNCHANGED <<m_fibers, m_state, ended, overwritten, unborn, ft>>
      BY <1>0, <2>10 DEF Arm, InOnePlace
    <3> QED
      BY <2>2, <3>1 DEF HeldBy
  <2>11. CASE YieldToReady(t) \/ YieldToHold(t)
    <3>1. /\ \/ pc[t] = "body" /\ pc'[t] = "toReady"
             \/ pc[t] = "arming" /\ pc'[t] = "toHold"
          /\ UNCHANGED <<m_fibers, m_state, ended, overwritten, unborn, armed, ft>>
      BY <1>0, <2>11 DEF YieldToReady, YieldToHold, Yield, At, Goto
    <3> QED
      BY <2>1, <3>1 DEF InOnePlace, HeldBy, Fresh
  <2>13. ASSUME NEW x \in Works, Spawn(t, x) PROVE InOnePlace(w)'
    BY <1>6, <2>13 DEF Spawn
  <2>14. ASSUME NEW o \in {"return", "std", "other"}, Finish(t, o) PROVE InOnePlace(w)'
    <3>1. /\ pc[t] \in {"body", "arming"} /\ pc'[t] = "swapOut" /\ v \in Works
          /\ m_state' = [m_state EXCEPT ![v] = FinalState(o, v)]
          /\ ended' = ended \cup {v}
          /\ UNCHANGED <<m_fibers, overwritten, unborn, armed, ft>>
      BY <1>0, <2>3, <2>14 DEF Finish, At, Goto, HoldingPlaces, ActivePlaces
    <3>2. m_state'[w] = IF v = w THEN FinalState(o, v) ELSE m_state[w]
      BY <1>0, <3>1
    <3>3. v = w => FinalState(o, v) # "READY"
      BY <3>1 DEF FinalState, InOnePlace, HeldBy
    <3> QED
      BY <2>1, <3>1, <3>2, <3>3 DEF InOnePlace, HeldBy, Fresh
  <2> QED
    BY <1>9, <2>4, <2>5, <2>6, <2>7, <2>8, <2>9, <2>10, <2>11, <2>13, <2>14,
       <2>15, <2>16, <2>17
    DEF RunStep, BodyStep
<1>10. CASE UNCHANGED vars
  BY <1>2, <1>10 DEF vars, InOnePlace
<1> QED
  BY <1>3, <1>4, <1>5, <1>7, <1>8, <1>9, <1>10 DEF Next, StopStep

-----------------------------------------------------------------------------
(* What stop() leaves behind. *)

\* An entry is for any thread or for the one its task was scheduled for, and
\* once a thread may leave (left) no entry of the owner's is for one thread.
WellPinned(e, left) ==
  /\ e.thread \in {AnyThread, Pin[e.work]}
  /\ left /\ Parent[e.work] = Main => e.thread = AnyThread

Pins == \A i \in DOMAIN m_fibers : WellPinned(m_fibers[i], idleTerm # {})

LEMMA InitPins == Init => Pins
  BY DEF Init, Pins

LEMMA EnqueuePins ==
  ASSUME TypeOK, Pins, NEW v \in Works, NEW h \in {AnyThread, Pin[v]}, NEW c \in BOOLEAN,
         Enqueue(v, h, c), UNCHANGED idleTerm,
         idleTerm = {} \/ Parent[v] # Main \/ h = AnyThread
  PROVE  Pins'
<1> DEFINE e == [work |-> v, thread |-> h, cb |-> c]
<1>1. e \in Entries /\ e.work = v /\ e.thread = h /\ m_fibers' = Append(m_fibers, e)
  BY EntryFacts, WorksAssumption, Zenon DEF Enqueue
<1> HIDE DEF e
<1>2. /\ DOMAIN m_fibers' = DOMAIN m_fibers \cup {Len(m_fibers) + 1}
      /\ m_fibers'[Len(m_fibers) + 1] = e
      /\ \A i \in DOMAIN m_fibers : m_fibers'[i] = m_fibers[i]
  BY <1>1, Appended DEF TypeOK
<1>3. WellPinned(e, idleTerm # {})
  BY <1>1 DEF WellPinned
<1> QED
  BY <1>2, <1>3 DEF Pins

LEMMA NextPins == TypeOK /\ Phases /\ Pins /\ [Next]_vars => Pins'
<1> SUFFICES ASSUME TypeOK, Phases, Pins, [Next]_vars PROVE Pins'
  OBVIOUS
<1> USE DEF queueVars, countVars, setupVars, stopVars, fiberVars
<1>1. ASSUME UNCHANGED <<m_fibers, idleTerm>> PROVE Pins'
  BY <1>1 DEF Pins
<1>2. CASE Start \/ StopStep
  BY <1>1, <1>2 DEF Start, StopStep, Stop, StopCallRoot, RootReturned, Join
<1>3. ASSUME NEW v \in Works PROVE Pin[v] \in {AnyThread, Pin[v]} /\ (v \in Callbacks) \in BOOLEAN
  OBVIOUS
<1>4. ASSUME NEW v \in Works, MainSchedule(v) PROVE Pins'
  <2>1. idleTerm = {} /\ UNCHANGED idleTerm /\ Enqueue(v, Pin[v], v \in Callbacks)
    BY <1>4 DEF MainSchedule, MainAt, Phases
  <2> QED
    BY <1>3, <2>1, EnqueuePins, Zenon
<1>5. ASSUME NEW v \in Works, Reschedule(v), UNCHANGED idleTerm PROVE Pins'
  BY <1>5, EnqueuePins, Zenon DEF Reschedule
<1>6. ASSUME NEW v \in Works, Wake(v) PROVE Pins'
  BY <1>5, <1>6 DEF Wake
<1>7. ASSUME NEW t \in Threads, RunStep(t) \/ BodyStep(t) PROVE Pins'
  <2>1. CASE Fetch(t)
    <3>1. CASE TakeNothing(t)
      BY <1>1, <2>1, <3>1 DEF Fetch, TakeNothing
    <3>2. CASE Take(t)
      <4>1. PICK i \in DOMAIN m_fibers : m_fibers' = RemoveAt(m_fibers, i)
        BY <3>2 DEF Take, Erase, TakeableAt
      <4>2. \A j \in DOMAIN m_fibers' : \E k \in DOMAIN m_fibers : m_fibers'[j] = m_fibers[k]
        <5>1. /\ DOMAIN m_fibers' = 1 .. Len(m_fibers) - 1
              /\ \A j \in 1 .. Len(m_fibers) - 1 :
                   m_fibers'[j] = m_fibers[IF j < i THEN j ELSE j + 1]
          BY <4>1, Removed DEF TypeOK
        <5>2. Len(m_fibers) \in Nat /\ DOMAIN m_fibers = 1 .. Len(m_fibers)
          BY DEF TypeOK
        <5> QED
          BY <5>1, <5>2
      <4>3. UNCHANGED idleTerm
        BY <2>1 DEF Fetch
      <4> QED
        BY <4>2, <4>3 DEF Pins
    <3> QED
      BY <2>1, <3>1, <3>2 DEF Fetch
  <2>2. CASE IdleRound(t)
    <3>1. CASE Stopping
      BY <2>2, <3>1 DEF IdleRound, Stopping, Pins
    <3>2. CASE ~Stopping
      BY <1>1, <2>2, <3>2 DEF IdleRound
    <3> QED
      BY <3>1, <3>2
  <2>3. CASE Requeue(t)
    <3>1. ft[t].work \in Works /\ UNCHANGED idleTerm /\ Reschedule(ft[t].work)
      BY <2>3, HoldingFacts DEF Requeue, At, HoldingPlaces
    <3> QED
      BY <1>5, <3>1
  <2>4. ASSUME NEW v \in Works, Spawn(t, v) PROVE Pins'
    <3>1. Parent[v] # Main /\ UNCHANGED idleTerm /\ Enqueue(v, Pin[v], v \in Callbacks)
      BY <2>4, HoldingFacts, WorksAssumption DEF Spawn, At, HoldingPlaces, ActivePlaces
    <3> QED
      BY <1>3, <3>1, EnqueuePins, Zenon
  <2>5. CASE \/ Test(t) \/ Skip(t) \/ NotRunning(t) \/ Mark(t) \/ SwapIn(t) \/ SwapOut(t)
             \/ CountDown(t) \/ AskReady(t) \/ AskOver(t) \/ ResetCheck(t) \/ Recycle(t)
             \/ Hold(t) \/ IdleEnter(t) \/ IdleLeave(t) \/ Exit(t)
    BY <1>1, <2>5 DEF Test, Skip, NotRunning, Mark, SwapIn, SwapOut, CountDown, AskReady,
       AskOver, ResetCheck, Recycle, Hold, IdleEnter, IdleLeave, Exit
  <2>6. CASE \/ Arm(t) \/ YieldToReady(t) \/ YieldToHold(t) \/ SetReady(t) \/ SetHold(t)
             \/ \E o : Finish(t, o)
    BY <1>1, <2>6 DEF Arm, YieldToReady, YieldToHold, Yield, SetReady, SetHold, SetState,
       Finish
  <2> QED
    BY <1>7, <2>1, <2>2, <2>3, <2>4, <2>5, <2>6 DEF RunStep, BodyStep
<1>8. CASE UNCHANGED vars
  BY <1>1, <1>8 DEF vars
<1> QED
  BY <1>2, <1>4, <1>6, <1>7, <1>8 DEF Next

\* The threads that will look at the list again before they leave, and the
\* tasks of StopDrains.
WillScan(t) == pc[t] \notin {"created", "done"} /\ ~(pc[t] = "idle" /\ t \in idleTerm)
Drained(w) == Pin[w] = AnyThread \/ Parent[w] = Main

Waiting == \E w \in Plain : Drained(w) /\ InList(m_fibers, w)

\* No such task is on the list without somebody who will look at it: a thread,
\* or stop(), which runs the caller's own thread unless the list is empty.
Attended ==
  \/ main = "created"
  \/ m_rootThread # NoThread /\ main \in {"running", "stopping"}
  \/ \E t \in Threads : WillScan(t)
  \/ ~Waiting

LEMMA InitAttended == Init => Attended
  BY DEF Init, Attended

\* A step of a thread that does not leave it at a place where it scans again.
LEMMA LastSteps ==
  ASSUME TypeOK, NEW t \in Threads, RunStep(t) \/ BodyStep(t)
  PROVE  Exit(t) \/ (Fetch(t) /\ TakeNothing(t)) \/ pc'[t] \notin {"created", "done", "idle"}
<1> DEFINE Goal ==
      Exit(t) \/ (Fetch(t) /\ TakeNothing(t)) \/ pc'[t] \notin {"created", "done", "idle"}
<1> SUFFICES Goal
  OBVIOUS
<1>0. pc \in [Threads -> Places]
  BY DEF TypeOK
<1> USE <1>0 DEF At, Goto
<1>1. CASE Fetch(t)
  BY <1>1 DEF Fetch, Take
<1>2. CASE \/ Test(t) \/ Skip(t) \/ NotRunning(t) \/ Mark(t) \/ SwapIn(t) \/ SwapOut(t)
           \/ IdleEnter(t) \/ IdleRound(t) \/ IdleLeave(t) \/ Exit(t)
  BY <1>2 DEF Test, Skip, NotRunning, Mark, SwapIn, SwapOut, IdleEnter, IdleRound, IdleLeave
<1>5. CASE \/ CountDown(t) \/ AskReady(t) \/ Requeue(t) \/ AskOver(t) \/ ResetCheck(t)
           \/ Recycle(t) \/ Hold(t)
  BY <1>5 DEF CountDown, AskReady, Requeue, AskOver, ResetCheck, Recycle, Hold
<1>3. CASE Arm(t) \/ YieldToReady(t) \/ YieldToHold(t) \/ SetReady(t) \/ SetHold(t)
  BY <1>3 DEF Arm, YieldToReady, YieldToHold, Yield, SetReady, SetHold, SetState
<1>4. ASSUME \/ \E w \in Works : Spawn(t, w)
             \/ \E o \in {"return", "std", "other"} : Finish(t, o)
      PROVE  Goal
  BY <1>4 DEF Spawn, Finish
<1> HIDE DEF Goal
<1> QED
  BY <1>1, <1>2, <1>3, <1>4, <1>5 DEF RunStep, BodyStep

\* A thread whose idle fiber is TERM finds every such task that is waiting.
LEMMA LastScan ==
  ASSUME TypeOK, \A w \in Plain : InOnePlace(w), Pins,
         NEW t \in Threads, t \in idleTerm, TakeNothing(t)
  PROVE  ~Waiting
<1> SUFFICES ASSUME NEW w \in Plain, Drained(w), InList(m_fibers, w) PROVE FALSE
  BY DEF Waiting
<1>1. PICK i \in DOMAIN m_fibers : m_fibers[i].work = w
  BY DEF InList
<1>2. m_fibers[i].thread = AnyThread
  BY <1>1 DEF Pins, WellPinned, Drained
<1>3. m_state[w] # "EXEC"
  BY DEF InOnePlace, Fresh
<1>4. i \in TakeableAt(t)
  BY <1>1, <1>2, <1>3 DEF TakeableAt, Takeable
<1> QED
  BY <1>4 DEF TakeNothing

LEMMA NextAttended ==
  ASSUME TypeOK, Phases, \A w \in Plain : InOnePlace(w), Pins, Attended, [Next]_vars
  PROVE  Attended'
<1> USE SetupFacts DEF queueVars, countVars, setupVars, stopVars, fiberVars
<1>0. pc \in [Threads -> Places]
  BY DEF TypeOK
<1>1. CASE Start
  <2>1. CASE m_rootThread # NoThread
    BY <1>1, <2>1 DEF Start, Attended
  <2>2. CASE m_rootThread = NoThread
    <3>1. PICK t \in pool : t \in Threads
      OBVIOUS
    <3>2. pc'[t] = "fetch"
      BY <1>1, <2>2, <3>1 DEF Start
    <3> QED
      BY <3>1, <3>2 DEF Attended, WillScan
  <2> QED
    BY <2>1, <2>2
<1>2. CASE Stop
  BY <1>2 DEF Stop, MainAt, Attended, WillScan, Waiting
<1>3. CASE StopCallRoot
  <2>1. CASE m_rootThread # NoThread /\ ~Stopping
    <3>1. m_rootThread \in Threads /\ pc'[m_rootThread] = "fetch"
      BY <1>0, <1>3, <2>1 DEF StopCallRoot, Goto
    <3> QED
      BY <3>1 DEF Attended, WillScan
  <2>2. CASE m_rootThread # NoThread /\ Stopping
    <3>1. m_fibers' = <<>>
      BY <1>3, <2>2 DEF StopCallRoot, Stopping
    <3> QED
      BY <3>1 DEF Attended, Waiting, InList
  <2>3. CASE m_rootThread = NoThread
    BY <1>3, <2>3 DEF StopCallRoot, MainAt, Attended, WillScan, Waiting
  <2> QED
    BY <2>1, <2>2, <2>3
<1>4. CASE RootReturned \/ Join
  BY <1>4 DEF RootReturned, Join, MainAt, Attended, WillScan, Waiting
<1>5. ASSUME NEW v \in Works, MainSchedule(v) PROVE Attended'
  <2>1. UNCHANGED <<main, m_rootThread, pc, idleTerm>> /\ main \in {"created", "running"}
    BY <1>5 DEF MainSchedule, MainAt
  <2>2. CASE main = "running" /\ m_rootThread = NoThread
    <3>1. PICK t \in pool : t \in Threads
      OBVIOUS
    <3>2. pc[t] \notin {"created", "done"} /\ idleTerm = {}
      BY <2>2, <3>1 DEF Phases
    <3> QED
      BY <2>1, <3>1, <3>2 DEF Attended, WillScan
  <2> QED
    BY <2>1, <2>2 DEF Attended
<1>6. ASSUME NEW v \in Works, Wake(v) PROVE Attended'
  <2>1. \A w \in Plain : v # w
    BY <1>6 DEF Wake, InOnePlace
  <2>2. \A w \in Plain : InList(m_fibers', w) <=> InList(m_fibers, w)
    BY <1>6, <2>1, EnqueueSeen DEF Wake, Reschedule
  <2>3. UNCHANGED <<main, m_rootThread, pc, idleTerm>>
    BY <1>6 DEF Wake
  <2> QED
    BY <2>2, <2>3 DEF Attended, WillScan, Waiting, Drained
<1>7. ASSUME NEW t \in Threads, RunStep(t) \/ BodyStep(t) PROVE Attended'
  <2>1. /\ \A u \in Threads \ {t} : pc'[u] = pc[u]
        /\ UNCHANGED <<m_rootThread, main>>
        /\ idleTerm' = idleTerm \/ idleTerm' = idleTerm \cup {t}
    BY <1>7, ThreadMoves
  <2>2. CASE Exit(t)
    <3>1. pc[t] = "idle" /\ t \in idleTerm /\ UNCHANGED <<m_fibers, idleTerm>>
      BY <2>2 DEF Exit, At
    <3>2. \A u \in Threads : WillScan(u) => WillScan(u)'
      BY <2>1, <3>1 DEF WillScan
    <3> QED
      BY <2>1, <3>1, <3>2 DEF Attended, Waiting
  <2>3. CASE Fetch(t) /\ TakeNothing(t)
    <3>1. pc'[t] = "idle" /\ UNCHANGED <<m_fibers, idleTerm>>
      BY <1>0, <2>3 DEF Fetch, TakeNothing, Goto
    <3>2. CASE t \in idleTerm
      BY <2>3, <3>1, <3>2, LastScan DEF Attended, Waiting
    <3>3. CASE t \notin idleTerm
      BY <3>1, <3>3 DEF Attended, WillScan
    <3> QED
      BY <3>2, <3>3
  <2>4. CASE pc'[t] \notin {"created", "done", "idle"}
    BY <2>4 DEF Attended, WillScan
  <2> QED
    BY <1>7, <2>2, <2>3, <2>4, LastSteps
<1>8. CASE UNCHANGED vars
  BY <1>8 DEF vars, Attended, WillScan, Waiting
<1> QED
  BY <1>1, <1>2, <1>3, <1>4, <1>5, <1>6, <1>7, <1>8 DEF Next, StopStep

-----------------------------------------------------------------------------
(* No task is lost. *)

\* The places of a thread that runs its task, of one that is about to resume
\* it, and of one that parks it; and those where READY has not been read yet.
OnStack == {"body", "arming", "toReady", "toHold", "swapOut"}
Resuming == {"dispatch", "swapIn", "mark", "switch", "requeue"}
Parking == {"arming", "toHold"}
Unread == {"swapOut", "returned", "askReady"}

\* Some thread has w and has not switched out of it, or will find it READY.
Resumable(w) ==
  \/ w \in armed \/ InList(m_fibers, w)
  \/ \E t \in Threads : HeldBy(w, t) /\ pc[t] \in Resuming \cup {"body", "toReady"} \cup Parking
  \/ m_state[w] = "READY" /\ \E t \in Threads : HeldBy(w, t) /\ pc[t] \in Unread

\* A stack is run by one thread at a time, and nobody else can switch to it.
Stacked(w) ==
  \A t \in Threads : HeldBy(w, t) /\ pc[t] \in OnStack =>
    w \notin saved /\ \A u \in Threads : HeldBy(w, u) /\ pc[u] \in OnStack => t = u

\* A task that is not over can be resumed without the thread that is about to
\* park it.
ParksSafely(w) ==
  \A t \in Threads : HeldBy(w, t) /\ pc[t] \in Parking =>
    \/ w \in armed \/ InList(m_fibers, w)
    \/ \E u \in Threads : HeldBy(w, u) /\ pc[u] \in Resuming

Somewhere(w) ==
  w \in overwritten \/ w \in armed \/ InList(m_fibers, w) \/ \E t \in Threads : HeldBy(w, t)

Tracked(w) ==
  /\ m_state[w] \in {"TERM", "EXCEPT"} => w \in ended
  /\ \A t \in Threads : HeldBy(w, t) /\ pc[t] \in {"skip", "reset", "recycle"} => w \in ended
  /\ fault = "none" => Stacked(w)
  /\ w \notin unborn \cup ended =>
       /\ fault = "none" => ParksSafely(w) /\ (w \in overwritten \/ Resumable(w))
       /\ Somewhere(w)

LEMMA InitTracked == ASSUME NEW w \in Works PROVE Init => Tracked(w)
<1> SUFFICES ASSUME Init PROVE Tracked(w)
  OBVIOUS
<1>1. w \in unborn /\ m_state[w] = "INIT" /\ \A t \in Threads : pc[t] = "created"
  BY DEF Init
<1> QED
  BY <1>1 DEF Tracked, Stacked, OnStack

\* Every step keeps track of a task.
LEMMA NextTracked ==
  ASSUME TypeOK, Phases, NEW w \in Works, Tracked(w), [Next]_vars
  PROVE  Tracked(w)'
<1> USE DEF queueVars, countVars, setupVars, stopVars, fiberVars
<1>0. /\ pc \in [Threads -> Places] /\ m_state \in [Works -> FiberStates]
      /\ DOMAIN ft = Threads
  BY DEF TypeOK
<1>1. \A t \in Threads : HeldBy(w, t) => pc[t] \in HoldingPlaces
  BY <1>0, EntryFacts DEF TypeOK, HeldBy
<1>2. ASSUME UNCHANGED <<m_fibers, armed, unborn, m_state, saved, ended, overwritten, ft, fault>>,
             \A t \in Threads : HeldBy(w, t) => pc'[t] = pc[t]
      PROVE  Tracked(w)'
  BY <1>2 DEF Tracked, Somewhere, Resumable, ParksSafely, Stacked, HeldBy
<1>3. CASE Start
  <2>1. \A t \in Threads : ~HeldBy(w, t)
    BY <1>1, <1>3 DEF Start, MainAt, Phases, HoldingPlaces, ActivePlaces
  <2> QED
    BY <1>2, <1>3, <2>1 DEF Start
<1>4. CASE StopCallRoot
  <2>1. \A t \in Threads : HeldBy(w, t) => pc'[t] = pc[t]
    <3>1. CASE m_rootThread # NoThread /\ ~Stopping
      BY <1>0, <1>1, <1>4, <3>1
      DEF StopCallRoot, MainAt, Goto, Phases, HoldingPlaces, ActivePlaces
    <3>2. CASE ~(m_rootThread # NoThread /\ ~Stopping)
      BY <1>4, <3>2 DEF StopCallRoot
    <3> QED
      BY <3>1, <3>2
  <2> QED
    BY <1>2, <1>4, <2>1 DEF StopCallRoot
<1>5. CASE Stop \/ RootReturned \/ Join
  BY <1>2, <1>5 DEF Stop, RootReturned, Join
<1>6. ASSUME NEW v \in Works, v \in unborn, unborn' = unborn \ {v},
             Enqueue(v, Pin[v], v \in Callbacks),
             UNCHANGED <<m_state, saved, ended, overwritten, ft, armed, pc, fault>>
      PROVE  Tracked(w)'
  <2> DEFINE h == Pin[v]
             c == v \in Callbacks
  <2>1. h \in Threads \cup {AnyThread} /\ c \in BOOLEAN
    BY WorksAssumption
  <2>2. Enqueue(v, h, c)
    BY <1>6
  <2> HIDE DEF h, c
  <2>3. InList(m_fibers', w) <=> InList(m_fibers, w) \/ v = w
    BY <2>1, <2>2, EnqueueSeen
  <2> QED
    BY <1>6, <2>3 DEF Tracked, Somewhere, Resumable, ParksSafely, Stacked, HeldBy
<1>7. ASSUME NEW v \in Works, MainSchedule(v) PROVE Tracked(w)'
  BY <1>6, <1>7 DEF MainSchedule
<1>8. ASSUME NEW v \in Works, Wake(v) PROVE Tracked(w)'
  <2>1. InList(m_fibers', w) <=> InList(m_fibers, w) \/ v = w
    BY <1>8, EnqueueSeen DEF Wake, Reschedule
  <2> QED
    BY <1>8, <2>1 DEF Wake, Tracked, Somewhere, Resumable, ParksSafely, Stacked, HeldBy
<1>9. ASSUME NEW t \in Threads, RunStep(t) \/ BodyStep(t) PROVE Tracked(w)'
  <2> DEFINE v == ft[t].work
  <2>1. \A u \in Threads \ {t} : pc'[u] = pc[u]
    BY <1>9, ThreadMoves
  <2>3. pc[t] \in HoldingPlaces => v \in Works
    BY HoldingFacts
  <2>4. CASE Fetch(t)
    <3>1. pc[t] = "fetch" /\ ~HeldBy(w, t) /\ fault = "none"
      BY <1>1, <2>4 DEF Fetch, At, HoldingPlaces, ActivePlaces
    <3>2. CASE TakeNothing(t)
      BY <1>2, <2>1, <2>4, <3>1, <3>2 DEF Fetch, TakeNothing
    <3>3. CASE Take(t)
      <4>1. PICK i \in DOMAIN m_fibers :
              /\ ft' = [ft EXCEPT ![t] = m_fibers[i]]
              /\ m_fibers' = RemoveAt(m_fibers, i)
              /\ pc' = [pc EXCEPT ![t] = "dispatch"]
        BY <3>3 DEF Take, Erase, Goto, TakeableAt
      <4>2. m_fibers[i].work # w /\ InList(m_fibers, w) => InList(m_fibers', w)
        BY <4>1, ListRemove DEF TypeOK
      <4>3. \A u \in Threads : ft'[u].work = IF u = t THEN m_fibers[i].work ELSE ft[u].work
        BY <1>0, <4>1
      <4>4. /\ pc'[t] = "dispatch"
            /\ UNCHANGED <<m_state, saved, ended, overwritten, unborn, armed, fault>>
        BY <1>0, <2>4, <4>1 DEF Fetch
      <4>5. pc'[t] \in Resuming /\ pc'[t] \notin OnStack \cup Parking \cup {"skip", "reset", "recycle"}
        BY <4>4 DEF OnStack, Resuming, Parking

      <4>6. UNCHANGED <<m_state, saved, ended, overwritten, unborn, armed, fault>>
        BY <4>4
      <4>7. \A u \in Threads \ {t} : (HeldBy(w, u)' <=> HeldBy(w, u)) /\ pc'[u] = pc[u]
        BY <2>1, <4>3 DEF HeldBy
      <4>8. HeldBy(w, t)' <=> m_fibers[i].work = w
        BY <4>3 DEF HeldBy
      <4> QED
        BY <3>1, <4>2, <4>5, <4>6, <4>7, <4>8
        DEF Tracked, Somewhere, Resumable, ParksSafely, Stacked
    <3> QED
      BY <2>4, <3>2, <3>3 DEF Fetch
  <2>0. ASSUME UNCHANGED ft
        PROVE  /\ \A u \in Threads : HeldBy(w, u)' <=> HeldBy(w, u)
               /\ HeldBy(w, t) <=> v = w
    BY <2>0 DEF HeldBy
  <2>2. ASSUME ft' = [ft EXCEPT ![t] = NoWork]
        PROVE  \A u \in Threads : HeldBy(w, u)' <=> u # t /\ HeldBy(w, u)
    BY <1>0, <2>2, EntryFacts DEF HeldBy
  <2>5. CASE Skip(t)
    <3>1. pc[t] = "skip" /\ (v = w => w \in ended) /\ ft' = [ft EXCEPT ![t] = NoWork]
      BY <2>5 DEF Skip, At, Tracked, HeldBy, Release
    <3>2. UNCHANGED <<m_fibers, m_state, saved, ended, overwritten, unborn, armed, fault>>
      BY <2>5 DEF Skip
    <3>3. \A u \in Threads : HeldBy(w, u)' <=> u # t /\ HeldBy(w, u)
      BY <2>2, <3>1
    <3>4. HeldBy(w, t) => w \in ended
      BY <3>1 DEF HeldBy
    <3> QED
      BY <2>1, <3>2, <3>3, <3>4 DEF Tracked, Somewhere, Resumable, ParksSafely, Stacked
  <2>6. CASE Test(t) \/ AskReady(t)
    <3>1. /\ UNCHANGED <<m_fibers, m_state, saved, ended, overwritten, unborn, armed, ft, fault>>
          /\ \/ pc[t] = "dispatch" /\ pc'[t] = "swapIn"
             \/ pc[t] = "dispatch" /\ pc'[t] = "skip" /\ Over(v)
             \/ pc[t] = "askReady" /\ pc'[t] = "requeue"
             \/ pc[t] = "askReady" /\ pc'[t] = "askOver" /\ m_state[v] # "READY"
      BY <1>0, <2>6 DEF Test, AskReady, At, Goto
    <3>2. \A u \in Threads : HeldBy(w, u)' <=> HeldBy(w, u)
      BY <2>0, <3>1
    <3>3. HeldBy(w, t) =>
            /\ pc'[t] = "skip" => w \in ended
            /\ pc'[t] = "askOver" => m_state[w] # "READY"
      BY <3>1 DEF HeldBy, Tracked, Over
    <3> QED
      BY <2>1, <3>1, <3>2, <3>3
      DEF Tracked, Somewhere, Resumable, ParksSafely, Stacked, OnStack, Resuming, Parking, Unread
  <2>7. CASE NotRunning(t) \/ CountDown(t) \/ ResetCheck(t)
    <3>1. /\ UNCHANGED <<m_fibers, m_state, saved, ended, overwritten, unborn, armed, ft>>
          /\ fault = "none"
          /\ \/ pc[t] = "swapIn" /\ pc'[t] = "mark"
             \/ pc[t] = "returned" /\ pc'[t] = "askReady"
             \/ pc[t] = "reset" /\ pc'[t] = "recycle"
      BY <1>0, <2>7 DEF NotRunning, CountDown, ResetCheck, At, Goto
    <3>2. \A u \in Threads : HeldBy(w, u)' <=> HeldBy(w, u)
      BY <2>0, <3>1
    <3> QED
      BY <2>1, <3>1, <3>2
      DEF Tracked, Somewhere, Resumable, ParksSafely, Stacked, OnStack, Resuming, Parking, Unread
  <2>8. CASE SwapIn(t)
    <3>1. /\ UNCHANGED <<m_fibers, m_state, ended, overwritten, unborn, armed, ft>>
          /\ saved' = saved \ {v} /\ fault = "none"
          /\ fault' = "none" => v \notin ended /\ v \in saved
          /\ pc[t] = "switch" /\ pc'[t] = "body"
      BY <1>0, <2>8 DEF SwapIn, SwitchFault, At, Goto
    <3>2. \A u \in Threads : HeldBy(w, u)' <=> HeldBy(w, u)
      BY <2>0, <3>1
    <3>3. ASSUME fault' = "none" PROVE Stacked(w)'
      <4>1. CASE HeldBy(w, t)
        <5>1. v = w /\ w \in saved /\ w \notin saved'
          BY <3>1, <3>3, <4>1 DEF HeldBy
        <5>2. \A u \in Threads : ~(HeldBy(w, u) /\ pc[u] \in OnStack)
          BY <3>1, <5>1 DEF Tracked, Stacked
        <5> QED
          BY <2>1, <3>2, <5>1, <5>2 DEF Stacked
      <4>2. CASE ~HeldBy(w, t)
        BY <2>1, <3>1, <3>2, <4>2 DEF Tracked, Stacked
      <4> QED
        BY <4>1, <4>2
    <3>4. ASSUME fault' = "none", w \notin unborn \cup ended PROVE ParksSafely(w)'
      <4>1. CASE HeldBy(w, t)
        <5>1. \A u \in Threads : ~(HeldBy(w, u) /\ pc[u] \in OnStack)
          BY <3>1, <3>4, <4>1 DEF Tracked, Stacked, HeldBy
        <5> QED
          BY <2>1, <3>1, <3>2, <5>1 DEF ParksSafely, Parking, OnStack
      <4>2. CASE ~HeldBy(w, t)
        BY <2>1, <3>1, <3>2, <3>4, <4>2 DEF Tracked, ParksSafely
      <4> QED
        BY <4>1, <4>2
    <3>5. Resumable(w) => Resumable(w)'
      BY <2>1, <3>1, <3>2 DEF Resumable, Resuming, Parking, Unread
    <3> QED
      BY <2>1, <3>1, <3>2, <3>3, <3>4, <3>5 DEF Tracked, Somewhere
  <2>15. CASE SwapOut(t)
    <3>1. /\ UNCHANGED <<m_fibers, m_state, ended, overwritten, unborn, armed, ft, fault>>
          /\ saved' = saved \cup {v} /\ fault = "none"
          /\ pc[t] = "swapOut" /\ pc'[t] = "returned"
      BY <1>0, <2>15 DEF SwapOut, At, Goto
    <3>2. \A u \in Threads : HeldBy(w, u)' <=> HeldBy(w, u)
      BY <2>0, <3>1
    <3>3. Stacked(w)'
      <4>1. CASE HeldBy(w, t)
        <5>1. \A u \in Threads : HeldBy(w, u) /\ pc[u] \in OnStack => u = t
          BY <3>1, <4>1 DEF Tracked, Stacked, OnStack
        <5> QED
          BY <2>1, <3>1, <3>2, <5>1 DEF Stacked, OnStack
      <4>2. CASE ~HeldBy(w, t)
        BY <2>1, <3>1, <3>2, <4>2 DEF Tracked, Stacked, HeldBy
      <4> QED
        BY <4>1, <4>2
    <3>4. ParksSafely(w) => ParksSafely(w)'
      BY <2>1, <3>1, <3>2 DEF ParksSafely, Resuming, Parking
    <3>5. Resumable(w) => Resumable(w)'
      BY <2>1, <3>1, <3>2 DEF Resumable, Resuming, Parking, Unread
    <3> QED
      BY <2>1, <3>1, <3>2, <3>3, <3>4, <3>5 DEF Tracked, Somewhere
  <2>16. CASE Mark(t) \/ SetReady(t) \/ SetHold(t)
    <3>1. /\ UNCHANGED <<m_fibers, saved, ended, overwritten, unborn, armed, ft, fault>>
          /\ v \in Works /\ fault = "none"
          /\ \/ /\ pc[t] = "mark" /\ pc'[t] = "switch"
                /\ m_state' = [m_state EXCEPT ![v] = "EXEC"]
             \/ /\ pc[t] = "toReady" /\ pc'[t] = "swapOut"
                /\ m_state' = [m_state EXCEPT ![v] = "READY"]
             \/ /\ pc[t] = "toHold" /\ pc'[t] = "swapOut"
                /\ m_state' = [m_state EXCEPT ![v] = "HOLD"]
      BY <1>0, <2>3, <2>16
      DEF Mark, SetReady, SetHold, SetState, At, Goto, HoldingPlaces, ActivePlaces
    <3>2. \A u \in Threads : HeldBy(w, u)' <=> HeldBy(w, u)
      BY <2>0, <3>1
    <3>3. /\ ~HeldBy(w, t) => m_state'[w] = m_state[w]
          /\ m_state'[w] \in {"TERM", "EXCEPT"} => m_state'[w] = m_state[w]
          /\ HeldBy(w, t) /\ pc[t] = "toReady" => m_state'[w] = "READY"
      BY <1>0, <3>1 DEF HeldBy
    <3>4. Stacked(w) => Stacked(w)'
      BY <2>1, <3>1, <3>2 DEF Stacked, OnStack
    <3>5. ParksSafely(w) => ParksSafely(w)'
      BY <2>1, <3>1, <3>2 DEF ParksSafely, Resuming, Parking
    <3>6. ParksSafely(w) /\ Resumable(w) => Resumable(w)'
      BY <2>1, <3>1, <3>2, <3>3 DEF ParksSafely, Resumable, Resuming, Parking, Unread
    <3> QED
      BY <2>1, <3>1, <3>2, <3>3, <3>4, <3>5, <3>6 DEF Tracked, Somewhere
  <2>17. CASE Requeue(t)
    <3>1. /\ UNCHANGED <<m_state, saved, ended, overwritten, unborn, armed, fault>>
          /\ v \in Works /\ Reschedule(v) /\ ft' = [ft EXCEPT ![t] = NoWork]
      BY <2>3, <2>17 DEF Requeue, At, Release, HoldingPlaces
    <3>2. \A u \in Threads : HeldBy(w, u)' <=> u # t /\ HeldBy(w, u)
      BY <2>2, <3>1
    <3>3. InList(m_fibers', w) <=> InList(m_fibers, w) \/ HeldBy(w, t)
      BY <3>1, EnqueueSeen DEF Reschedule, HeldBy
    <3> QED
      BY <2>1, <3>1, <3>2, <3>3 DEF Tracked, Somewhere, Resumable, ParksSafely, Stacked
  <2>18. CASE AskOver(t)
    <3>1. /\ UNCHANGED <<m_fibers, m_state, saved, ended, overwritten, unborn, armed, fault>>
          /\ pc[t] = "askOver"
          /\ \/ Over(v) /\ pc'[t] = "reset" /\ UNCHANGED ft
             \/ Over(v) /\ pc'[t] = "fetch" /\ ft' = [ft EXCEPT ![t] = NoWork]
             \/ pc'[t] = "hold" /\ UNCHANGED ft
      BY <1>0, <2>18 DEF AskOver, At, Goto, Release
    <3>2. /\ \A u \in Threads \ {t} : HeldBy(w, u)' <=> HeldBy(w, u)
          /\ HeldBy(w, t)' => HeldBy(w, t) /\ pc'[t] # "fetch"
      BY <2>0, <2>2, <3>1
    <3>3. HeldBy(w, t) =>
            /\ pc'[t] \in {"reset", "fetch"} => w \in ended
            /\ pc'[t] = "hold" => HeldBy(w, t)'
      BY <2>0, <3>1 DEF HeldBy, Tracked, Over
    <3> QED
      BY <2>1, <3>1, <3>2, <3>3
      DEF Tracked, Somewhere, Resumable, ParksSafely, Stacked, OnStack, Resuming, Parking, Unread
  <2>19. CASE Recycle(t)
    <3>1. /\ UNCHANGED <<m_fibers, saved, ended, overwritten, unborn, armed, fault>>
          /\ pc[t] = "recycle" /\ ft' = [ft EXCEPT ![t] = NoWork]
          /\ m_state' = [m_state EXCEPT ![v] = "INIT"]
      BY <2>19 DEF Recycle, At, Release
    <3>2. \A u \in Threads : HeldBy(w, u)' <=> u # t /\ HeldBy(w, u)
      BY <2>2, <3>1
    <3>3. HeldBy(w, t) => w \in ended
      BY <3>1 DEF Tracked
    <3>4. /\ ~HeldBy(w, t) => m_state'[w] = m_state[w]
          /\ m_state'[w] \in {"TERM", "EXCEPT"} => m_state'[w] = m_state[w]
      BY <1>0, <3>1 DEF HeldBy
    <3> QED
      BY <2>1, <3>1, <3>2, <3>3, <3>4 DEF Tracked, Somewhere, Resumable, ParksSafely, Stacked
  <2>20. CASE Hold(t)
    <3>1. /\ UNCHANGED <<m_fibers, saved, ended, unborn, armed>>
          /\ pc[t] = "hold" /\ ft' = [ft EXCEPT ![t] = NoWork] /\ fault = "none"
          /\ m_state' = [m_state EXCEPT ![v] = "HOLD"]
          /\ overwritten \subseteq overwritten' /\ (m_state[v] = "READY" => v \in overwritten')
      BY <2>20 DEF Hold, At, Release
    <3>2. \A u \in Threads : HeldBy(w, u)' <=> u # t /\ HeldBy(w, u)
      BY <2>2, <3>1
    <3>3. /\ HeldBy(w, t) /\ m_state[w] = "READY" => w \in overwritten'
          /\ ~HeldBy(w, t) => m_state'[w] = m_state[w]
          /\ m_state'[w] \in {"TERM", "EXCEPT"} => m_state'[w] = m_state[w]
      BY <1>0, <3>1 DEF HeldBy
    <3>4. Stacked(w) => Stacked(w)'
      BY <2>1, <3>1, <3>2 DEF Stacked
    <3>5. ParksSafely(w) => ParksSafely(w)'
      BY <2>1, <3>1, <3>2 DEF ParksSafely, Resuming
    <3>6. Resumable(w) => w \in overwritten' \/ Resumable(w)'
      BY <2>1, <3>1, <3>2, <3>3 DEF Resumable, Resuming, Parking, Unread
    <3>7. Resumable(w) \/ w \in overwritten' => Somewhere(w)'
      BY <3>1, <3>6 DEF Somewhere, Resumable
    <3> QED
      BY <2>1, <3>1, <3>2, <3>3, <3>4, <3>5, <3>6, <3>7 DEF Tracked
  <2>9. CASE IdleEnter(t) \/ IdleRound(t) \/ IdleLeave(t) \/ Exit(t)
    <3>1. /\ pc[t] \notin HoldingPlaces
          /\ UNCHANGED <<m_fibers, m_state, saved, ended, overwritten, unborn, armed, ft, fault>>
      BY <2>9 DEF IdleEnter, IdleRound, IdleLeave, Exit, At, HoldingPlaces, ActivePlaces
    <3> QED
      BY <1>1, <1>2, <2>1, <3>1
  <2>10. CASE Arm(t)
    <3>1. /\ pc[t] = "body" /\ pc'[t] = "arming" /\ armed' = armed \cup {v}
          /\ UNCHANGED <<m_fibers, m_state, saved, ended, overwritten, unborn, ft, fault>>
      BY <1>0, <2>10 DEF Arm, At, Goto
    <3>2. \A u \in Threads : HeldBy(w, u)' <=> HeldBy(w, u)
      BY <2>0, <3>1
    <3>3. HeldBy(w, t) => w \in armed'
      BY <3>1 DEF HeldBy
    <3> QED
      BY <2>1, <3>1, <3>2, <3>3
      DEF Tracked, Somewhere, Resumable, ParksSafely, Stacked, OnStack, Resuming, Parking, Unread
  <2>11. CASE YieldToReady(t) \/ YieldToHold(t)
    <3>1. /\ \/ pc[t] = "body" /\ pc'[t] = "toReady"
             \/ pc[t] = "arming" /\ pc'[t] = "toHold"
          /\ UNCHANGED <<m_fibers, m_state, saved, ended, overwritten, unborn, armed, ft>>
          /\ fault = "none"
      BY <1>0, <2>11 DEF YieldToReady, YieldToHold, Yield, At, Goto
    <3>2. \A u \in Threads : HeldBy(w, u)' <=> HeldBy(w, u)
      BY <2>0, <3>1
    <3> QED
      BY <2>1, <3>1, <3>2
      DEF Tracked, Somewhere, Resumable, ParksSafely, Stacked, OnStack, Resuming, Parking, Unread
  <2>13. ASSUME NEW x \in Works, Spawn(t, x) PROVE Tracked(w)'
    BY <1>6, <2>13 DEF Spawn
  <2>14. ASSUME NEW o \in {"return", "std", "other"}, Finish(t, o) PROVE Tracked(w)'
    <3>1. /\ pc[t] \in {"body", "arming"} /\ pc'[t] = "swapOut" /\ v \in Works
          /\ m_state' = [m_state EXCEPT ![v] = FinalState(o, v)]
          /\ ended' = ended \cup {v}
          /\ UNCHANGED <<m_fibers, saved, overwritten, unborn, armed, ft, fault>>
      BY <1>0, <2>3, <2>14 DEF Finish, At, Goto, HoldingPlaces, ActivePlaces
    <3>2. \A u \in Threads : HeldBy(w, u)' <=> HeldBy(w, u)
      BY <2>0, <3>1
    <3>3. /\ HeldBy(w, t) => w \in ended'
          /\ ~HeldBy(w, t) => m_state'[w] = m_state[w]
          /\ ended \subseteq ended'
      BY <1>0, <3>1 DEF HeldBy
    <3> QED
      BY <2>1, <3>1, <3>2, <3>3
      DEF Tracked, Somewhere, Resumable, ParksSafely, Stacked, OnStack, Resuming, Parking, Unread
  <2> QED
    BY <1>9, <2>4, <2>5, <2>6, <2>7, <2>8, <2>9, <2>10, <2>11, <2>13, <2>14,
       <2>15, <2>16, <2>17, <2>18, <2>19, <2>20
    DEF RunStep, BodyStep
<1>10. CASE UNCHANGED vars
  BY <1>2, <1>10 DEF vars
<1> QED
  BY <1>3, <1>4, <1>5, <1>7, <1>8, <1>9, <1>10 DEF Next, StopStep

-----------------------------------------------------------------------------
(* One worker. *)

\* What the proof of OneWorkerNoFault assumes of the tasks.
Tidy ==
  /\ \A w \in Works : "std" \notin Outcomes[w]
  /\ Callbacks \cap Careless = {}

\* The places of a thread whose task is in the state EXEC.
Executing == {"switch", "body", "arming", "toReady", "toHold"}

\* Where one task is when there is one worker.
AtOneWorker(w) ==
  /\ OnceIn(m_fibers, w) /\ (InList(m_fibers, w) => w \notin armed)
  /\ w \in unborn => w \notin armed /\ ~InList(m_fibers, w) /\ w \notin ended
                     /\ \A t \in Threads : ~HeldBy(w, t)
  /\ w \in ended \ Careless => w \notin armed /\ ~InList(m_fibers, w)
  /\ w \in ended /\ m_state[w] \notin {"TERM", "EXCEPT"} =>
       w \in Callbacks /\ \A t \in Threads : ~HeldBy(w, t)
  /\ w \in saved \/ \E t \in Threads : HeldBy(w, t) /\ pc[t] \in OnStack
  /\ m_state[w] = "EXEC" => \E t \in Threads : HeldBy(w, t) /\ pc[t] \in Executing
  /\ \A t \in Threads : HeldBy(w, t) =>
       /\ ft[t].cb => w \in Callbacks
       /\ pc[t] \in Resuming \cup {"body", "toReady"} \/ m_state[w] = "READY" =>
            w \notin armed /\ ~InList(m_fibers, w)
       /\ pc[t] = "dispatch" /\ w \in ended => w \in Careless
       /\ pc[t] \in {"swapIn", "mark", "requeue", "hold"} => w \notin ended
       /\ pc[t] \in Executing => w \notin ended /\ m_state[w] = "EXEC"
       /\ pc[t] \in {"reset", "recycle"} => ft[t].cb /\ m_state[w] \in {"TERM", "EXCEPT"}

CallbackEntries == \A i \in DOMAIN m_fibers : m_fibers[i].cb => m_fibers[i].work \in Callbacks

LEMMA InitOneWorker == Init => CallbackEntries /\ \A w \in Works : AtOneWorker(w)
<1> SUFFICES ASSUME Init PROVE CallbackEntries /\ \A w \in Works : AtOneWorker(w)
  OBVIOUS
<1>1. \A w \in Works, t \in Threads : ~HeldBy(w, t)
  BY EntryFacts DEF Init, HeldBy
<1>2. m_fibers = <<>> /\ armed = {} /\ ended = {} /\ saved = Works
      /\ \A w \in Works : m_state[w] = "INIT"
  BY DEF Init
<1>3. CallbackEntries
  BY <1>2 DEF CallbackEntries
<1>4. \A w : OnceIn(m_fibers, w) /\ ~InList(m_fibers, w)
  BY <1>2 DEF OnceIn, InList
<1> QED
  BY <1>1, <1>2, <1>3, <1>4 DEF AtOneWorker

\* Entries with a callback are of tasks scheduled as one.
LEMMA NextCallbackEntries == TypeOK /\ CallbackEntries /\ [Next]_vars => CallbackEntries'
<1> SUFFICES ASSUME TypeOK, CallbackEntries, [Next]_vars PROVE CallbackEntries'
  OBVIOUS
<1> USE DEF queueVars
<1>1. ASSUME UNCHANGED m_fibers PROVE CallbackEntries'
  BY <1>1 DEF CallbackEntries
<1>2. ASSUME NEW v \in Works, NEW h \in Threads \cup {AnyThread}, NEW c \in BOOLEAN,
             Enqueue(v, h, c), c => v \in Callbacks
      PROVE  CallbackEntries'
  <2> DEFINE e == [work |-> v, thread |-> h, cb |-> c]
  <2>1. e \in Entries /\ e.work = v /\ (e.cb => v \in Callbacks) /\ m_fibers' = Append(m_fibers, e)
    BY <1>2, EntryFacts, Zenon DEF Enqueue
  <2> HIDE DEF e
  <2>2. /\ DOMAIN m_fibers' = DOMAIN m_fibers \cup {Len(m_fibers) + 1}
        /\ m_fibers'[Len(m_fibers) + 1] = e
        /\ \A i \in DOMAIN m_fibers : m_fibers'[i] = m_fibers[i]
    BY <2>1, Appended DEF TypeOK
  <2> QED
    BY <2>1, <2>2 DEF CallbackEntries
<1>3. ASSUME NEW v \in Works, Enqueue(v, Pin[v], v \in Callbacks) PROVE CallbackEntries'
  <2>1. Pin[v] \in Threads \cup {AnyThread} /\ (v \in Callbacks) \in BOOLEAN
    BY WorksAssumption
  <2> QED
    BY <1>2, <1>3, <2>1, Zenon
<1>4. ASSUME NEW v \in Works, Reschedule(v) PROVE CallbackEntries'
  BY <1>2, <1>4, Zenon DEF Reschedule
<1>5. CASE Start \/ StopStep
  BY <1>1, <1>5 DEF Start, StopStep, Stop, StopCallRoot, RootReturned, Join
<1>6. ASSUME NEW v \in Works, MainSchedule(v) \/ Wake(v) PROVE CallbackEntries'
  BY <1>3, <1>4, <1>6 DEF MainSchedule, Wake
<1>7. ASSUME NEW t \in Threads, RunStep(t) \/ BodyStep(t) PROVE CallbackEntries'
  <2>1. CASE Fetch(t)
    <3>1. CASE TakeNothing(t)
      BY <1>1, <3>1 DEF TakeNothing
    <3>2. CASE Take(t)
      <4>1. PICK i \in DOMAIN m_fibers : m_fibers' = RemoveAt(m_fibers, i)
        BY <3>2 DEF Take, Erase, TakeableAt
      <4>2. /\ DOMAIN m_fibers' = 1 .. Len(m_fibers) - 1
            /\ \A j \in 1 .. Len(m_fibers) - 1 :
                 m_fibers'[j] = m_fibers[IF j < i THEN j ELSE j + 1]
        BY <4>1, Removed DEF TypeOK
      <4>3. Len(m_fibers) \in Nat /\ DOMAIN m_fibers = 1 .. Len(m_fibers)
        BY DEF TypeOK
      <4>4. \A j \in DOMAIN m_fibers' : \E k \in DOMAIN m_fibers : m_fibers'[j] = m_fibers[k]
        BY <4>2, <4>3
      <4> QED
        BY <4>4 DEF CallbackEntries
    <3> QED
      BY <2>1, <3>1, <3>2 DEF Fetch
  <2>2. CASE Requeue(t)
    <3>1. ft[t].work \in Works /\ Reschedule(ft[t].work)
      BY <2>2, HoldingFacts DEF Requeue, At, HoldingPlaces
    <3> QED
      BY <1>4, <3>1
  <2>3. ASSUME NEW v \in Works, Spawn(t, v) PROVE CallbackEntries'
    BY <1>3, <2>3 DEF Spawn
  <2>4. CASE \/ Test(t) \/ Skip(t) \/ NotRunning(t) \/ Mark(t) \/ SwapIn(t) \/ SwapOut(t)
             \/ CountDown(t) \/ AskReady(t) \/ AskOver(t) \/ ResetCheck(t) \/ Recycle(t)
             \/ Hold(t) \/ IdleEnter(t) \/ IdleRound(t) \/ IdleLeave(t) \/ Exit(t)
    BY <1>1, <2>4 DEF Test, Skip, NotRunning, Mark, SwapIn, SwapOut, CountDown, AskReady,
       AskOver, ResetCheck, Recycle, Hold, IdleEnter, IdleRound, IdleLeave, Exit
  <2>5. CASE \/ Arm(t) \/ YieldToReady(t) \/ YieldToHold(t) \/ SetReady(t) \/ SetHold(t)
             \/ \E o : Finish(t, o)
    BY <1>1, <2>5 DEF Arm, YieldToReady, YieldToHold, Yield, SetReady, SetHold, SetState,
       Finish
  <2> QED
    BY <1>7, <2>1, <2>2, <2>3, <2>4, <2>5 DEF RunStep, BodyStep
<1>8. CASE UNCHANGED vars
  BY <1>1, <1>8 DEF vars
<1> QED
  BY <1>5, <1>6, <1>7, <1>8 DEF Next

\* With one worker no step fails an assertion.
LEMMA NextNoFault ==
  ASSUME Tidy, TypeOK, NEW p, pool = {p}, Phases, fault = "none",
         \A w \in Works : AtOneWorker(w), [Next]_vars
  PROVE  fault' = "none"
<1> USE DEF queueVars, countVars, setupVars, stopVars, fiberVars
<1>1. CASE Start \/ StopStep
  BY <1>1 DEF Start, StopStep, Stop, StopCallRoot, RootReturned, Join
<1>2. ASSUME NEW v \in Works, MainSchedule(v) \/ Wake(v) PROVE fault' = "none"
  BY <1>2 DEF MainSchedule, Wake
<1>3. ASSUME NEW t \in Threads, RunStep(t) \/ BodyStep(t) PROVE fault' = "none"
  <2> DEFINE v == ft[t].work
  <2>1. ASSUME pc[t] \in HoldingPlaces
        PROVE  /\ v \in Works /\ HeldBy(v, t) /\ AtOneWorker(v)
               /\ \A u \in Threads \ {t} : ~HeldBy(v, u)
    <3>1. v \in Works /\ HeldBy(v, t) /\ AtOneWorker(v)
      BY <2>1, HoldingFacts DEF HeldBy
    <3>2. \A u \in Threads : HeldBy(v, u) => pc[u] \in HoldingPlaces
      BY <3>1, EntryFacts DEF TypeOK, HeldBy
    <3>3. \A u \in Threads : pc[u] \in HoldingPlaces => u = p
      BY DEF Phases, HoldingPlaces, ActivePlaces
    <3> QED
      BY <2>1, <3>1, <3>2, <3>3
  <2>2. CASE NotRunning(t) \/ SwapIn(t)
    <3>1. pc[t] \in {"swapIn", "switch"}
      BY <2>2 DEF NotRunning, SwapIn, At
    <3>2. v \in Works /\ HeldBy(v, t) /\ AtOneWorker(v) /\ \A u \in Threads \ {t} : ~HeldBy(v, u)
      BY <2>1, <3>1 DEF HoldingPlaces, ActivePlaces
    <3>3. /\ pc[t] = "swapIn" => m_state[v] # "EXEC"
          /\ pc[t] = "switch" => v \notin ended /\ v \in saved
      BY <3>1, <3>2 DEF AtOneWorker, Executing, OnStack
    <3> QED
      BY <2>2, <3>3 DEF NotRunning, SwapIn, SwitchFault, At
  <2>3. CASE YieldToReady(t) \/ YieldToHold(t)
    <3>1. pc[t] \in {"body", "arming"} /\ (m_state[v] = "EXEC" => fault' = "none")
      BY <2>3 DEF YieldToReady, YieldToHold, Yield, At
    <3>2. HeldBy(v, t) /\ AtOneWorker(v)
      BY <2>1, <3>1 DEF HoldingPlaces, ActivePlaces
    <3> QED
      BY <3>1, <3>2 DEF AtOneWorker, Executing
  <2>4. CASE ResetCheck(t) \/ Hold(t)
    <3>1. pc[t] \in {"reset", "hold"}
      BY <2>4 DEF ResetCheck, Hold, At
    <3>2. HeldBy(v, t) /\ AtOneWorker(v)
      BY <2>1, <3>1 DEF HoldingPlaces
    <3>3. /\ pc[t] = "hold" => v \notin ended
          /\ pc[t] = "reset" => m_state[v] \in {"TERM", "EXCEPT"}
      BY <3>2 DEF AtOneWorker
    <3> QED
      BY <2>4, <3>3 DEF ResetCheck, Hold, At
  <2>5. CASE \/ Fetch(t) \/ Test(t) \/ Skip(t) \/ Mark(t) \/ SwapOut(t) \/ CountDown(t)
             \/ AskReady(t) \/ Requeue(t) \/ AskOver(t) \/ Recycle(t) \/ IdleEnter(t)
             \/ IdleRound(t) \/ IdleLeave(t) \/ Exit(t)
    BY <2>5 DEF Fetch, Test, Skip, Mark, SwapOut, CountDown, AskReady, Requeue, AskOver,
       Recycle, IdleEnter, IdleRound, IdleLeave, Exit
  <2>6. CASE \/ Arm(t) \/ SetReady(t) \/ SetHold(t) \/ (\E x \in Works : Spawn(t, x))
             \/ \E o : Finish(t, o)
    BY <2>6 DEF Arm, SetReady, SetHold, SetState, Spawn, Finish
  <2> QED
    BY <1>3, <2>2, <2>3, <2>4, <2>5, <2>6 DEF RunStep, BodyStep
<1>4. CASE UNCHANGED vars
  BY <1>4 DEF vars
<1> QED
  BY <1>1, <1>2, <1>3, <1>4 DEF Next

\* Every step keeps a task where it can be with one worker.
LEMMA NextAtOneWorker ==
  ASSUME Tidy, TypeOK, NEW p, pool = {p}, Phases, fault = "none", CallbackEntries,
         NEW w \in Works, Tracked(w), AtOneWorker(w), [Next]_vars
  PROVE  AtOneWorker(w)'
<1> USE DEF queueVars, countVars, setupVars, stopVars, fiberVars
<1>0. /\ pc \in [Threads -> Places] /\ m_state \in [Works -> FiberStates]
      /\ DOMAIN ft = Threads
  BY DEF TypeOK
<1>1. \A t \in Threads : HeldBy(w, t) => pc[t] \in HoldingPlaces /\ t = p
  <2>1. \A t \in Threads : HeldBy(w, t) => pc[t] \in HoldingPlaces
    BY <1>0, EntryFacts DEF TypeOK, HeldBy
  <2> QED
    BY <2>1 DEF Phases, HoldingPlaces, ActivePlaces
<1>2. ASSUME UNCHANGED <<m_fibers, armed, unborn, m_state, saved, ended, ft>>,
             \A t \in Threads : HeldBy(w, t) => pc'[t] = pc[t]
      PROVE  AtOneWorker(w)'
  <2>1. \A t \in Threads : HeldBy(w, t)' <=> HeldBy(w, t)
    BY <1>2 DEF HeldBy
  <2> QED
    BY <1>2, <2>1 DEF AtOneWorker
<1>3. CASE Start
  <2>1. \A t \in Threads : ~HeldBy(w, t)
    BY <1>1, <1>3 DEF Start, MainAt, Phases, HoldingPlaces, ActivePlaces
  <2> QED
    BY <1>2, <1>3, <2>1 DEF Start
<1>4. CASE StopCallRoot
  <2>1. \A t \in Threads : HeldBy(w, t) => pc'[t] = pc[t]
    <3>1. CASE m_rootThread # NoThread /\ ~Stopping
      BY <1>0, <1>1, <1>4, <3>1
      DEF StopCallRoot, MainAt, Goto, Phases, HoldingPlaces, ActivePlaces
    <3>2. CASE ~(m_rootThread # NoThread /\ ~Stopping)
      BY <1>4, <3>2 DEF StopCallRoot
    <3> QED
      BY <3>1, <3>2
  <2> QED
    BY <1>2, <1>4, <2>1 DEF StopCallRoot
<1>5. CASE Stop \/ RootReturned \/ Join
  BY <1>2, <1>5 DEF Stop, RootReturned, Join
<1>6. ASSUME NEW v \in Works, v \in unborn, unborn' = unborn \ {v},
             Enqueue(v, Pin[v], v \in Callbacks),
             UNCHANGED <<m_state, saved, ended, ft, armed, pc>>
      PROVE  AtOneWorker(w)'
  <2> DEFINE h == Pin[v]
             c == v \in Callbacks
  <2>1. h \in Threads \cup {AnyThread} /\ c \in BOOLEAN
    BY WorksAssumption
  <2>2. Enqueue(v, h, c)
    BY <1>6
  <2> HIDE DEF h, c
  <2>3. /\ InList(m_fibers', w) <=> InList(m_fibers, w) \/ v = w
        /\ OnceIn(m_fibers, w) /\ (v = w => ~InList(m_fibers, w)) => OnceIn(m_fibers', w)
    BY <2>1, <2>2, EnqueueSeen
  <2>4. \A t \in Threads : HeldBy(w, t)' <=> HeldBy(w, t)
    BY <1>6 DEF HeldBy
  <2> QED
    BY <1>6, <2>3, <2>4 DEF AtOneWorker
<1>7. ASSUME NEW v \in Works, MainSchedule(v) PROVE AtOneWorker(w)'
  BY <1>6, <1>7 DEF MainSchedule
<1>8. ASSUME NEW v \in Works, Wake(v) PROVE AtOneWorker(w)'
  <2>1. /\ InList(m_fibers', w) <=> InList(m_fibers, w) \/ v = w
        /\ OnceIn(m_fibers, w) /\ (v = w => ~InList(m_fibers, w)) => OnceIn(m_fibers', w)
    BY <1>8, EnqueueSeen DEF Wake, Reschedule
  <2>2. /\ v \in armed /\ armed' = armed \ {v}
        /\ UNCHANGED <<m_state, saved, ended, ft, pc, unborn>>
    BY <1>8 DEF Wake
  <2>3. \A t \in Threads : HeldBy(w, t)' <=> HeldBy(w, t)
    BY <2>2 DEF HeldBy
  <2> QED
    BY <2>1, <2>2, <2>3 DEF AtOneWorker
<1>9. ASSUME NEW t \in Threads, RunStep(t) \/ BodyStep(t) PROVE AtOneWorker(w)'
  <2> DEFINE v == ft[t].work
  <2>1. pc[t] # "created" /\ t = p /\ \A u \in Threads : HeldBy(w, u) => u = t
    BY <1>1, <1>9, ThreadMoves DEF Phases
  <2>3. pc[t] \in HoldingPlaces => v \in Works
    BY HoldingFacts
  <2>0. v = w <=> HeldBy(w, t)
    BY DEF HeldBy
  <2>2. ASSUME UNCHANGED ft PROVE \A u \in Threads : HeldBy(w, u)' <=> HeldBy(w, u)
    BY <2>2 DEF HeldBy
  <2>4. CASE Fetch(t)
    <3>1. pc[t] = "fetch" /\ \A u \in Threads : ~HeldBy(w, u)
      BY <1>1, <2>1, <2>4 DEF Fetch, At, HoldingPlaces, ActivePlaces
    <3>2. CASE TakeNothing(t)
      BY <1>2, <2>4, <3>1, <3>2 DEF Fetch, TakeNothing
    <3>3. CASE Take(t)
      <4>1. PICK i \in DOMAIN m_fibers :
              /\ ft' = [ft EXCEPT ![t] = m_fibers[i]]
              /\ m_fibers' = RemoveAt(m_fibers, i)
              /\ pc' = [pc EXCEPT ![t] = "dispatch"]
        BY <3>3 DEF Take, Erase, Goto, TakeableAt
      <4>2. /\ InList(m_fibers', w) => InList(m_fibers, w)
            /\ m_fibers[i].work # w /\ InList(m_fibers, w) => InList(m_fibers', w)
            /\ OnceIn(m_fibers, w) => OnceIn(m_fibers', w)
            /\ m_fibers[i].work = w /\ OnceIn(m_fibers, w) => ~InList(m_fibers', w)
        BY <4>1, ListRemove DEF TypeOK
      <4>3. /\ \A u \in Threads : HeldBy(w, u)' <=> u = t /\ m_fibers[i].work = w
            /\ ft'[t] = m_fibers[i]
        BY <1>0, <3>1, <4>1 DEF HeldBy
      <4>4. /\ m_fibers[i].work = w => InList(m_fibers, w)
            /\ m_fibers[i].cb => m_fibers[i].work \in Callbacks
        BY DEF InList, CallbackEntries
      <4>5. pc'[t] = "dispatch" /\ UNCHANGED <<m_state, saved, ended, unborn, armed>>
        BY <1>0, <2>4, <4>1 DEF Fetch
      <4>6. m_state[w] # "EXEC" /\ w \in saved
        BY <3>1 DEF AtOneWorker, Executing
      <4>7. m_fibers[i].work = w => w \notin ended \/ w \in Careless
        BY <4>4 DEF AtOneWorker
      <4>8. w \in ended /\ m_state[w] \notin {"TERM", "EXCEPT"} => m_fibers[i].work # w
        BY <4>7 DEF AtOneWorker, Tidy
      <4> QED
        BY <3>1, <4>2, <4>3, <4>4, <4>5, <4>6, <4>7, <4>8
        DEF AtOneWorker, OnStack, Executing, Resuming
    <3> QED
      BY <2>4, <3>2, <3>3 DEF Fetch
  <2>5. CASE Skip(t)
    <3>1. pc[t] = "skip"
      BY <2>5 DEF Skip, At
    <3>2. \A u \in Threads : ~HeldBy(w, u)'
      BY <1>0, <2>1, <2>5, EntryFacts DEF Skip, Release, HeldBy
    <3>3. UNCHANGED <<m_fibers, m_state, saved, ended, unborn, armed>>
      BY <2>5 DEF Skip
    <3>4. m_state[w] # "EXEC" /\ w \in saved
      BY <2>1, <3>1 DEF AtOneWorker, OnStack, Executing
    <3>5. w \in ended /\ m_state[w] \notin {"TERM", "EXCEPT"} => w \in Callbacks
      BY DEF AtOneWorker
    <3> QED
      BY <3>2, <3>3, <3>4, <3>5 DEF AtOneWorker
  <2>6. CASE Test(t) \/ AskReady(t)
    <3>1. /\ UNCHANGED <<m_fibers, m_state, saved, ended, unborn, armed, ft>>
          /\ \/ pc[t] = "dispatch" /\ pc'[t] = "skip"
             \/ pc[t] = "dispatch" /\ pc'[t] = "swapIn" /\ (ft[t].cb \/ ~Over(v))
             \/ pc[t] = "askReady" /\ pc'[t] = "requeue" /\ m_state[v] = "READY"
             \/ pc[t] = "askReady" /\ pc'[t] = "askOver"
      BY <1>0, <2>6 DEF Test, AskReady, At, Goto
    <3>2. v = w /\ pc'[t] \in {"swapIn", "requeue"} => w \notin ended
      BY <2>0, <3>1 DEF AtOneWorker, Tidy, Over
    <3>3. m_state[w] # "EXEC" /\ w \in saved
      BY <2>1, <3>1 DEF AtOneWorker, OnStack, Executing
    <3> QED
      BY <2>0, <2>1, <2>2, <3>1, <3>2, <3>3 DEF AtOneWorker, OnStack, Executing, Resuming
  <2>7. CASE NotRunning(t) \/ CountDown(t) \/ ResetCheck(t)
    <3>1. /\ UNCHANGED <<m_fibers, m_state, saved, ended, unborn, armed, ft>>
          /\ \/ pc[t] = "swapIn" /\ pc'[t] = "mark"
             \/ pc[t] = "returned" /\ pc'[t] = "askReady"
             \/ pc[t] = "reset" /\ pc'[t] = "recycle"
      BY <1>0, <2>7 DEF NotRunning, CountDown, ResetCheck, At, Goto
    <3>2. m_state[w] # "EXEC" /\ w \in saved
      BY <2>1, <3>1 DEF AtOneWorker, OnStack, Executing
    <3> QED
      BY <2>0, <2>1, <2>2, <3>1, <3>2 DEF AtOneWorker, OnStack, Executing, Resuming
  <2>8. CASE SwapIn(t) \/ SwapOut(t)
    <3>1. /\ UNCHANGED <<m_fibers, m_state, ended, unborn, armed, ft>>
          /\ \/ pc[t] = "switch" /\ pc'[t] = "body" /\ saved' = saved \ {v}
             \/ pc[t] = "swapOut" /\ pc'[t] = "returned" /\ saved' = saved \cup {v}
      BY <1>0, <2>8 DEF SwapIn, SwapOut, At, Goto
    <3>2. w \in saved' \/ (HeldBy(w, t) /\ pc'[t] \in OnStack)
      <4>1. w \in saved \/ (HeldBy(w, t) /\ pc[t] \in OnStack)
        BY <2>1 DEF AtOneWorker
      <4> QED
        BY <2>0, <3>1, <4>1 DEF OnStack
    <3>3. pc[t] = "swapOut" => m_state[w] # "EXEC"
      BY <2>1 DEF AtOneWorker, Executing
    <3> QED
      BY <2>0, <2>1, <2>2, <3>1, <3>2, <3>3 DEF AtOneWorker, OnStack, Executing, Resuming
  <2>15. CASE Mark(t) \/ SetReady(t) \/ SetHold(t)
    <3>1. /\ UNCHANGED <<m_fibers, saved, ended, unborn, armed, ft>> /\ v \in Works
          /\ \/ /\ pc[t] = "mark" /\ pc'[t] = "switch"
                /\ m_state' = [m_state EXCEPT ![v] = "EXEC"]
             \/ /\ pc[t] = "toReady" /\ pc'[t] = "swapOut"
                /\ m_state' = [m_state EXCEPT ![v] = "READY"]
             \/ /\ pc[t] = "toHold" /\ pc'[t] = "swapOut"
                /\ m_state' = [m_state EXCEPT ![v] = "HOLD"]
      BY <1>0, <2>3, <2>15
      DEF Mark, SetReady, SetHold, SetState, At, Goto, HoldingPlaces, ActivePlaces
    <3>2. /\ v # w => m_state'[w] = m_state[w]
          /\ v = w => m_state'[w] = IF pc[t] = "mark" THEN "EXEC"
                                    ELSE IF pc[t] = "toReady" THEN "READY" ELSE "HOLD"
      BY <1>0, <3>1
    <3>3. v = w => w \notin ended
      BY <2>0, <3>1 DEF AtOneWorker, Executing
    <3>4. v # w => \A u \in Threads : ~HeldBy(w, u)
      BY <2>0, <2>1
    <3>5. v = w => \A u \in Threads : HeldBy(w, u)' <=> u = t
      BY <2>0, <2>1, <2>2, <3>1
    <3>6. CASE v = w
      <4>1. CASE pc[t] = "mark"
        <5>1. pc'[t] = "switch" /\ m_state'[w] = "EXEC" /\ HeldBy(w, t)
          BY <2>0, <3>1, <3>2, <3>6, <4>1
        <5>2. w \notin armed /\ ~InList(m_fibers, w) /\ w \notin unborn
          BY <4>1, <5>1 DEF AtOneWorker, Resuming
        <5>3. w \in saved
          BY <2>1, <4>1 DEF AtOneWorker, OnStack
        <5> QED
          BY <3>1, <3>3, <3>5, <3>6, <4>1, <5>1, <5>2, <5>3
          DEF AtOneWorker, OnStack, Executing, Resuming
      <4>2. CASE pc[t] \in {"toReady", "toHold"}
        <5>1. pc'[t] = "swapOut" /\ m_state'[w] \in {"READY", "HOLD"} /\ HeldBy(w, t)
              /\ (m_state'[w] = "READY" => pc[t] = "toReady")
          BY <2>0, <3>1, <3>2, <3>6, <4>2
        <5>2. m_state'[w] = "READY" => w \notin armed /\ ~InList(m_fibers, w)
          BY <5>1 DEF AtOneWorker
        <5> QED
          BY <3>1, <3>3, <3>5, <3>6, <5>1, <5>2 DEF AtOneWorker, OnStack, Executing, Resuming
      <4> QED
        BY <3>1, <4>1, <4>2
    <3>7. CASE v # w
      BY <2>2, <3>1, <3>2, <3>4, <3>7 DEF AtOneWorker
    <3> QED
      BY <3>6, <3>7
  <2>16. CASE Requeue(t)
    <3>1. /\ pc[t] = "requeue" /\ v \in Works /\ Reschedule(v)
          /\ UNCHANGED <<m_state, saved, ended, unborn, armed>>
      BY <2>3, <2>16 DEF Requeue, At, HoldingPlaces
    <3>2. \A u \in Threads : ~HeldBy(w, u)'
      BY <1>0, <2>1, <2>16, EntryFacts DEF Requeue, Release, HeldBy
    <3>3. m_state[w] # "EXEC" /\ w \in saved
      BY <2>1, <3>1 DEF AtOneWorker, OnStack, Executing
    <3>4. /\ InList(m_fibers', w) <=> InList(m_fibers, w) \/ v = w
          /\ OnceIn(m_fibers, w) /\ (v = w => ~InList(m_fibers, w)) => OnceIn(m_fibers', w)
      BY <3>1, EnqueueSeen DEF Reschedule
    <3>5. v = w => w \notin armed /\ ~InList(m_fibers, w) /\ w \notin ended /\ w \notin unborn
      BY <2>0, <3>1 DEF AtOneWorker, Resuming
    <3>6. w \in ended /\ m_state[w] \notin {"TERM", "EXCEPT"} => w \in Callbacks
      BY DEF AtOneWorker
    <3> QED
      BY <3>1, <3>2, <3>3, <3>4, <3>5, <3>6 DEF AtOneWorker
  <2>17. CASE AskOver(t)
    <3>1. /\ pc[t] = "askOver"
          /\ UNCHANGED <<m_fibers, m_state, saved, ended, unborn, armed>>
          /\ \/ Over(v) /\ ft[t].cb /\ pc'[t] = "reset" /\ UNCHANGED ft
             \/ pc'[t] = "fetch" /\ ft' = [ft EXCEPT ![t] = NoWork]
             \/ ~Over(v) /\ pc'[t] = "hold" /\ UNCHANGED ft
      BY <1>0, <2>17 DEF AskOver, At, Goto, Release
    <3>2. m_state[w] # "EXEC" /\ w \in saved
      BY <2>1, <3>1 DEF AtOneWorker, OnStack, Executing
    <3>3. CASE ft' = [ft EXCEPT ![t] = NoWork]
      <4>1. \A u \in Threads : ~HeldBy(w, u)'
        BY <1>0, <2>1, <3>3, EntryFacts DEF HeldBy
      <4>2. w \in ended /\ m_state[w] \notin {"TERM", "EXCEPT"} => w \in Callbacks
        BY DEF AtOneWorker
      <4> QED
        BY <3>1, <3>2, <4>1, <4>2 DEF AtOneWorker
    <3>4. CASE UNCHANGED ft /\ pc'[t] \in {"reset", "hold"}
      <4>1. v = w /\ pc'[t] = "hold" => w \notin ended
        BY <2>0, <3>1, <3>4 DEF AtOneWorker, Over
      <4>2. v = w /\ pc'[t] = "reset" => ft[t].cb /\ m_state[w] \in {"TERM", "EXCEPT"}
        BY <3>1, <3>4 DEF Over
      <4> QED
        BY <2>0, <2>1, <2>2, <3>1, <3>2, <3>4, <4>1, <4>2
        DEF AtOneWorker, OnStack, Executing, Resuming
    <3> QED
      BY <3>1, <3>3, <3>4
  <2>18. CASE Recycle(t) \/ Hold(t)
    <3>1. /\ v \in Works /\ UNCHANGED <<m_fibers, saved, ended, unborn, armed>>
          /\ \/ pc[t] = "recycle" /\ m_state' = [m_state EXCEPT ![v] = "INIT"]
             \/ pc[t] = "hold" /\ m_state' = [m_state EXCEPT ![v] = "HOLD"]
      BY <2>3, <2>18 DEF Recycle, Hold, At, HoldingPlaces
    <3>2. \A u \in Threads : ~HeldBy(w, u)'
      BY <1>0, <2>1, <2>18, EntryFacts DEF Recycle, Hold, Release, HeldBy
    <3>3. m_state[w] # "EXEC" /\ w \in saved
      BY <2>1, <3>1 DEF AtOneWorker, OnStack, Executing
    <3>4. /\ v # w => m_state'[w] = m_state[w]
          /\ m_state'[w] # "EXEC"
      BY <1>0, <3>1, <3>3
    <3>5. w \in ended /\ m_state'[w] \notin {"TERM", "EXCEPT"} => w \in Callbacks
      <4>1. CASE v # w
        BY <3>4, <4>1 DEF AtOneWorker
      <4>2. CASE v = w /\ pc[t] = "hold"
        BY <2>0, <4>2 DEF AtOneWorker
      <4>3. CASE v = w /\ pc[t] = "recycle"
        BY <2>0, <4>3 DEF AtOneWorker
      <4> QED
        BY <3>1, <4>1, <4>2, <4>3
    <3> QED
      BY <3>1, <3>2, <3>3, <3>4, <3>5 DEF AtOneWorker
  <2>9. CASE IdleEnter(t) \/ IdleRound(t) \/ IdleLeave(t) \/ Exit(t)
    <3>1. /\ pc[t] \notin HoldingPlaces
          /\ UNCHANGED <<m_fibers, m_state, saved, ended, unborn, armed, ft>>
      BY <2>9 DEF IdleEnter, IdleRound, IdleLeave, Exit, At, HoldingPlaces, ActivePlaces
    <3> QED
      BY <1>1, <1>2, <2>1, <3>1
  <2>10. CASE Arm(t)
    <3>1. /\ pc[t] = "body" /\ pc'[t] = "arming" /\ armed' = armed \cup {v}
          /\ UNCHANGED <<m_fibers, m_state, saved, ended, unborn, ft>>
      BY <1>0, <2>10 DEF Arm, At, Goto
    <3>2. v # w => \A u \in Threads : ~HeldBy(w, u)
      BY <2>0, <2>1
    <3> QED
      BY <2>0, <2>1, <2>2, <3>1, <3>2 DEF AtOneWorker, OnStack, Executing, Resuming
  <2>11. CASE YieldToReady(t) \/ YieldToHold(t)
    <3>1. /\ \/ pc[t] = "body" /\ pc'[t] = "toReady"
             \/ pc[t] = "arming" /\ pc'[t] = "toHold"
          /\ UNCHANGED <<m_fibers, m_state, saved, ended, unborn, armed, ft>>
      BY <1>0, <2>11 DEF YieldToReady, YieldToHold, Yield, At, Goto
    <3> QED
      BY <2>0, <2>1, <2>2, <3>1 DEF AtOneWorker, OnStack, Executing, Resuming
  <2>13. ASSUME NEW x \in Works, Spawn(t, x) PROVE AtOneWorker(w)'
    BY <1>6, <2>13 DEF Spawn
  <2>14. ASSUME NEW o \in {"return", "std", "other"}, Finish(t, o) PROVE AtOneWorker(w)'
    <3>1. /\ pc[t] \in {"body", "arming"} /\ pc'[t] = "swapOut" /\ v \in Works
          /\ pc[t] = "arming" => v \in Careless
          /\ m_state' = [m_state EXCEPT ![v] = FinalState(o, v)]
          /\ ended' = ended \cup {v} /\ o # "std"
          /\ UNCHANGED <<m_fibers, saved, unborn, armed, ft>>
      BY <1>0, <2>3, <2>14 DEF Finish, At, Goto, HoldingPlaces, ActivePlaces, Tidy
    <3>2. /\ v = w => m_state'[w] \in {"TERM", "EXCEPT"}
          /\ v # w => m_state'[w] = m_state[w]
      BY <1>0, <3>1 DEF FinalState
    <3> QED
      BY <2>0, <2>1, <2>2, <3>1, <3>2 DEF AtOneWorker, OnStack, Executing, Resuming
  <2> QED
    BY <1>9, <2>4, <2>5, <2>6, <2>7, <2>8, <2>9, <2>10, <2>11, <2>13, <2>14,
       <2>15, <2>16, <2>17, <2>18
    DEF RunStep, BodyStep
<1>10. CASE UNCHANGED vars
  BY <1>2, <1>10 DEF vars
<1> QED
  BY <1>3, <1>4, <1>5, <1>7, <1>8, <1>9, <1>10 DEF Next, StopStep

\* The inductive invariant of a scheduler with one worker.
OneWorkerInv ==
  Cardinality(pool) = 1 =>
    fault = "none" /\ CallbackEntries /\ \A w \in Works : AtOneWorker(w)

LEMMA NextOneWorker ==
  ASSUME Tidy, TypeOK, Phases, \A w \in Works : Tracked(w), OneWorkerInv, [Next]_vars
  PROVE  OneWorkerInv'
<1>1. pool' = pool
  BY DEF vars, setupVars, stopVars, Next, Start, StopStep, Stop, StopCallRoot,
      RootReturned, Join,
     MainSchedule, Wake, RunStep, BodyStep, Fetch, Test, Skip, NotRunning, Mark, SwapIn,
     SwapOut, CountDown, AskReady, Requeue, AskOver, ResetCheck, Recycle, Hold,
     IdleEnter, IdleRound, IdleLeave, Exit, Spawn, Arm, YieldToReady, YieldToHold,
     Yield, SetReady, SetHold, SetState, Finish
<1> SUFFICES ASSUME Cardinality(pool) = 1
             PROVE  fault' = "none" /\ CallbackEntries' /\ \A w \in Works : AtOneWorker(w)'
  BY <1>1 DEF OneWorkerInv
<1>2. PICK p : pool = {p}
  <2>1. IsFiniteSet(pool)
    BY SetupFacts, FS_Subset, ThreadsAssumption
  <2> QED
    BY <2>1, FS_Singleton
<1>3. fault = "none" /\ CallbackEntries /\ \A w \in Works : AtOneWorker(w)
  BY DEF OneWorkerInv
<1> QED
  BY <1>2, <1>3, NextNoFault, NextCallbackEntries, NextAtOneWorker

-----------------------------------------------------------------------------
(* The theorems. *)

\* The inductive invariant.
IInv ==
  /\ TypeOK /\ Phases /\ CountersExact
  /\ \A w \in Plain : InOnePlace(w)
  /\ Pins /\ Attended
  /\ \A w \in Works : Tracked(w)

LEMMA Invariance == Spec => []IInv
<1>1. Init => IInv
  BY InitType, InitPhases, InitCounters, InitPlace, InitPins, InitAttended,
      InitTracked DEF IInv
<1>2. IInv /\ [Next]_vars => IInv'
  <2> SUFFICES ASSUME IInv, [Next]_vars PROVE IInv'
    OBVIOUS
  <2>1. TypeOK' /\ Phases' /\ CountersExact' /\ Pins'
    BY NextType, NextPhases, NextCounters, NextPins DEF IInv
  <2>2. \A w \in Plain : InOnePlace(w)'
    BY NextPlace DEF IInv
  <2>3. Attended'
    BY NextAttended DEF IInv
  <2>4. \A w \in Works : Tracked(w)'
    BY NextTracked DEF IInv
  <2> QED
    BY <2>1, <2>2, <2>3, <2>4 DEF IInv, Plain
<1> QED
  BY <1>1, <1>2, PTL DEF Spec

\* Every variable of the scheduler keeps its type (scheduler.h 92-117).
THEOREM TypeCorrect == Spec => []TypeOK
<1>1. IInv => TypeOK
  BY DEF IInv
<1> QED
  BY <1>1, Invariance, PTL

\* m_activeThreadCount and m_idleThreadCount count the threads between the
\* increment and the decrement of run(), so stopping() and tickle() can rely
\* on them and they never wrap.
THEOREM CountersCorrect == Spec => []CountersExact
<1>1. IInv => CountersExact
  BY DEF IInv
<1> QED
  BY <1>1, Invariance, PTL

\* No task that does not park is on the list twice or in two threads' hands,
\* whatever run() does with READY fibers.
THEOREM RunByOneThread == Spec => []NoDuplicate
<1>1. IInv => NoDuplicate
  <2> SUFFICES ASSUME IInv, NEW w \in Works \ Waiters
               PROVE  /\ Cardinality(Holders(w)) <= 1
                      /\ \A i, j \in DOMAIN m_fibers :
                           m_fibers[i].work = w /\ m_fibers[j].work = w => i = j
    BY DEF NoDuplicate
  <2>1. InOnePlace(w)
    BY DEF IInv, Plain
  <2>2. Cardinality(Holders(w)) <= 1
    <3>1. CASE Holders(w) = {}
      BY <3>1, FS_EmptySet
    <3>2. CASE Holders(w) # {}
      <4>1. PICK t \in Threads : Holders(w) = {t}
        BY <2>1, <3>2 DEF Holders, InOnePlace, HeldBy
      <4> QED
        BY <4>1, FS_Singleton
    <3> QED
      BY <3>1, <3>2
  <2> QED
    BY <2>1, <2>2 DEF InOnePlace, OnceIn
<1> QED
  BY <1>1, Invariance, PTL

\* When stop() has returned, every task scheduled so far has run to its end,
\* except parked ones and those a task has scheduled for one thread.
THEOREM NothingLeftBehind == Spec => []StopDrains
<1>1. IInv => StopDrains
  <2> SUFFICES ASSUME IInv, main = "stopped", NEW w \in Works \ (unborn \cup Waiters),
                      Pin[w] = AnyThread \/ Parent[w] = Main
               PROVE  w \in ended /\ ~Queued(w)
    BY DEF StopDrains
  <2>1. \A t \in Threads : pc[t] \in {"created", "done"}
    BY SetupFacts DEF IInv, Phases
  <2>2. ~InList(m_fibers, w)
    BY <2>1 DEF IInv, Attended, WillScan, Waiting, Drained, Plain
  <2>3. \A t \in Threads : ~HeldBy(w, t)
    <3>1. TypeOK
      BY DEF IInv
    <3> QED
      BY <2>1, <3>1, EntryFacts DEF TypeOK, HoldingPlaces, ActivePlaces, HeldBy
  <2> QED
    BY <2>2, <2>3 DEF IInv, InOnePlace, Plain, Queued, InList
<1> QED
  BY <1>1, Invariance, PTL

\* run() loses a task only where one thread's HOLD (line 169 or 188) replaces
\* the READY of another thread's run of it, and never one that does not park:
\* in every other order of the unlocked reads and writes of m_state a task
\* that is not over is on the list, in a thread's hands or with its waker.
THEOREM LostOneWay == Spec => []NeverLost
<1>1. IInv => NeverLost
  <2> SUFFICES ASSUME IInv, NEW w \in Works, Lost(w) PROVE w \in overwritten /\ w \in Waiters
    BY DEF NeverLost
  <2>1. w \notin armed /\ w \notin unborn /\ w \notin ended
        /\ ~InList(m_fibers, w) /\ \A t \in Threads : ~HeldBy(w, t)
    BY DEF Lost, Queued, Holders, InList, HeldBy
  <2>2. w \in overwritten
    BY <2>1 DEF IInv, Tracked, Somewhere
  <2>3. w \notin Plain
    BY <2>2 DEF IInv, InOnePlace
  <2> QED
    BY <2>2, <2>3 DEF Plain
<1> QED
  BY <1>1, Invariance, PTL

\* With one worker no assertion of fiber.cpp fails and no finished or running
\* fiber is resumed, although wake-ups may outlive their task: if no body lets
\* a std::exception out and no callback ends with its wake-up registered.
THEOREM OneWorkerSafe == Tidy => (Spec => []OneWorkerNoFault)
<1> SUFFICES ASSUME Tidy PROVE Spec => []OneWorkerNoFault
  OBVIOUS
<1>1. Init => OneWorkerInv
  <2>1. Init => fault = "none"
    BY DEF Init
  <2> QED
    BY <2>1, InitOneWorker DEF OneWorkerInv
<1>2. IInv /\ OneWorkerInv /\ [Next]_vars => OneWorkerInv'
  BY NextOneWorker DEF IInv
<1>3. OneWorkerInv => OneWorkerNoFault
  BY DEF OneWorkerInv, OneWorkerNoFault
<1> QED
  BY <1>1, <1>2, <1>3, Invariance, PTL DEF Spec
=============================================================================
