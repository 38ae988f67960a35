----------------------------- MODULE Scheduler -----------------------------
(***************************************************************************)
(* The fiber scheduler: common/scheduler.{h,cpp} over common/fiber.cpp.    *)
(* A worker thread runs Scheduler::run; its pc names the place in that     *)
(* loop, or in the fiber it has switched to.  m_mutex sections are single  *)
(* steps; every unlocked access to shared state is a step of its own.      *)
(* A failed RADIXUN_ASSERT, or a switch to a context that is not a valid   *)
(* saved one, ends the process: fault names it and nothing moves any more. *)
(***************************************************************************)
EXTENDS Integers, Sequences, FiniteSets, SequencesExt

CONSTANTS
  Threads,    \* threads that may execute Scheduler::run
  Setups,     \* constructor arguments: the threads used, and the caller's
              \* own thread when use_caller, else NoThread
  NoThread,
  AnyThread,  \* thread id -1 of FiberAndThread
  Works,      \* tasks: a Fiber, or a callback that run() wraps in a Fiber
  Callbacks,  \* the tasks scheduled as std::function
  Pin,        \* the thread each task is scheduled for
  Parent,     \* who schedules it: Main or the body of another task
  Main,
  Waiters,    \* tasks that register a wake-up and park (hook.cpp)
  Careless,   \* tasks that may end with their wake-up still registered
  Outcomes,   \* how the body of each task may end: "return", "std", "other"
  MaxYields   \* bound on the switches out of each task

NoWork == [work |-> "none", thread |-> AnyThread, cb |-> FALSE]

Entries == [work : Works, thread : Threads \cup {AnyThread}, cb : BOOLEAN]

ASSUME ThreadsAssumption ==
  /\ IsFiniteSet(Threads) /\ Threads # {}
  /\ Setups \subseteq [pool : SUBSET Threads, root : Threads \cup {NoThread}]
  /\ \A s \in Setups : s.pool # {} /\ s.root \in s.pool \cup {NoThread}
  /\ NoThread \notin Threads /\ AnyThread \notin Threads

ASSUME WorksAssumption ==
  /\ Callbacks \subseteq Works /\ Waiters \subseteq Works
  /\ Careless \subseteq Waiters
  /\ "none" \notin Works /\ Main \notin Works
  /\ Pin \in [Works -> Threads \cup {AnyThread}]
  /\ Parent \in [Works -> Works \cup {Main}]
  /\ Outcomes \in [Works -> SUBSET {"return", "std", "other"}]
  /\ MaxYields \in [Works -> Nat]

VARIABLES
  pool,       \* threads of this scheduler, the caller's included
  m_rootThread, \* the caller's thread, or NoThread
  m_fibers,   \* the task list, a sequence of FiberAndThread
  m_activeThreadCount, m_idleThreadCount, m_stopping, m_autoStop,
  m_state,    \* Fiber::State of each task's fiber
  saved,      \* tasks whose m_ctx holds the point to resume at
  ended,      \* tasks whose callback has returned or thrown
  pc, ft,     \* each thread's place in run() and the task it took
  idleTerm,   \* threads whose idle_fiber is TERM
  main,       \* the thread that owns the scheduler
  unborn,     \* tasks nobody has scheduled yet
  armed,      \* parked (or parking) tasks a timer or fd event will schedule
  yields,     \* switches out each task may still make
  overwritten, \* history: tasks whose READY run() has replaced by HOLD
  fault       \* "none", or the assertion that aborted the process

queueVars == <<m_fibers, armed, unborn>>
countVars == <<m_activeThreadCount, m_idleThreadCount>>
setupVars == <<pool, m_rootThread>>
stopVars  == <<m_stopping, m_autoStop, main, pool, m_rootThread>>
fiberVars == <<m_state, saved, ended, yields, overwritten>>
vars == <<pool, m_rootThread, m_fibers, m_activeThreadCount, m_idleThreadCount, m_stopping,
          m_autoStop, m_state, saved, ended, pc, ft, idleTerm, main, unborn,
          armed, yields, overwritten, fault>>

-----------------------------------------------------------------------------
Init ==
  /\ \E s \in Setups : pool = s.pool /\ m_rootThread = s.root
  /\ m_fibers = <<>>
  /\ m_activeThreadCount = 0 /\ m_idleThreadCount = 0
  /\ m_stopping = TRUE /\ m_autoStop = FALSE
  /\ m_state = [w \in Works |-> "INIT"]
  /\ saved = Works /\ ended = {}
  /\ pc = [t \in Threads |-> "created"]
  /\ ft = [t \in Threads |-> NoWork]
  /\ idleTerm = {}
  /\ main = "created" /\ unborn = Works /\ armed = {}
  /\ yields = MaxYields /\ overwritten = {}
  /\ fault = "none"

\* scheduleNoLock: push_back; tickle() is empty in this class.
Enqueue(w, thread, cb) ==
  m_fibers' = Append(m_fibers, [work |-> w, thread |-> thread, cb |-> cb])

\* A fiber is scheduled again (after READY, by a timer, by an event).
RescheduleForgotten(w) == UNCHANGED m_fibers
Reschedule(w) == Enqueue(w, AnyThread, FALSE)

\* The virtual stopping(), evaluated under m_mutex.
Stopping ==
  /\ m_autoStop /\ m_stopping
  /\ m_fibers = <<>> /\ m_activeThreadCount = 0

\* --m_activeThreadCount, and ft.reset().
DeactivateForgotten == UNCHANGED m_activeThreadCount
Deactivate == m_activeThreadCount' = m_activeThreadCount - 1
ReleaseForgotten(t) == UNCHANGED ft
Release(t) == ft' = [ft EXCEPT ![t] = NoWork]

\* Nothing moves once the process has aborted.
At(t, place) == fault = "none" /\ pc[t] = place
MainAt(places) == fault = "none" /\ main \in places

Goto(t, place) == pc' = [pc EXCEPT ![t] = place]

-----------------------------------------------------------------------------
(* The owner: start(), schedule() from outside, stop(). *)

Start ==
  /\ MainAt({"created"}) /\ m_stopping
  /\ main' = "running" /\ m_stopping' = FALSE
  /\ pc' = [t \in Threads |-> IF t \in pool \ {m_rootThread} THEN "fetch" ELSE pc[t]]
  /\ UNCHANGED <<queueVars, countVars, fiberVars, setupVars, m_autoStop, ft, idleTerm, fault>>

MainSchedule(w) ==
  /\ MainAt({"created", "running"}) /\ w \in unborn /\ Parent[w] = Main
  /\ Enqueue(w, Pin[w], w \in Callbacks)
  /\ unborn' = unborn \ {w}
  /\ UNCHANGED <<countVars, stopVars, fiberVars, pc, ft, idleTerm, armed, fault>>

Stop ==
  /\ MainAt({"running"})
  /\ m_autoStop' = TRUE /\ m_stopping' = TRUE
  /\ main' = "stopping"
  /\ UNCHANGED <<queueVars, countVars, fiberVars, setupVars, pc, ft, idleTerm, fault>>

StopCallRootForgotten ==
  /\ MainAt({"stopping"}) /\ main' = "joining"
  /\ UNCHANGED <<queueVars, countVars, fiberVars, setupVars, m_stopping, m_autoStop, pc,
                 ft, idleTerm, fault>>

\* With use_caller, m_rootFiber->call() runs run() on the caller's thread.
StopCallRoot ==
  /\ MainAt({"stopping"})
  /\ IF m_rootThread # NoThread /\ ~Stopping
       THEN main' = "calling" /\ Goto(m_rootThread, "fetch")
       ELSE main' = "joining" /\ UNCHANGED pc
  /\ UNCHANGED <<queueVars, countVars, fiberVars, setupVars, m_stopping, m_autoStop,
                 ft, idleTerm, fault>>

RootReturned ==
  /\ MainAt({"calling"}) /\ pc[m_rootThread] = "done"
  /\ main' = "joining"
  /\ UNCHANGED <<queueVars, countVars, fiberVars, setupVars, m_stopping, m_autoStop, pc,
                 ft, idleTerm, fault>>

JoinForgotten ==
  /\ MainAt({"joining"}) /\ main' = "stopped"
  /\ UNCHANGED <<queueVars, countVars, fiberVars, setupVars, m_stopping, m_autoStop, pc,
                 ft, idleTerm, fault>>

Join ==
  /\ MainAt({"joining"}) /\ \A t \in pool \ {m_rootThread} : pc[t] = "done"
  /\ main' = "stopped"
  /\ UNCHANGED <<queueVars, countVars, fiberVars, setupVars, m_stopping, m_autoStop, pc,
                 ft, idleTerm, fault>>

\* A timer or a ready descriptor schedules the fiber that registered for it.
Wake(w) ==
  /\ fault = "none" /\ w \in armed
  /\ armed' = armed \ {w}
  /\ Reschedule(w)
  /\ UNCHANGED <<countVars, stopVars, fiberVars, pc, ft, idleTerm, unborn, fault>>

-----------------------------------------------------------------------------
(* run(): take a task, switch to it, account for it. *)

\* The test of the scan: pinned elsewhere and EXEC fibers are passed over.
Takeable(e, t) ==
  /\ e.thread \in {AnyThread, t}
  /\ e.cb \/ m_state[e.work] # "EXEC"

TakeableAt(t) == {i \in DOMAIN m_fibers : Takeable(m_fibers[i], t)}

EraseForgotten(i) == UNCHANGED m_fibers
Erase(i) == m_fibers' = RemoveAt(m_fibers, i)

\* The first takeable entry leaves the list and the thread counts as active.
Take(t) ==
  \E i \in TakeableAt(t) :
    /\ \A j \in TakeableAt(t) : i <= j
    /\ ft' = [ft EXCEPT ![t] = m_fibers[i]]
    /\ Erase(i)
    /\ m_activeThreadCount' = m_activeThreadCount + 1
    /\ Goto(t, "dispatch")

TakeNothing(t) ==
  /\ TakeableAt(t) = {}
  /\ Goto(t, "idle")
  /\ UNCHANGED <<m_fibers, m_activeThreadCount, ft>>

Fetch(t) ==
  /\ At(t, "fetch")
  /\ Take(t) \/ TakeNothing(t)
  /\ UNCHANGED <<m_idleThreadCount, stopVars, fiberVars, idleTerm, unborn,
                 armed, fault>>

\* The test before swapIn: a finished fiber is not resumed.
OverOnlyExcept(w) == m_state[w] = "EXCEPT"
Over(w) == m_state[w] \in {"TERM", "EXCEPT"}

\* Lines 162 and 172.  (Two reads of m_state, as in AskOver below: what they
\* decide together, one of them decides alone.)
Test(t) ==
  /\ At(t, "dispatch")
  /\ Goto(t, IF ~ft[t].cb /\ Over(ft[t].work) THEN "skip" ELSE "swapIn")
  /\ UNCHANGED <<queueVars, countVars, stopVars, fiberVars, ft, idleTerm, fault>>

\* A task that finished while it was queued: only the count is undone.
Skip(t) ==
  /\ At(t, "skip")
  /\ Deactivate
  /\ Release(t)
  /\ Goto(t, "fetch")
  /\ UNCHANGED <<queueVars, m_idleThreadCount, stopVars, fiberVars, idleTerm, fault>>

\* swapIn: the assertion, the write and the switch are three accesses.
NotRunning(t) ==
  /\ At(t, "swapIn")
  /\ fault' = IF m_state[ft[t].work] = "EXEC" THEN "swapIn: m_state != EXEC" ELSE "none"
  /\ Goto(t, "mark")
  /\ UNCHANGED <<queueVars, countVars, stopVars, fiberVars, ft, idleTerm>>

Mark(t) ==
  /\ At(t, "mark")
  /\ m_state' = [m_state EXCEPT ![ft[t].work] = "EXEC"]
  /\ Goto(t, "switch")
  /\ UNCHANGED <<queueVars, countVars, stopVars, saved, ended, yields, overwritten, ft,
                 idleTerm, fault>>

\* What switching to w's context would do other than resume w; "none" is a
\* proper resume.  A fiber whose callback is over stands behind its last
\* swapOut, before "never reach" (or has been recycled for another callback by cb_fiber->reset).
SwitchFault(w) ==
  CASE w \in ended                     -> "swapIn: fiber is over"
    [] w \notin ended /\ w \notin saved -> "swapIn: context not saved"
    [] OTHER                           -> "none"

SwapIn(t) ==
  LET w == ft[t].work IN
  /\ At(t, "switch")
  /\ fault' = SwitchFault(w)
  /\ saved' = saved \ {w}
  /\ Goto(t, "body")
  /\ UNCHANGED <<queueVars, countVars, stopVars, m_state, ended, yields, overwritten, ft,
                 idleTerm>>

\* swapOut's swapcontext stores the fiber and returns to run().
SwapOut(t) ==
  /\ At(t, "swapOut")
  /\ saved' = saved \cup {ft[t].work}
  /\ Goto(t, "returned")
  /\ UNCHANGED <<queueVars, countVars, stopVars, m_state, ended, yields, overwritten, ft,
                 idleTerm, fault>>

CountDown(t) ==
  /\ At(t, "returned")
  /\ Deactivate
  /\ Goto(t, "askReady")
  /\ UNCHANGED <<queueVars, m_idleThreadCount, stopVars, fiberVars, ft, idleTerm, fault>>

\* After a switch back, m_state is read (166, 182), read again (168, 185) and
\* written (169, 188), and other threads may change it in between.  READY
\* goes back to the list, unpinned.
AskReady(t) ==
  /\ At(t, "askReady")
  /\ Goto(t, IF m_state[ft[t].work] = "READY" THEN "requeue" ELSE "askOver")
  /\ UNCHANGED <<queueVars, countVars, stopVars, fiberVars, ft, idleTerm, fault>>

Requeue(t) ==
  /\ At(t, "requeue")
  /\ Reschedule(ft[t].work)
  /\ Release(t)
  /\ Goto(t, "fetch")
  /\ UNCHANGED <<armed, unborn, countVars, stopVars, fiberVars, idleTerm, fault>>

\* TERM and EXCEPT are dropped, a callback's fiber is recycled by reset(nullptr).
AskOver(t) ==
  LET w == ft[t].work IN
  /\ At(t, "askOver")
  /\ \/ /\ Over(w) /\ ft[t].cb
        /\ Goto(t, "reset")
        /\ UNCHANGED ft
     \/ /\ Over(w) /\ ~ft[t].cb
        /\ Release(t)
        /\ Goto(t, "fetch")
     \/ /\ ~Over(w)
        /\ Goto(t, "hold")
        /\ UNCHANGED ft
  /\ UNCHANGED <<queueVars, countVars, stopVars, fiberVars, idleTerm, fault>>

ResetCheck(t) ==
  /\ At(t, "reset")
  /\ fault' = IF m_state[ft[t].work] \in {"TERM", "EXCEPT", "INIT"}
                THEN "none" ELSE "reset: m_state"
  /\ Goto(t, "recycle")
  /\ UNCHANGED <<queueVars, countVars, stopVars, fiberVars, ft, idleTerm>>

Recycle(t) ==
  /\ At(t, "recycle")
  /\ m_state' = [m_state EXCEPT ![ft[t].work] = "INIT"]
  /\ Release(t)
  /\ Goto(t, "fetch")
  /\ UNCHANGED <<queueVars, countVars, stopVars, saved, ended, yields, overwritten,
                 idleTerm, fault>>

\* Somebody other than this thread still has a pointer to the fiber.
Referenced(w, t) ==
  \/ w \in armed
  \/ \E i \in DOMAIN m_fibers : m_fibers[i].work = w
  \/ \E u \in Threads \ {t} : ft[u].work = w

\* Anything else is declared HOLD, whatever it has become since.  A finished
\* fiber that loses its last pointer as HOLD fails ~Fiber's assertion; a
\* suspended one has a pointer to itself on its own stack (fiber.cpp 159).
Hold(t) ==
  LET w == ft[t].work IN
  /\ At(t, "hold")
  /\ m_state' = [m_state EXCEPT ![w] = "HOLD"]
  /\ overwritten' = IF m_state[w] = "READY" THEN overwritten \cup {w} ELSE overwritten
  /\ fault' = IF w \in ended /\ ~Referenced(w, t) THEN "~Fiber: m_state" ELSE "none"
  /\ Release(t)
  /\ Goto(t, "fetch")
  /\ UNCHANGED <<queueVars, countVars, stopVars, saved, ended, yields, idleTerm>>

\* No task: leave when idle_fiber is TERM, else run one round of idle().
IdleEnter(t) ==
  /\ At(t, "idle") /\ t \notin idleTerm
  /\ m_idleThreadCount' = m_idleThreadCount + 1
  /\ Goto(t, "inIdle")
  /\ UNCHANGED <<queueVars, m_activeThreadCount, stopVars, fiberVars, ft, idleTerm, fault>>

IdleRound(t) ==
  /\ At(t, "inIdle")
  /\ idleTerm' = IF Stopping THEN idleTerm \cup {t} ELSE idleTerm
  /\ Goto(t, "idleOut")
  /\ UNCHANGED <<queueVars, countVars, stopVars, fiberVars, ft, fault>>

IdleLeave(t) ==
  /\ At(t, "idleOut")
  /\ m_idleThreadCount' = m_idleThreadCount - 1
  /\ Goto(t, "fetch")
  /\ UNCHANGED <<queueVars, m_activeThreadCount, stopVars, fiberVars, ft, idleTerm, fault>>

Exit(t) ==
  /\ At(t, "idle") /\ t \in idleTerm
  /\ Goto(t, "done")
  /\ UNCHANGED <<queueVars, countVars, stopVars, fiberVars, ft, idleTerm, fault>>

-----------------------------------------------------------------------------
(* The body of the fiber a thread has switched to. *)

Spawn(t, w) ==
  /\ At(t, "body") /\ w \in unborn /\ Parent[w] = ft[t].work
  /\ Enqueue(w, Pin[w], w \in Callbacks)
  /\ unborn' = unborn \ {w}
  /\ UNCHANGED <<countVars, stopVars, fiberVars, pc, ft, idleTerm, armed, fault>>

\* addEvent / addTimer with the running fiber: from now on it may be queued.
Arm(t) ==
  /\ At(t, "body") /\ ft[t].work \in Waiters /\ yields[ft[t].work] > 0
  /\ armed' = armed \cup {ft[t].work}
  /\ Goto(t, "arming")
  /\ UNCHANGED <<m_fibers, unborn, countVars, stopVars, fiberVars, ft, idleTerm, fault>>

\* YieldToReady / YieldToHold: assert EXEC, then set the state, then swapOut.
Yield(t, from, to) ==
  LET w == ft[t].work IN
  /\ At(t, from) /\ yields[w] > 0
  /\ fault' = IF m_state[w] = "EXEC" THEN "none" ELSE "Yield: m_state == EXEC"
  /\ yields' = [yields EXCEPT ![w] = @ - 1]
  /\ Goto(t, to)
  /\ UNCHANGED <<queueVars, countVars, stopVars, m_state, saved, ended, overwritten, ft,
                 idleTerm>>

YieldToReady(t) == Yield(t, "body", "toReady")
YieldToHold(t)  == Yield(t, "arming", "toHold")

SetState(t, from, state) ==
  /\ At(t, from)
  /\ m_state' = [m_state EXCEPT ![ft[t].work] = state]
  /\ Goto(t, "swapOut")
  /\ UNCHANGED <<queueVars, countVars, stopVars, saved, ended, yields, overwritten, ft,
                 idleTerm, fault>>

SetReady(t) == SetState(t, "toReady", "READY")
SetHold(t)  == SetState(t, "toHold", "HOLD")

\* MainFunc after m_cb(): TERM on return, EXCEPT for catch(...), and no
\* assignment at all in catch(std::exception&).  Then the last swapOut.
FinalState(outcome, w) ==
  CASE outcome = "return" -> "TERM"
    [] outcome = "other"  -> "EXCEPT"
    [] outcome = "std"    -> m_state[w]

Finish(t, outcome) ==
  LET w == ft[t].work IN
  /\ At(t, "body") \/ (At(t, "arming") /\ w \in Careless)
  /\ outcome \in Outcomes[w]
  /\ {v \in unborn : Parent[v] = w} = {}
  /\ m_state' = [m_state EXCEPT ![w] = FinalState(outcome, w)]
  /\ ended' = ended \cup {w}
  /\ Goto(t, "swapOut")
  /\ UNCHANGED <<queueVars, countVars, stopVars, saved, yields, overwritten, ft, idleTerm,
                 fault>>

-----------------------------------------------------------------------------
BodyStep(t) ==
  \/ \E w \in Works : Spawn(t, w)
  \/ Arm(t) \/ YieldToReady(t) \/ YieldToHold(t) \/ SetReady(t) \/ SetHold(t)
  \/ \E o \in {"return", "std", "other"} : Finish(t, o)

RunStep(t) ==
  \/ Fetch(t) \/ Test(t) \/ Skip(t) \/ NotRunning(t) \/ Mark(t) \/ SwapIn(t)
  \/ SwapOut(t) \/ CountDown(t) \/ AskReady(t) \/ Requeue(t) \/ AskOver(t)
  \/ ResetCheck(t) \/ Recycle(t) \/ Hold(t)
  \/ IdleEnter(t) \/ IdleRound(t) \/ IdleLeave(t) \/ Exit(t)

StopStep == Stop \/ StopCallRoot \/ RootReturned \/ Join

Next ==
  \/ Start \/ StopStep
  \/ \E w \in Works : MainSchedule(w) \/ Wake(w)
  \/ \E t \in Threads : RunStep(t) \/ BodyStep(t)

\* Threads are scheduled by the kernel, bodies are assumed to end, the owner
\* goes through with start() and stop(), and a registered wake-up arrives.
Fairness ==
  /\ WF_vars(Start)
  /\ WF_vars(StopStep)
  /\ \A w \in Works : WF_vars(Wake(w))
  /\ \A t \in Threads : WF_vars(RunStep(t) \/ BodyStep(t))

Spec == Init /\ [][Next]_vars
FairSpec == Spec /\ Fairness
-----------------------------------------------------------------------------
(* Properties *)

ActivePlaces == {"dispatch", "skip", "swapIn", "mark", "switch", "body", "arming",
                 "toReady", "toHold", "swapOut", "returned"}
HoldingPlaces ==
  ActivePlaces \cup {"askReady", "requeue", "askOver", "reset", "recycle", "hold"}
Places == HoldingPlaces \cup {"created", "fetch", "idle", "inIdle", "idleOut", "done"}
FiberStates == {"INIT", "HOLD", "EXEC", "TERM", "READY", "EXCEPT"}

Faults == {"none", "swapIn: m_state != EXEC", "swapIn: fiber is over",
           "swapIn: context not saved", "Yield: m_state == EXEC", "reset: m_state",
           "~Fiber: m_state"}

\* Every variable holds a value of its C++ type (scheduler.h 92-117, fiber.h
\* 21-34), and the task a thread took is present exactly while it has one.
TypeOK ==
  /\ [pool |-> pool, root |-> m_rootThread] \in Setups
  /\ m_fibers \in Seq(Entries)
  /\ m_activeThreadCount \in Int /\ m_idleThreadCount \in Int
  /\ m_stopping \in BOOLEAN /\ m_autoStop \in BOOLEAN
  /\ m_state \in [Works -> FiberStates]
  /\ saved \subseteq Works /\ ended \subseteq Works
  /\ pc \in [Threads -> Places]
  /\ ft \in [Threads -> Entries \cup {NoWork}]
  /\ \A t \in Threads : ft[t] \in Entries <=> pc[t] \in HoldingPlaces
  /\ idleTerm \subseteq Threads
  /\ main \in {"created", "running", "stopping", "calling", "joining", "stopped"}
  /\ unborn \subseteq Works /\ armed \subseteq Works
  /\ yields \in [Works -> Nat] /\ overwritten \subseteq Works
  /\ fault \in Faults

\* The two atomic counters that stopping() and tickle() rely on are exact:
\* they count the threads between the increment and the decrement in run(),
\* whatever way a task leaves its fiber, so they never wrap below zero.
CountersExact ==
  /\ m_activeThreadCount = Cardinality({t \in Threads : pc[t] \in ActivePlaces})
  /\ m_idleThreadCount = Cardinality({t \in Threads : pc[t] \in {"inIdle", "idleOut"}})

Queued(w) == \E i \in DOMAIN m_fibers : m_fibers[i].work = w
Holders(w) == {t \in Threads : ft[t].work = w}

\* A task that nobody can resume any more, although it is not over: it is on
\* no list, in no thread's hands, and nobody is to wake it.
Lost(w) ==
  w \notin unborn \cup ended \cup armed /\ ~Queued(w) /\ Holders(w) = {}

\* schedule()/run(): the list, the hand-over between threads and the wakers
\* lose a task in one way only.  One thread parks it and is still between the
\* reads of lines 166-168 and the write of line 169 when another thread has
\* run it and it has yielded READY: the HOLD written over that READY keeps the
\* other thread from scheduling it again.  A task that does not park is never lost.
NeverLost == \A w \in Works : Lost(w) => w \in overwritten /\ w \in Waiters

\* A task that parks nowhere is on the list at most once and in one thread's
\* hands only: no two threads run its stack (run() 137-157, the reschedule of
\* a READY fiber).
NoDuplicate ==
  \A w \in Works \ Waiters :
    /\ Cardinality(Holders(w)) <= 1
    /\ \A i, j \in DOMAIN m_fibers :
         m_fibers[i].work = w /\ m_fibers[j].work = w => i = j

\* With one worker no RADIXUN_ASSERT of fiber.cpp fails and no invalid
\* context is resumed, stale wake-ups and finished fibers on the list
\* included.  (With more workers see YieldAssertion.)
OneWorkerNoFault == Cardinality(pool) = 1 => fault = "none"

\* stop() returns only after every task scheduled so far has run to its end
\* (scheduler.cpp 69-109).  Excepted are a task that another task schedules
\* for one thread, which may have left by then because stopping() was true
\* while the parent was between two lists (line 165), and parked fibers,
\* which this class does not know: the IOManager counts them.
StopDrains ==
  main = "stopped" =>
    \A w \in Works \ (unborn \cup Waiters) :
      Pin[w] = AnyThread \/ Parent[w] = Main => w \in ended /\ ~Queued(w)

\* stop() comes back: no worker waits for ever on work that cannot come.
StopReturns == (main = "stopping") ~> (main = "stopped" \/ fault # "none")

\* The assertion of Fiber::YieldToReady/YieldToHold, cur->m_state == EXEC.
YieldAssertion == fault # "Yield: m_state == EXEC"
=============================================================================
