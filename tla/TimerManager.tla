---------------------------- MODULE TimerManager ----------------------------
(***************************************************************************)
(* Timers: common/timer.{h,cpp}.  m_mutex sections are single steps.  What *)
(* the code does outside the lock is a step of its own: the constructor    *)
(* reads the clock before addTimer locks, listExpiredCb reads it before it *)
(* locks, and onTimerInsertedAtFront() is called after the unlock.         *)
(* A waiter is a worker thread: it runs tasks or, counted as idle, goes    *)
(* through IOManager::idle: getNextTimer, epoll_wait for that long but at  *)
(* most MAX_TIMEOUT, listExpiredCb.  Any thread may call the rest.         *)
(***************************************************************************)
EXTENDS Integers, FiniteSets

CONSTANTS
  Timers,    \* Timer objects, each created at most once
  Waiters,   \* worker threads, which sleep in idle() until the next deadline
  MayRecur,  \* those that may be created with recurring = true
  Periods,   \* values of the ms argument
  MaxTimeout, \* MAX_TIMEOUT of idle()
  IntMax,    \* INT_MAX
  MaxTime    \* bound: the clock stops here

\* Beyond INT_MAX, (int)next_timeout would be negative and wait for ever.
ASSUME TimerAssumption ==
  /\ IntMax \in Nat /\ Periods \subseteq 0 .. IntMax /\ MaxTimeout \in 0 .. IntMax
  /\ MaxTime \in Nat
  /\ Waiters # {} /\ MayRecur \subseteq Timers

VARIABLES
  now,                            \* GetCurrentMS()
  m_timers,                       \* the ordered set, by m_next
  m_next, m_ms, m_recurring,      \* members of each Timer
  m_cb,                           \* timers whose m_cb is not null
  m_tickled,
  made,                           \* constructed timers
  inserting,                      \* constructed, addTimer not yet locked
  notifying,                      \* addTimer calls about to ask hasIdleThreads()
  writing,                        \* those that found none and will write
  notified,                       \* a byte in the pipe that no waiter has read
  waiter,                         \* place of each waiter in its loop
  timeout,                        \* its next_timeout, as given to epoll_wait
  nowMs,                          \* listExpiredCb's now_ms
  taken,                          \* how often each callback was collected (0, 1, 2+)
  readAt,                         \* history: when the waiter called getNextTimer
  late                            \* history: timers addTimer has stored since then

timerVars  == <<m_timers, m_next, m_ms, m_recurring, m_cb, made, inserting, taken>>
notifyVars == <<m_tickled, notifying, writing, notified>>
waitVars   == <<timeout, readAt>>
waiterVars == <<waiter, timeout, readAt, nowMs>>
vars == <<now, m_timers, m_next, m_ms, m_recurring, m_cb, m_tickled, made,
          inserting, notifying, writing, notified, waiter, timeout, nowMs, taken,
          readAt, late>>

\* From ++m_idleThreadCount to --m_idleThreadCount in Scheduler::run.
IdlePlaces == {"awake", "asleep", "listing", "leaving"}

Init ==
  /\ now = 0
  /\ m_timers = {} /\ m_cb = {} /\ made = {} /\ inserting = {}
  /\ m_next = [t \in Timers |-> 0] /\ m_ms = [t \in Timers |-> 0]
  /\ m_recurring = [t \in Timers |-> FALSE]
  /\ m_tickled = FALSE /\ notifying = {} /\ writing = {} /\ notified = FALSE
  /\ waiter = [w \in Waiters |-> "outside"]
  /\ timeout = [w \in Waiters |-> 0] /\ readAt = [w \in Waiters |-> 0]
  /\ nowMs = [w \in Waiters |-> 0]
  /\ late = [w \in Waiters |-> {}]
  /\ taken = [t \in Timers |-> 0]

Tick ==
  /\ now < MaxTime /\ now' = now + 1
  /\ UNCHANGED <<timerVars, waiterVars, notifyVars, late>>

-----------------------------------------------------------------------------
\* addTimer(val, lock): at_front when no stored timer is earlier.  Between
\* equal m_next the address decides, so both answers are possible.
FrontAnswers(t, next, others) ==
  {front \in BOOLEAN :
     /\ front => \A u \in others : next <= m_next[u]
     /\ ~front => \E u \in others : m_next[u] <= next}

\* A waiter between getNextTimer and the end of its wait does not know of t.
StoredDuringWait(t) ==
  late' = [w \in Waiters |->
             IF waiter[w] = "asleep" THEN late[w] \cup {t} ELSE late[w]]

Insert(t, next) ==
  /\ m_timers' = m_timers \cup {t}
  /\ StoredDuringWait(t)
  /\ \E front \in FrontAnswers(t, next, m_timers \ {t}) :
       IF front /\ ~m_tickled
         THEN m_tickled' = TRUE /\ notifying' = notifying \cup {t}
         ELSE UNCHANGED <<m_tickled, notifying>>

\* Timer::Timer: m_next from the clock, before any lock is taken.
Construct(t, ms, recurring) ==
  /\ t \notin made /\ (recurring => t \in MayRecur)
  /\ made' = made \cup {t} /\ inserting' = inserting \cup {t}
  /\ m_cb' = m_cb \cup {t}
  /\ m_ms' = [m_ms EXCEPT ![t] = ms]
  /\ m_recurring' = [m_recurring EXCEPT ![t] = recurring]
  /\ m_next' = [m_next EXCEPT ![t] = now + ms]
  /\ UNCHANGED <<now, m_timers, taken, notifyVars, waiterVars, late>>

AddTimer(t) ==
  /\ t \in inserting
  /\ inserting' = inserting \ {t}
  /\ Insert(t, m_next[t])
  /\ UNCHANGED <<now, m_next, m_ms, m_recurring, m_cb, made, taken, writing, notified,
                 waiterVars>>

\* onTimerInsertedAtFront(), after the lock is released: tickle() returns if
\* any thread is idle, asleep or not, and writes to the pipe otherwise.
Notify(t) ==
  /\ t \in notifying
  /\ notifying' = notifying \ {t}
  /\ writing' = IF \E w \in Waiters : waiter[w] \in IdlePlaces
                  THEN writing ELSE writing \cup {t}
  /\ UNCHANGED <<now, timerVars, m_tickled, notified, waiterVars, late>>

Write(t) ==
  /\ t \in writing
  /\ writing' = writing \ {t} /\ notified' = TRUE
  /\ UNCHANGED <<now, timerVars, m_tickled, notifying, waiterVars, late>>

\* The caller has the Timer::ptr once addTimer has returned.
ReturnedTooSoon(t) == t \in made
Returned(t) == t \in made /\ t \notin inserting

Erase(t) == m_timers' = m_timers \ {t}

Cancel(t) ==
  /\ Returned(t) /\ t \in m_cb
  /\ m_cb' = m_cb \ {t} /\ Erase(t)
  /\ UNCHANGED <<now, m_next, m_ms, m_recurring, made, inserting, taken,
                 notifyVars, waiterVars, late>>

\* refresh() re-inserts by m_timers.insert: no notification.
Refresh(t) ==
  /\ Returned(t) /\ t \in m_cb /\ t \in m_timers
  /\ m_next' = [m_next EXCEPT ![t] = now + m_ms[t]]
  /\ UNCHANGED <<now, m_timers, m_ms, m_recurring, m_cb, made, inserting, taken,
                 notifyVars, waiterVars, late>>

ResetStartFromDeadline(t, from_now) == IF from_now THEN now ELSE m_next[t]
ResetStart(t, from_now) == IF from_now THEN now ELSE m_next[t] - m_ms[t]

Reset(t, ms, from_now) ==
  LET next == ResetStart(t, from_now) + ms IN
  /\ Returned(t) /\ t \in m_cb /\ t \in m_timers
  /\ from_now \/ ms # m_ms[t]
  /\ m_ms' = [m_ms EXCEPT ![t] = ms]
  /\ m_next' = [m_next EXCEPT ![t] = next]
  /\ Insert(t, next)
  /\ UNCHANGED <<now, m_recurring, m_cb, made, inserting, taken, writing, notified,
                 waiterVars>>

-----------------------------------------------------------------------------
\* run() finds no task: ++m_idleThreadCount, and on with the idle fiber.
EnterIdle(w) ==
  /\ waiter[w] = "outside"
  /\ waiter' = [waiter EXCEPT ![w] = "awake"]
  /\ UNCHANGED <<now, timerVars, waitVars, nowMs, notifyVars, late>>

\* *m_timers.begin()
Last(t) == t \in m_timers /\ \A u \in m_timers : m_next[u] <= m_next[t]
First(t) == t \in m_timers /\ \A u \in m_timers : m_next[t] <= m_next[u]

Never == -1   \* getNextTimer's ~0ull: no timer to wait for

\* next_timeout as epoll_wait is given it: at most MAX_TIMEOUT.
CappedTimersOnly(ms) == IF ms > MaxTimeout THEN MaxTimeout ELSE ms
Capped(ms) == IF ms = Never \/ ms > MaxTimeout THEN MaxTimeout ELSE ms

TimeLeft(t) == IF now >= m_next[t] THEN 0 ELSE m_next[t] - now

NextTimeout(w) ==
  \/ m_timers = {} /\ timeout' = [timeout EXCEPT ![w] = Capped(Never)]
  \/ \E t \in m_timers : First(t) /\ timeout' = [timeout EXCEPT ![w] = Capped(TimeLeft(t))]

GetNextTimer(w) ==
  /\ waiter[w] = "awake"
  /\ m_tickled' = FALSE
  /\ NextTimeout(w)
  /\ readAt' = [readAt EXCEPT ![w] = now]
  /\ late' = [late EXCEPT ![w] = {}]
  /\ waiter' = [waiter EXCEPT ![w] = "asleep"]
  /\ UNCHANGED <<now, timerVars, nowMs, notifying, writing, notified>>

\* epoll_wait ends by the byte in the pipe (which is read), by its timeout or
\* for an event of a descriptor; listExpiredCb then reads the clock.  How much
\* later than its timeout it returns is left open.
WakeUp(w) ==
  /\ waiter[w] = "asleep"
  /\ notified' = FALSE \/ UNCHANGED notified
  /\ nowMs' = [nowMs EXCEPT ![w] = now]
  /\ waiter' = [waiter EXCEPT ![w] = "listing"]
  /\ timeout' = [timeout EXCEPT ![w] = 0] /\ readAt' = [readAt EXCEPT ![w] = 0]
  /\ late' = [late EXCEPT ![w] = {}]
  /\ UNCHANGED <<now, timerVars, m_tickled, notifying, writing>>

\* [begin, it): lower_bound of now_ms, moved past the timers due at now_ms.
ExpiredEarly(ms) == {t \in m_timers : m_next[t] <= ms + 1}
Expired(ms) == {t \in m_timers : m_next[t] <= ms}

AfterExpiryKeepsAll(ms) == Expired(ms)
\* Recurring timers are due again m_ms after now_ms; one-shot ones are over.
AfterExpiry(ms) == {t \in Expired(ms) : m_recurring[t]}

ListExpiredCb(w) ==
  /\ waiter[w] = "listing"
  /\ LET due == Expired(nowMs[w]) again == AfterExpiry(nowMs[w]) IN
     /\ taken' = [t \in Timers |->
                    IF t \in due /\ taken[t] < 2 THEN taken[t] + 1 ELSE taken[t]]
     /\ m_timers' = (m_timers \ due) \cup again
     /\ m_next' = [t \in Timers |-> IF t \in again THEN nowMs[w] + m_ms[t] ELSE m_next[t]]
     /\ m_cb' = m_cb \ (due \ again)
  /\ waiter' = [waiter EXCEPT ![w] = "leaving"]
  /\ nowMs' = [nowMs EXCEPT ![w] = 0]
  /\ UNCHANGED <<now, m_ms, m_recurring, made, inserting, notifyVars, waitVars, late>>

\* The idle fiber yields: --m_idleThreadCount.
LeaveIdle(w) ==
  /\ waiter[w] = "leaving"
  /\ waiter' = [waiter EXCEPT ![w] = "outside"]
  /\ UNCHANGED <<now, timerVars, waitVars, nowMs, notifyVars, late>>

-----------------------------------------------------------------------------
WaiterStep(w) == EnterIdle(w) \/ GetNextTimer(w) \/ ListExpiredCb(w) \/ LeaveIdle(w)

Next ==
  \/ Tick
  \/ \E t \in Timers :
       \/ \E ms \in Periods, b \in BOOLEAN : Construct(t, ms, b) \/ Reset(t, ms, b)
       \/ AddTimer(t) \/ Notify(t) \/ Write(t) \/ Cancel(t) \/ Refresh(t)
  \/ \E w \in Waiters : WaiterStep(w) \/ WakeUp(w)

Spec == Init /\ [][Next]_vars
-----------------------------------------------------------------------------
(* Properties *)

\* Values of the members of Timer and TimerManager (timer.h 34-71), and of
\* the waiters' local variables.
TypeOK ==
  /\ now \in Nat
  /\ m_next \in [Timers -> Int] /\ m_ms \in [Timers -> Nat]
  /\ m_recurring \in [Timers -> BOOLEAN]
  /\ m_cb \subseteq made /\ made \subseteq Timers /\ inserting \subseteq m_cb
  /\ m_timers \subseteq made /\ notifying \subseteq made /\ writing \subseteq made
  /\ m_tickled \in BOOLEAN /\ notified \in BOOLEAN
  /\ waiter \in [Waiters -> IdlePlaces \cup {"outside"}]
  /\ timeout \in [Waiters -> Nat \cup {Never}]
  /\ nowMs \in [Waiters -> Nat] /\ readAt \in [Waiters -> Nat]
  /\ late \in [Waiters -> SUBSET Timers]
  /\ taken \in [Timers -> 0..2]

\* A timer has its callback exactly while it is stored: cancel()'s unchecked
\* erase(find(this)) always finds it, listExpiredCb never collects a null
\* callback, and a cancelled timer can never be collected any more.
CbIffStored == m_timers = m_cb \ inserting

\* m_next - m_ms, the start reset() keeps, is an instant of the past: the
\* unsigned subtraction never wraps, and refresh() never moves a deadline
\* forward in time (so it need not notify).
StartInPast ==
  \A t \in made : m_next[t] - m_ms[t] \in 0..now

\* A one-shot callback is collected at most once, and then it is gone.
OneShotOnce ==
  \A t \in Timers : ~m_recurring[t] => taken[t] = 0 \/ (taken[t] = 1 /\ t \notin m_cb)

\* A callback is with the manager exactly as long as it may still run: kept
\* while the timer is stored, and collected at most once if it is a one-shot,
\* whatever cancel, refresh, reset and other collectors do meanwhile.
CallbacksExact == CbIffStored /\ OneShotOnce

\* A wait, counted from the clock read of getNextTimer, is never longer than
\* MAX_TIMEOUT, and it outlasts the deadline of a stored timer only if addTimer
\* has stored that timer since: what refresh(), a recurrence or another
\* collector does meanwhile never makes a sleeping thread late.
WaitInTime(w) ==
  /\ timeout[w] \in 0 .. MaxTimeout
  /\ timeout[w] = 0 \/ \A t \in m_timers \ late[w] : readAt[w] + timeout[w] <= m_next[t]

FrontCovered == \A w \in Waiters : waiter[w] = "asleep" => WaitInTime(w)

\* listExpiredCb never collects a callback before its deadline.
NoEarlyFire ==
  [][\A t \in Timers : taken'[t] # taken[t] => m_next[t] <= now]_vars
=============================================================================
