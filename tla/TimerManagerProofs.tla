------------------------- MODULE TimerManagerProofs -------------------------
(***************************************************************************)
(* The safety properties of TimerManager hold for any sets of timers,      *)
(* waiters and periods.  IInv is the inductive invariant: CbIffStored,     *)
(* StartInPast, OneShotOnce and FrontCovered, with what they need of the   *)
(* clock read by listExpiredCb and of timers not yet made.                 *)
(***************************************************************************)
EXTENDS TimerManager, TLAPS

\* listExpiredCb's now_ms is never ahead of the clock.
ClockRead == \A w \in Waiters : nowMs[w] <= now

\* Nothing of a timer that was not constructed has been collected.
UnmadeUntaken == \A t \in Timers \ made : taken[t] = 0

\* The inductive invariant.
IInv ==
  /\ TypeOK /\ CbIffStored /\ StartInPast /\ OneShotOnce
  /\ ClockRead /\ UnmadeUntaken /\ FrontCovered

\* The initial state satisfies the invariant.
LEMMA InitIInv == Init => IInv
<1> SUFFICES ASSUME Init PROVE IInv
  OBVIOUS
<1> USE DEF Init
<1>1. TypeOK
  <2>1. /\ m_recurring \in [Timers -> BOOLEAN]
        /\ m_tickled \in BOOLEAN /\ notified \in BOOLEAN
    OBVIOUS
  <2>2. /\ timeout \in [Waiters -> Nat \cup {Never}] /\ readAt \in [Waiters -> Nat]
        /\ late \in [Waiters -> SUBSET Timers]
    OBVIOUS
  <2>3. /\ now \in Nat /\ m_next \in [Timers -> Int] /\ m_ms \in [Timers -> Nat]
        /\ nowMs \in [Waiters -> Nat] /\ taken \in [Timers -> 0..2]
        /\ waiter \in [Waiters -> IdlePlaces \cup {"outside"}]
    OBVIOUS
  <2> QED BY <2>1, <2>2, <2>3 DEF TypeOK
<1>2. CbIffStored /\ StartInPast /\ UnmadeUntaken /\ ClockRead
  BY DEF CbIffStored, StartInPast, UnmadeUntaken, ClockRead
<1>3. OneShotOnce
  BY DEF OneShotOnce
<1>4. FrontCovered
  BY DEF FrontCovered
<1> QED BY <1>1, <1>2, <1>3, <1>4 DEF IInv

\* The timeout of a wait is at most MAX_TIMEOUT and the time to the first deadline.
LEMMA TimerLengths ==
  ASSUME TypeOK
  PROVE  /\ Capped(Never) \in 0 .. MaxTimeout
         /\ \A t \in m_timers :
              /\ Capped(TimeLeft(t)) \in 0 .. MaxTimeout
              /\ Capped(TimeLeft(t)) = 0 \/ now + Capped(TimeLeft(t)) <= m_next[t]
<1>1. MaxTimeout \in Nat
  BY TimerAssumption
<1>2. Capped(Never) \in 0 .. MaxTimeout
  BY <1>1 DEF Capped
<1>3. ASSUME NEW t \in m_timers
      PROVE  /\ Capped(TimeLeft(t)) \in 0 .. MaxTimeout
             /\ Capped(TimeLeft(t)) = 0 \/ now + Capped(TimeLeft(t)) <= m_next[t]
  <2>1. now \in Nat /\ m_next[t] \in Int
    BY DEF TypeOK
  <2>2. /\ TimeLeft(t) \in Nat
        /\ TimeLeft(t) = 0 \/ now + TimeLeft(t) = m_next[t]
    BY <2>1 DEF TimeLeft
  <2> QED BY <1>1, <2>1, <2>2 DEF Capped, Never
<1> QED BY <1>2, <1>3

\* TypeOK, CbIffStored and StartInPast carry over a step on their own.
LEMMA StepStorage ==
  TypeOK /\ CbIffStored /\ StartInPast /\ ClockRead /\ [Next]_vars
    => TypeOK' /\ CbIffStored' /\ StartInPast' /\ ClockRead'
<1> SUFFICES ASSUME TypeOK, CbIffStored, StartInPast, ClockRead, [Next]_vars
             PROVE  TypeOK' /\ CbIffStored' /\ StartInPast' /\ ClockRead'
  OBVIOUS
<1> USE DEF TypeOK, CbIffStored, StartInPast, ClockRead
<1>0. ASSUME NEW t \in Timers, StoredDuringWait(t)
      PROVE  late' \in [Waiters -> SUBSET Timers]
  BY <1>0 DEF StoredDuringWait
<1>1. CASE Tick
  BY <1>1 DEF Tick, timerVars, waiterVars, notifyVars
<1>2. ASSUME NEW t \in Timers, NEW ms \in Periods, NEW b \in BOOLEAN, Construct(t, ms, b)
      PROVE  TypeOK' /\ CbIffStored' /\ StartInPast' /\ ClockRead'
  <2>1. ms \in Nat
    BY TimerAssumption
  <2> QED BY <1>2, <2>1 DEF Construct, waiterVars, notifyVars
<1>3. ASSUME NEW t \in Timers, NEW ms \in Periods, NEW b \in BOOLEAN, Reset(t, ms, b)
      PROVE  TypeOK' /\ CbIffStored' /\ StartInPast' /\ ClockRead'
  <2> DEFINE next == ResetStart(t, b) + ms
  <2>1. next \in Nat /\ next - ms \in 0..now /\ ms \in Nat
    BY <1>3, TimerAssumption DEF Reset, ResetStart, Returned
  <2>2. /\ m_timers' = m_timers /\ m_cb' = m_cb /\ inserting' = inserting
        /\ made' = made /\ now' = now /\ nowMs' = nowMs
        /\ m_next' = [m_next EXCEPT ![t] = next] /\ m_ms' = [m_ms EXCEPT ![t] = ms]
    BY <1>3 DEF Reset, Insert, waiterVars
  <2>3. m_tickled' \in BOOLEAN /\ notifying' \subseteq made
    BY <1>3 DEF Reset, Insert, Returned
  <2>4. StartInPast' /\ CbIffStored' /\ ClockRead'
    BY <2>1, <2>2
  <2>5. late' \in [Waiters -> SUBSET Timers]
    BY <1>0, <1>3 DEF Reset, Insert
  <2>6. TypeOK'
    BY <1>3, <2>1, <2>2, <2>3, <2>5 DEF Reset, waiterVars
  <2> QED BY <2>4, <2>6
<1>4. ASSUME NEW t \in Timers, AddTimer(t)
      PROVE  TypeOK' /\ CbIffStored' /\ StartInPast' /\ ClockRead'
  <2>1. late' \in [Waiters -> SUBSET Timers]
    BY <1>0, <1>4 DEF AddTimer, Insert
  <2> QED BY <1>4, <2>1 DEF AddTimer, Insert, waiterVars
<1>5. ASSUME NEW t \in Timers, Notify(t) \/ Write(t)
      PROVE  TypeOK' /\ CbIffStored' /\ StartInPast' /\ ClockRead'
  BY <1>5 DEF Notify, Write, timerVars, waiterVars
<1>6. ASSUME NEW t \in Timers, Cancel(t)
      PROVE  TypeOK' /\ CbIffStored' /\ StartInPast' /\ ClockRead'
  BY <1>6 DEF Cancel, Returned, Erase, waiterVars, notifyVars
<1>7. ASSUME NEW t \in Timers, Refresh(t)
      PROVE  TypeOK' /\ CbIffStored' /\ StartInPast' /\ ClockRead'
  BY <1>7 DEF Refresh, Returned, waiterVars, notifyVars
<1>8. ASSUME NEW w \in Waiters, GetNextTimer(w)
      PROVE  TypeOK' /\ CbIffStored' /\ StartInPast' /\ ClockRead'
  <2>1. \E d \in Nat : timeout' = [timeout EXCEPT ![w] = d]
    BY <1>8, TimerLengths DEF GetNextTimer, NextTimeout
  <2>2. /\ waiter' = [waiter EXCEPT ![w] = "asleep"] /\ m_tickled' = FALSE
        /\ readAt' = [readAt EXCEPT ![w] = now] /\ late' = [late EXCEPT ![w] = {}]
        /\ UNCHANGED <<now, timerVars, nowMs, notifying, writing, notified>>
    BY <1>8 DEF GetNextTimer
  <2> QED BY <2>1, <2>2 DEF timerVars, IdlePlaces
<1>9. ASSUME NEW w \in Waiters, WakeUp(w)
      PROVE  TypeOK' /\ CbIffStored' /\ StartInPast' /\ ClockRead'
  <2>1. notified' \in BOOLEAN
    BY <1>9 DEF WakeUp
  <2>2. /\ timeout' = [timeout EXCEPT ![w] = 0] /\ nowMs' = [nowMs EXCEPT ![w] = now]
        /\ readAt' = [readAt EXCEPT ![w] = 0] /\ late' = [late EXCEPT ![w] = {}]
        /\ waiter' = [waiter EXCEPT ![w] = "listing"]
        /\ UNCHANGED <<now, timerVars, m_tickled, notifying, writing>>
    BY <1>9 DEF WakeUp
  <2> QED BY <2>1, <2>2 DEF timerVars, IdlePlaces
<1>10. ASSUME NEW w \in Waiters, ListExpiredCb(w)
       PROVE  TypeOK' /\ CbIffStored' /\ StartInPast' /\ ClockRead'
  <2> DEFINE due == Expired(nowMs[w])
             again == AfterExpiry(nowMs[w])
  <2>1. again \subseteq due /\ due \subseteq m_timers
    BY DEF Expired, AfterExpiry
  <2>2. /\ taken' = [t \in Timers |->
                    IF t \in due /\ taken[t] < 2 THEN taken[t] + 1 ELSE taken[t]]
        /\ m_timers' = (m_timers \ due) \cup again
        /\ m_next' = [t \in Timers |-> IF t \in again THEN nowMs[w] + m_ms[t] ELSE m_next[t]]
        /\ m_cb' = m_cb \ (due \ again)
        /\ waiter' = [waiter EXCEPT ![w] = "leaving"] /\ nowMs' = [nowMs EXCEPT ![w] = 0]
        /\ UNCHANGED <<now, m_ms, m_recurring, made, inserting, notifyVars, waitVars, late>>
    BY <1>10 DEF ListExpiredCb
  <2> HIDE DEF due, again
  <2>3. CbIffStored' /\ ClockRead'
    BY <2>1, <2>2
  <2>4. StartInPast'
    BY <2>2
  <2>5. TypeOK'
    <3>1. taken' \in [Timers -> 0..2]
      BY <2>2
    <3>2. /\ m_next' \in [Timers -> Int] /\ nowMs' \in [Waiters -> Nat]
          /\ waiter' \in [Waiters -> IdlePlaces \cup {"outside"}]
      BY <2>2 DEF IdlePlaces
    <3>3. m_cb' \subseteq made' /\ inserting' \subseteq m_cb' /\ m_timers' \subseteq made'
      BY <2>1, <2>2
    <3> QED BY <2>2, <3>1, <3>2, <3>3 DEF notifyVars, waitVars
  <2> QED BY <2>3, <2>4, <2>5
<1>11. ASSUME NEW w \in Waiters, EnterIdle(w) \/ LeaveIdle(w)
       PROVE  TypeOK' /\ CbIffStored' /\ StartInPast' /\ ClockRead'
  <2>1. \E q \in {"awake", "outside"} : waiter' = [waiter EXCEPT ![w] = q]
    BY <1>11 DEF EnterIdle, LeaveIdle
  <2>2. UNCHANGED <<now, timerVars, waitVars, nowMs, notifyVars, late>>
    BY <1>11 DEF EnterIdle, LeaveIdle
  <2> QED BY <2>1, <2>2 DEF timerVars, waitVars, notifyVars, IdlePlaces
<1>12. CASE UNCHANGED vars
  BY <1>12 DEF vars
<1> QED
  BY <1>1, <1>2, <1>3, <1>4, <1>5, <1>6, <1>7, <1>8, <1>9, <1>10, <1>11, <1>12
  DEF Next, WaiterStep


\* OneShotOnce carries over a step: only ListExpiredCb collects, and only
\* timers that have their callback.
LEMMA StepOneShot ==
  IInv /\ [Next]_vars => OneShotOnce' /\ UnmadeUntaken'
<1> SUFFICES ASSUME IInv, [Next]_vars
             PROVE  OneShotOnce' /\ UnmadeUntaken'
  OBVIOUS
<1> USE DEF IInv, TypeOK, OneShotOnce, UnmadeUntaken
<1>1. ASSUME NEW t \in Timers, NEW ms \in Periods, NEW b \in BOOLEAN, Construct(t, ms, b)
      PROVE  OneShotOnce' /\ UnmadeUntaken'
  BY <1>1 DEF Construct
<1>2. ASSUME NEW w \in Waiters, ListExpiredCb(w)
      PROVE  OneShotOnce' /\ UnmadeUntaken'
  <2> DEFINE due == Expired(nowMs[w])
             again == AfterExpiry(nowMs[w])
  <2>1. /\ due \subseteq m_cb
        /\ \A t \in due : t \in again <=> m_recurring[t]
    BY DEF Expired, AfterExpiry, CbIffStored
  <2>2. /\ taken' = [t \in Timers |->
                    IF t \in due /\ taken[t] < 2 THEN taken[t] + 1 ELSE taken[t]]
        /\ m_cb' = m_cb \ (due \ again)
        /\ m_recurring' = m_recurring /\ made' = made
    BY <1>2 DEF ListExpiredCb
  <2> HIDE DEF due, again
  <2> QED BY <2>1, <2>2
<1>3. ASSUME NEW t \in Timers, Cancel(t)
      PROVE  OneShotOnce' /\ UnmadeUntaken'
  BY <1>3 DEF Cancel
<1>4. CASE UNCHANGED <<taken, m_cb, m_recurring, made>>
  BY <1>4
<1>5. \/ UNCHANGED <<taken, m_cb, m_recurring, made>>
      \/ \E t \in Timers : Cancel(t) \/ \E ms \in Periods, b \in BOOLEAN : Construct(t, ms, b)
      \/ \E w \in Waiters : ListExpiredCb(w)
  BY DEF Next, WaiterStep, vars, Tick, Reset, AddTimer, Notify, Write, Refresh, EnterIdle,
         GetNextTimer, WakeUp, LeaveIdle, timerVars
<1> QED BY <1>1, <1>2, <1>3, <1>4, <1>5

\* A wait stays in time over a step that leaves it alone and makes no stored
\* timer due earlier, except those it counts as late.
LEMMA StaysInTime ==
  ASSUME IInv, UNCHANGED <<waiter, timeout, readAt>>,
         m_next' \in [Timers -> Int],
         \A w \in Waiters : waiter[w] = "asleep" => late[w] \subseteq late'[w],
         \A w \in Waiters : waiter[w] = "asleep" =>
           \A t \in m_timers' \ late'[w] : t \in m_timers /\ m_next[t] <= m_next'[t]
  PROVE  FrontCovered'
<1> SUFFICES ASSUME NEW w \in Waiters, waiter[w] = "asleep" PROVE WaitInTime(w)'
  BY DEF FrontCovered
<1>1. WaitInTime(w) /\ timeout[w] \in Int /\ readAt[w] \in Int
      /\ \A t \in m_timers : m_next[t] \in Int /\ m_next'[t] \in Int
  BY DEF IInv, FrontCovered, TypeOK, WaitInTime
<1>2. CASE timeout[w] = 0
  BY <1>1, <1>2 DEF WaitInTime
<1>3. CASE timeout[w] # 0
  <2>1. ASSUME NEW t \in m_timers' \ late'[w] PROVE readAt[w] + timeout[w] <= m_next'[t]
    <3>1. t \in m_timers \ late[w] /\ m_next[t] <= m_next'[t]
      OBVIOUS
    <3>2. readAt[w] + timeout[w] <= m_next[t]
      BY <1>1, <1>3, <3>1 DEF WaitInTime
    <3> QED BY <1>1, <3>1, <3>2
  <2> QED BY <1>1, <2>1 DEF WaitInTime
<1> QED BY <1>2, <1>3

\* No step makes a wait outlast a deadline that its thread could know of.
LEMMA StepCovered == IInv /\ [Next]_vars => FrontCovered'
<1> SUFFICES ASSUME IInv, [Next]_vars PROVE FrontCovered'
  OBVIOUS
<1>0. /\ m_next \in [Timers -> Int] /\ now \in Nat /\ m_timers \subseteq made
      /\ made \subseteq Timers /\ late \in [Waiters -> SUBSET Timers]
  BY DEF IInv, TypeOK
<1>1. CASE UNCHANGED <<waiter, timeout, readAt, late, m_next>> /\ m_timers' \subseteq m_timers
  BY <1>0, <1>1, StaysInTime
<1>2. ASSUME NEW t \in Timers, NEW ms \in Periods, NEW b \in BOOLEAN, Construct(t, ms, b)
      PROVE  FrontCovered'
  <2>1. m_next' \in [Timers -> Int] /\ \A u \in m_timers : m_next'[u] = m_next[u]
    BY <1>0, <1>2, TimerAssumption DEF Construct
  <2>2. UNCHANGED <<waiter, timeout, readAt, late, m_timers>>
    BY <1>2 DEF Construct, waiterVars
  <2> QED BY <1>0, <2>1, <2>2, StaysInTime
<1>3. ASSUME NEW t \in Timers, NEW next \in Int, Insert(t, next),
             m_next' = [m_next EXCEPT ![t] = next], UNCHANGED waiterVars
      PROVE  FrontCovered'
  <2>1. \A w \in Waiters : waiter[w] = "asleep" => late'[w] = late[w] \cup {t}
    BY <1>3 DEF Insert, StoredDuringWait
  <2>2. m_timers' = m_timers \cup {t} /\ UNCHANGED <<waiter, timeout, readAt>>
    BY <1>3 DEF Insert, waiterVars
  <2>3. m_next' \in [Timers -> Int] /\ \A u \in m_timers \ {t} : m_next'[u] = m_next[u]
    BY <1>0, <1>3
  <2> QED BY <1>0, <2>1, <2>2, <2>3, StaysInTime
<1>4. ASSUME NEW t \in Timers, NEW ms \in Periods, NEW b \in BOOLEAN, Reset(t, ms, b)
      PROVE  FrontCovered'
  <2>1. ResetStart(t, b) + ms \in Int
    BY <1>0, <1>4, TimerAssumption DEF Reset, ResetStart, IInv, TypeOK
  <2> QED BY <1>3, <1>4, <2>1 DEF Reset
<1>5. ASSUME NEW t \in Timers, AddTimer(t) PROVE FrontCovered'
  <2>1. m_next' = [m_next EXCEPT ![t] = m_next[t]] /\ m_next[t] \in Int
    BY <1>0, <1>5 DEF AddTimer
  <2> QED BY <1>3, <1>5, <2>1 DEF AddTimer
<1>6. ASSUME NEW t \in Timers, Refresh(t) PROVE FrontCovered'
  <2>1. m_next[t] <= now + m_ms[t] /\ now + m_ms[t] \in Int
    BY <1>0, <1>6 DEF Refresh, Returned, IInv, StartInPast, TypeOK
  <2>2. m_next' \in [Timers -> Int] /\ \A u \in m_timers : m_next[u] <= m_next'[u]
    BY <1>0, <1>6, <2>1 DEF Refresh
  <2>3. UNCHANGED <<waiter, timeout, readAt, late, m_timers>>
    BY <1>6 DEF Refresh, waiterVars
  <2> QED BY <1>0, <2>2, <2>3, StaysInTime
<1>7. ASSUME NEW w \in Waiters, GetNextTimer(w) PROVE FrontCovered'
  <2>1. /\ \A u \in Waiters \ {w} : waiter'[u] = waiter[u] /\ timeout'[u] = timeout[u]
                                      /\ readAt'[u] = readAt[u] /\ late'[u] = late[u]
        /\ UNCHANGED <<m_timers, m_next>>
    <3>1. PICK d : timeout' = [timeout EXCEPT ![w] = d]
      BY <1>7 DEF GetNextTimer, NextTimeout
    <3>2. DOMAIN timeout = Waiters /\ DOMAIN waiter = Waiters /\ DOMAIN readAt = Waiters
      BY DEF IInv, TypeOK
    <3> QED BY <1>0, <1>7, <3>1, <3>2 DEF GetNextTimer, timerVars
  <2>2. readAt'[w] = now /\ late'[w] = {}
    BY <1>7 DEF GetNextTimer, IInv, TypeOK
  <2>3. WaitInTime(w)'
    <3>1. TypeOK
      BY DEF IInv
    <3>2. CASE m_timers = {} /\ timeout' = [timeout EXCEPT ![w] = Capped(Never)]
      <4>1. timeout'[w] = Capped(Never)
        BY <3>1, <3>2 DEF TypeOK
      <4> QED BY <2>1, <3>1, <3>2, <4>1, TimerLengths DEF WaitInTime
    <3>3. ASSUME NEW t \in m_timers, First(t),
                 timeout' = [timeout EXCEPT ![w] = Capped(TimeLeft(t))]
          PROVE  WaitInTime(w)'
      <4>1. timeout'[w] = Capped(TimeLeft(t))
        BY <3>1, <3>3 DEF TypeOK
      <4>2. /\ timeout'[w] \in 0 .. MaxTimeout
            /\ timeout'[w] = 0 \/ now + timeout'[w] <= m_next[t]
        BY <3>1, <4>1, TimerLengths
      <4>3. ASSUME NEW u \in m_timers, timeout'[w] # 0 PROVE now + timeout'[w] <= m_next[u]
        BY <1>0, <3>3, <4>2, <4>3, TimerAssumption DEF First
      <4> QED BY <2>1, <2>2, <4>2, <4>3 DEF WaitInTime
    <3> QED BY <1>7, <3>2, <3>3 DEF GetNextTimer, NextTimeout
  <2>4. ASSUME NEW u \in Waiters \ {w}, waiter'[u] = "asleep" PROVE WaitInTime(u)'
    BY <2>1, <2>4 DEF IInv, FrontCovered, WaitInTime
  <2> QED BY <2>3, <2>4 DEF FrontCovered
<1>8. ASSUME NEW w \in Waiters, WakeUp(w) \/ EnterIdle(w) \/ LeaveIdle(w)
      PROVE  FrontCovered'
  <2>1. /\ waiter'[w] # "asleep" /\ UNCHANGED <<m_timers, m_next>>
        /\ \A u \in Waiters \ {w} : waiter'[u] = waiter[u] /\ timeout'[u] = timeout[u]
                                      /\ readAt'[u] = readAt[u] /\ late'[u] = late[u]
    BY <1>8 DEF WakeUp, EnterIdle, LeaveIdle, IInv, TypeOK, timerVars, waitVars
  <2> QED BY <2>1 DEF IInv, FrontCovered, WaitInTime
<1>9. ASSUME NEW w \in Waiters, ListExpiredCb(w) PROVE FrontCovered'
  <2> DEFINE due == Expired(nowMs[w])
             again == AfterExpiry(nowMs[w])
  <2>1. again \subseteq due /\ due \subseteq m_timers /\ \A t \in due : m_next[t] <= nowMs[w]
    BY DEF Expired, AfterExpiry
  <2>2. /\ m_timers' = (m_timers \ due) \cup again
        /\ m_next' = [t \in Timers |-> IF t \in again THEN nowMs[w] + m_ms[t] ELSE m_next[t]]
        /\ waiter' = [waiter EXCEPT ![w] = "leaving"] /\ UNCHANGED <<timeout, readAt, late>>
    BY <1>9 DEF ListExpiredCb, waitVars
  <2> HIDE DEF due, again
  <2>3. nowMs[w] \in Nat /\ m_ms \in [Timers -> Nat]
    BY DEF IInv, TypeOK
  <2>4. \A t \in m_timers' : t \in m_timers /\ m_next[t] <= m_next'[t] /\ m_next'[t] \in Int
    BY <1>0, <2>1, <2>2, <2>3
  <2>5. ASSUME NEW u \in Waiters, waiter'[u] = "asleep" PROVE WaitInTime(u)'
    <3>1. waiter[u] = "asleep"
      BY <2>2, <2>5 DEF IInv, TypeOK
    <3>2. WaitInTime(u) /\ timeout[u] \in Int /\ readAt[u] \in Int
      BY <3>1 DEF IInv, FrontCovered, TypeOK, WaitInTime
    <3>3. ASSUME NEW t \in m_timers' \ late[u], timeout[u] # 0
          PROVE  readAt[u] + timeout[u] <= m_next'[t]
      <4>1. t \in m_timers \ late[u] /\ m_next[t] \in Int /\ m_next[t] <= m_next'[t]
            /\ m_next'[t] \in Int
        BY <1>0, <2>4
      <4>2. readAt[u] + timeout[u] <= m_next[t]
        BY <3>2, <3>3, <4>1 DEF WaitInTime
      <4> QED BY <3>2, <4>1, <4>2
    <3> QED BY <2>2, <3>2, <3>3 DEF WaitInTime
  <2> QED BY <2>5 DEF FrontCovered
<1>10. \/ UNCHANGED <<waiter, timeout, readAt, late, m_next>> /\ m_timers' \subseteq m_timers
       \/ \E t \in Timers : AddTimer(t) \/ Refresh(t)
            \/ \E ms \in Periods, b \in BOOLEAN : Construct(t, ms, b) \/ Reset(t, ms, b)
       \/ \E w \in Waiters : GetNextTimer(w) \/ WakeUp(w) \/ EnterIdle(w) \/ LeaveIdle(w)
                              \/ ListExpiredCb(w)
  BY DEF Next, WaiterStep, vars, Tick, Notify, Write, Cancel, Erase, timerVars, waiterVars
<1> QED
  BY <1>1, <1>2, <1>4, <1>5, <1>6, <1>7, <1>8, <1>9, <1>10

\* IInv is an invariant of the timers: Timer and TimerManager as coded keep
\* it for any number of timers, waiting threads and periods.
THEOREM Invariance == Spec => []IInv
<1>1. IInv /\ [Next]_vars => IInv'
  BY StepStorage, StepOneShot, StepCovered DEF IInv
<1> QED BY InitIInv, <1>1, PTL DEF Spec

\* Every variable keeps its type.
THEOREM TypeCorrect == Spec => []TypeOK
<1>1. IInv => TypeOK
  BY DEF IInv
<1> QED BY Invariance, <1>1, PTL

\* cancel()'s erase(find(this)) always has something to erase, a cancelled or
\* spent timer is never collected, and a one-shot is collected once at most.
THEOREM CallbacksCorrect == Spec => []CallbacksExact
<1>1. IInv => CallbacksExact
  BY DEF IInv, CallbacksExact
<1> QED BY Invariance, <1>1, PTL

\* reset()'s m_next - m_ms never wraps and is never in the future.
THEOREM StartsInPast == Spec => []StartInPast
<1>1. IInv => StartInPast
  BY DEF IInv
<1> QED BY Invariance, <1>1, PTL

\* idle()'s waits are never longer than MAX_TIMEOUT, and outlast only deadlines
\* of timers that addTimer has stored since the wait was computed: nothing wakes
\* the thread for those, but no refresh(), recurrence or collector adds others.
THEOREM FirstDeadlineCovered == Spec => []FrontCovered
<1>1. IInv => FrontCovered
  BY DEF IInv
<1> QED BY Invariance, <1>1, PTL

\* No callback is collected before its deadline.
THEOREM NeverEarly == Spec => NoEarlyFire
<1>1. IInv /\ [Next]_vars
        => [\A t \in Timers : taken'[t] # taken[t] => m_next[t] <= now]_vars
  <2> SUFFICES ASSUME IInv, [Next]_vars
               PROVE  \/ \A t \in Timers : taken'[t] # taken[t] => m_next[t] <= now
                      \/ UNCHANGED vars
    OBVIOUS
  <2>1. ASSUME NEW w \in Waiters, ListExpiredCb(w), NEW t \in Timers, taken'[t] # taken[t]
        PROVE  m_next[t] <= now
    <3>1. t \in Expired(nowMs[w])
      BY <2>1 DEF ListExpiredCb
    <3>2. nowMs[w] \in Nat /\ now \in Nat /\ nowMs[w] <= now
      BY DEF IInv, TypeOK, ClockRead
    <3>3. m_next[t] \in Int /\ m_next[t] <= nowMs[w]
      BY <3>1 DEF Expired, IInv, TypeOK
    <3> QED BY <3>2, <3>3
  <2>2. \/ UNCHANGED taken
        \/ \E w \in Waiters : ListExpiredCb(w)
    BY DEF Next, WaiterStep, vars, Tick, Construct, Cancel, Reset, AddTimer, Notify, Write,
           Refresh, EnterIdle, GetNextTimer, WakeUp, LeaveIdle, timerVars
  <2> QED BY <2>1, <2>2
<1> QED BY Invariance, <1>1, PTL DEF Spec, NoEarlyFire

=============================================================================
