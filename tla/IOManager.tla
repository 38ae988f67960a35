----------------------------- MODULE IOManager -----------------------------
(***************************************************************************)
(* The epoll scheduler: common/iomanager.{h,cpp} over Scheduler (its run   *)
(* loop and yields are module Scheduler's subject and are coarse here) and *)
(* TimerManager (only which tasks have a timer, and which are due).        *)
(* A section under fd_ctx->mutex or Scheduler::m_mutex is one step.  The   *)
(* three reads of stopping(timeout), epoll_wait, listExpiredCb, the batch  *)
(* schedule and each reported event are steps of their own.                *)
(***************************************************************************)
EXTENDS Integers, FiniteSets

CONSTANTS
  Threads,     \* workers, each in Scheduler::run
  Tasks,       \* fibers and callbacks
  None,
  Fds,
  Watch,       \* what each task may register for: a set of <<fd, event>>
  Signals,     \* what the kernel may report for a descriptor
  MaxRuns      \* bound on the times one task is run

Events == {"READ", "WRITE"}

ASSUME IOAssumption ==
  /\ IsFiniteSet(Threads) /\ Threads # {}
  /\ IsFiniteSet(Fds) /\ IsFiniteSet(Tasks) /\ None \notin Tasks
  /\ Watch \in [Tasks -> SUBSET (Fds \X Events)]
  /\ Signals \subseteq {"READ", "WRITE", "HUP"}
  /\ MaxRuns \in Nat \ {0}

VARIABLES
  events,               \* fd_ctx->events
  context,              \* the fiber or cb of each EventContext
  m_pendingEventCount,
  timers, due,          \* tasks with a stored timer; those whose time has come
  queue,                \* m_fibers
  place,                \* of a task: new, queued, running, parked, dropped, over
  runs,                 \* times a task may still be run
  active, idle,         \* m_activeThreadCount, m_idleThreadCount
  stop,                 \* stop() was called: m_stopping and m_autoStop
  pipe,                 \* m_tickleFds holds a byte
  signal,               \* edges the kernel has not reported yet
  pc, task,             \* each worker's place and the task it runs
  report,               \* what epoll_wait returned and is not handled yet
  expired,              \* cbs of idle(), collected and not scheduled yet
  idleTerm,             \* threads whose idle fiber is TERM
  stranded,             \* history: tasks last parked by such a thread
  fault                 \* "none", or the assertion that aborted the process

fdVars    == <<events, context, m_pendingEventCount>>
timerVars == <<timers, due>>
countVars == <<active, idle>>
localVars == <<report, expired>>
termVars  == <<idleTerm, stranded>>
vars == <<events, context, m_pendingEventCount, timers, due, queue, place, runs,
          active, idle, stop, pipe, signal, pc, task, report, expired, idleTerm,
          stranded, fault>>

Init ==
  /\ events = [fd \in Fds |-> {}]
  /\ context = [fd \in Fds |-> [e \in Events |-> None]]
  /\ m_pendingEventCount = 0
  /\ timers = {} /\ due = {} /\ queue = {}
  /\ place = [f \in Tasks |-> "new"] /\ runs = [f \in Tasks |-> MaxRuns]
  /\ active = 0 /\ idle = 0 /\ stop = FALSE
  /\ pipe = FALSE /\ signal = [fd \in Fds |-> {}]
  /\ pc = [t \in Threads |-> "fetch"] /\ task = [t \in Threads |-> None]
  /\ report = [t \in Threads |-> {}] /\ expired = [t \in Threads |-> {}]
  /\ idleTerm = {} /\ stranded = {}
  /\ fault = "none"

-----------------------------------------------------------------------------
At(t, where) == fault = "none" /\ pc[t] = where
Goto(t, where) == pc' = [pc EXCEPT ![t] = where]

\* tickle() returns without writing when a thread is idle.
TickleWrites == idle = 0

\* schedule() of the tasks in S: a tickle when the list was empty.
Schedule(S) ==
  /\ queue' = queue \cup S
  /\ pipe' = (pipe \/ (S # {} /\ queue = {} /\ TickleWrites))

Move(S, where) == place' = [f \in Tasks |-> IF f \in S THEN where ELSE place[f]]

\* triggerEvent for the events E of fd, each followed by --m_pendingEventCount.
\* Its assertion needs every one of them to be registered.
CountDownForgotten(n) == UNCHANGED m_pendingEventCount
CountDown(n) == m_pendingEventCount' = m_pendingEventCount - n

ClearContextForgotten(fd, E) == UNCHANGED context
ClearContext(fd, E) ==
  context' = [context EXCEPT ![fd] = [e \in Events |-> IF e \in E THEN None ELSE @[e]]]

Trigger(fd, E) ==
  IF E \subseteq events[fd]
    THEN LET woken == {context[fd][e] : e \in E} IN
         /\ events' = [events EXCEPT ![fd] = @ \ E]
         /\ ClearContext(fd, E)
         /\ CountDown(Cardinality(E))
         /\ Schedule(woken) /\ Move(woken, "queued")
         /\ UNCHANGED fault
    ELSE /\ fault' = "triggerEvent: events & event"
         /\ UNCHANGED <<fdVars, queue, pipe, place>>

-----------------------------------------------------------------------------
(* run(), seen from here: take a task, run it, go idle when there is none. *)

Fetch(t) ==
  /\ At(t, "fetch")
  /\ \E f \in queue :
       /\ queue' = queue \ {f} /\ task' = [task EXCEPT ![t] = f]
       /\ place' = [place EXCEPT ![f] = "running"]
       /\ runs' = [runs EXCEPT ![f] = @ - 1]
  /\ active' = active + 1 /\ Goto(t, "busy")
  /\ UNCHANGED <<fdVars, timerVars, idle, stop, pipe, signal, localVars, termVars, fault>>

\* The task leaves the thread: it has ended, or it has parked.
LeaveTaskStillActive(t, where) ==
  /\ place' = [place EXCEPT ![task[t]] = where]
  /\ task' = [task EXCEPT ![t] = None]
  /\ UNCHANGED active /\ Goto(t, "fetch")

LeaveTask(t, where) ==
  /\ place' = [place EXCEPT ![task[t]] = where]
  /\ task' = [task EXCEPT ![t] = None]
  /\ active' = active - 1 /\ Goto(t, "fetch")

EndTask(t) ==
  /\ At(t, "busy") /\ LeaveTask(t, "over")
  /\ UNCHANGED <<fdVars, timerVars, queue, runs, idle, stop, pipe, signal, localVars,
                 termVars, fault>>

\* f waits from now on, put there by thread t.
WaitsFrom(t, f) ==
  stranded' = IF t \in idleTerm THEN stranded \cup {f} ELSE stranded \ {f}

\* addEvent, both forms.  epoll_ctl succeeds here and below: the descriptors
\* of this module stay open (a refused call returns without any change).
Register(fd, e, f) ==
  /\ m_pendingEventCount' = m_pendingEventCount + 1
  /\ events' = [events EXCEPT ![fd] = @ \cup {e}]
  /\ context' = [context EXCEPT ![fd][e] = f]

AddEventFault(fd, e) ==
  CASE e \in events[fd]         -> "addEvent: !(events & event)"
    [] context[fd][e] # None    -> "addEvent: context not empty"
    [] OTHER                    -> "none"

\* A fiber registers itself and yields, as do_io does.
AddEventAndPark(t, fd, e) ==
  /\ At(t, "busy") /\ <<fd, e>> \in Watch[task[t]] /\ runs[task[t]] > 0
  /\ fault' = AddEventFault(fd, e)
  /\ Register(fd, e, task[t])
  /\ LeaveTask(t, "parked") /\ WaitsFrom(t, task[t])
  /\ UNCHANGED <<timerVars, queue, runs, idle, stop, pipe, signal, localVars, idleTerm>>

\* A task registers a callback g and goes on.
AddEventCb(t, g, fd, e) ==
  /\ At(t, "busy") /\ place[g] = "new" /\ <<fd, e>> \in Watch[g]
  /\ fault' = AddEventFault(fd, e)
  /\ Register(fd, e, g)
  /\ place' = [place EXCEPT ![g] = "parked"] /\ WaitsFrom(t, g)
  /\ UNCHANGED <<timerVars, queue, runs, countVars, stop, pipe, signal, pc,
                 task, localVars, idleTerm>>

\* A hooked sleep: a timer that schedules the fiber, then a yield.  When it
\* is the first to expire, onTimerInsertedAtFront tickles.
AddTimerAndPark(t) ==
  /\ At(t, "busy") /\ runs[task[t]] > 0
  /\ timers' = timers \cup {task[t]}
  /\ \E atFront \in BOOLEAN : pipe' = (pipe \/ (atFront /\ TickleWrites))
  /\ LeaveTask(t, "parked") /\ WaitsFrom(t, task[t])
  /\ UNCHANGED <<fdVars, due, queue, runs, idle, stop, signal, localVars, idleTerm, fault>>

DelEvent(t, fd, e) ==
  /\ At(t, "busy") /\ e \in events[fd]
  /\ place' = [place EXCEPT ![context[fd][e]] = "dropped"]
  /\ events' = [events EXCEPT ![fd] = @ \ {e}]
  /\ ClearContext(fd, {e})
  /\ CountDown(1)
  /\ UNCHANGED <<timerVars, queue, runs, countVars, stop, pipe, signal, pc,
                 task, localVars, termVars, fault>>

CancelEvent(t, fd, e) ==
  /\ At(t, "busy") /\ e \in events[fd]
  /\ Trigger(fd, {e})
  /\ UNCHANGED <<timerVars, runs, countVars, stop, signal, pc, task, localVars,
                 termVars>>

CancelAll(t, fd) ==
  /\ At(t, "busy") /\ events[fd] # {}
  /\ Trigger(fd, events[fd])
  /\ UNCHANGED <<timerVars, runs, countVars, stop, signal, pc, task, localVars,
                 termVars>>

-----------------------------------------------------------------------------
(* idle(): stopping(timeout), epoll_wait, timers, events. *)

EnterIdle(t) ==
  /\ At(t, "fetch") /\ queue = {} /\ t \notin idleTerm
  /\ idle' = idle + 1 /\ Goto(t, "stop?timers")
  /\ UNCHANGED <<fdVars, timerVars, queue, place, runs, active, stop, pipe,
                 signal, task, localVars, termVars, fault>>

\* getNextTimer() == ~0ull
NoTimerIgnored == TRUE
NoTimer == timers = {}

\* timeout == ~0ull && m_pendingEventCount == 0 && Scheduler::stopping(),
\* left to right, each read at its own time.
SchedulerStopping == stop /\ queue = {} /\ active = 0

StoppingRead(t) ==
  /\ \/ /\ At(t, "stop?timers")
        /\ Goto(t, IF NoTimer THEN "stop?pending" ELSE "wait")
     \/ /\ At(t, "stop?pending")
        /\ Goto(t, IF m_pendingEventCount = 0 THEN "stop?queue" ELSE "wait")
     \/ /\ At(t, "stop?queue")
        /\ Goto(t, IF SchedulerStopping THEN "leave" ELSE "wait")
  /\ UNCHANGED <<fdVars, timerVars, queue, place, runs, countVars, stop, pipe,
                 signal, task, localVars, termVars, fault>>

\* The level-independent part of the kernel: an edge is reported once, to
\* one thread, for the events registered at that time (HUP always).
Reported(fd) ==
  IF events[fd] = {} THEN {} ELSE signal[fd] \cap (events[fd] \cup {"HUP"})

\* The pipe's own epoll entry (data.fd == m_tickleFds[0]).
TickleEntry == [fd |-> None, evs |-> {}]

Returned ==
  {[fd |-> fd, evs |-> Reported(fd)] : fd \in {x \in Fds : Reported(x) # {}}}
    \cup (IF pipe THEN {TickleEntry} ELSE {})

\* epoll_wait returns what is there; with nothing it is the timeout, which
\* is at most MAX_TIMEOUT.
EpollReturn(t) ==
  /\ report' = [report EXCEPT ![t] = Returned]
  /\ signal' = [fd \in Fds |-> signal[fd] \ Reported(fd)]
  /\ Goto(t, "expired")
  /\ UNCHANGED <<fdVars, timerVars, queue, place, runs, countVars, stop, pipe,
                 task, expired, termVars, fault>>

EpollWaitForEver(t) == At(t, "wait") /\ Returned # {} /\ EpollReturn(t)
EpollWait(t) == At(t, "wait") /\ EpollReturn(t)

ListExpired(t) ==
  /\ At(t, "expired")
  /\ expired' = [expired EXCEPT ![t] = due]
  /\ timers' = timers \ due /\ due' = {}
  /\ Goto(t, "schedule")
  /\ UNCHANGED <<fdVars, queue, place, runs, countVars, stop, pipe, signal, task,
                 report, termVars, fault>>

ScheduleExpiredForgotten(t) ==
  /\ At(t, "schedule")
  /\ expired' = [expired EXCEPT ![t] = {}] /\ Goto(t, "events")
  /\ UNCHANGED <<fdVars, timerVars, queue, pipe, place, runs, countVars, stop,
                 signal, task, report, termVars, fault>>

ScheduleExpired(t) ==
  /\ At(t, "schedule")
  /\ Schedule(expired[t]) /\ Move(expired[t], "queued")
  /\ expired' = [expired EXCEPT ![t] = {}]
  /\ Goto(t, "events")
  /\ UNCHANGED <<fdVars, timerVars, runs, countVars, stop, signal, task, report,
                 termVars, fault>>

\* An error or hang-up counts as both events; the event is passed over only
\* when none of real_events is registered any more.
RealEvents(evs) == IF "HUP" \in evs THEN Events ELSE evs

StillWantedUnchecked(r) == TRUE
StillWanted(r) == events[r.fd] \cap RealEvents(r.evs) # {}

Handled(t, r) == [report EXCEPT ![t] = @ \ {r}]

HandleEvent(t) ==
  /\ At(t, "events")
  /\ \E r \in report[t] \ {TickleEntry} :
       IF StillWanted(r)
         THEN /\ Trigger(r.fd, RealEvents(r.evs))
              /\ report' = IF fault' = "none" THEN Handled(t, r) ELSE report
         ELSE report' = Handled(t, r) /\ UNCHANGED <<fdVars, queue, pipe, place, fault>>
  /\ UNCHANGED <<timerVars, runs, countVars, stop, signal, pc, task, expired, termVars>>

\* The pipe is read until it is empty.
HandleTickle(t) ==
  /\ At(t, "events") /\ TickleEntry \in report[t]
  /\ report' = Handled(t, TickleEntry)
  /\ pipe' = FALSE
  /\ UNCHANGED <<fdVars, timerVars, queue, place, runs, countVars, stop, signal,
                 pc, task, expired, termVars, fault>>

\* swapOut back to run(); after stopping() the idle fiber ends and is TERM.
LeaveIdle(t) ==
  /\ \/ At(t, "events") /\ report[t] = {} /\ UNCHANGED idleTerm
     \/ At(t, "leave") /\ idleTerm' = idleTerm \cup {t}
  /\ idle' = idle - 1 /\ Goto(t, "fetch")
  /\ UNCHANGED <<fdVars, timerVars, queue, place, runs, active, stop, pipe,
                 signal, task, localVars, stranded, fault>>

\* A thread whose idle fiber is TERM still runs tasks, but leaves at the next
\* empty list without asking stopping() again.
Exit(t) ==
  /\ At(t, "fetch") /\ queue = {} /\ t \in idleTerm
  /\ Goto(t, "done")
  /\ UNCHANGED <<fdVars, timerVars, queue, place, runs, countVars, stop, pipe,
                 signal, task, localVars, termVars, fault>>

-----------------------------------------------------------------------------
(* The owner and the kernel. *)

OwnerSchedule(f) ==
  /\ fault = "none" /\ ~stop /\ place[f] = "new" /\ runs[f] > 0
  /\ Schedule({f}) /\ Move({f}, "queued")
  /\ UNCHANGED <<fdVars, timerVars, runs, countVars, stop, signal, pc, task, localVars,
                 termVars, fault>>

Stop ==
  /\ fault = "none" /\ ~stop /\ stop' = TRUE
  /\ pipe' = (pipe \/ TickleWrites)
  /\ UNCHANGED <<fdVars, timerVars, queue, place, runs, countVars, signal, pc,
                 task, localVars, termVars, fault>>

TimerDue(f) ==
  /\ fault = "none" /\ f \in timers \ due
  /\ due' = due \cup {f}
  /\ UNCHANGED <<fdVars, timers, queue, place, runs, countVars, stop, pipe,
                 signal, pc, task, localVars, termVars, fault>>

KernelSignal(fd, sig) ==
  /\ fault = "none" /\ events[fd] # {} /\ sig \notin signal[fd]
  /\ signal' = [signal EXCEPT ![fd] = @ \cup {sig}]
  /\ UNCHANGED <<fdVars, timerVars, queue, place, runs, countVars, stop, pipe,
                 pc, task, localVars, termVars, fault>>

-----------------------------------------------------------------------------
TaskStep(t) ==
  \/ EndTask(t) \/ AddTimerAndPark(t)
  \/ \E fd \in Fds, e \in Events :
       \/ AddEventAndPark(t, fd, e) \/ DelEvent(t, fd, e) \/ CancelEvent(t, fd, e)
       \/ \E g \in Tasks : AddEventCb(t, g, fd, e)
  \/ \E fd \in Fds : CancelAll(t, fd)

WorkerStep(t) ==
  \/ Fetch(t) \/ EnterIdle(t) \/ StoppingRead(t) \/ EpollWait(t)
  \/ ListExpired(t) \/ ScheduleExpired(t) \/ HandleEvent(t)
  \/ HandleTickle(t) \/ LeaveIdle(t) \/ Exit(t)

Next ==
  \/ \E t \in Threads : WorkerStep(t) \/ TaskStep(t)
  \/ \E f \in Tasks : OwnerSchedule(f) \/ TimerDue(f)
  \/ Stop
  \/ \E fd \in Fds, sig \in Signals : KernelSignal(fd, sig)

\* Threads run and tasks end or park, timers come due, and a descriptor with
\* a registered event eventually signals it (its peer answers or hangs up).
Fairness ==
  /\ \A t \in Threads : WF_vars(WorkerStep(t)) /\ WF_vars(EndTask(t))
  /\ \A f \in Tasks : WF_vars(TimerDue(f))
  /\ \A fd \in Fds, sig \in Signals : WF_vars(KernelSignal(fd, sig))

Spec == Init /\ [][Next]_vars
FairSpec == Spec /\ Fairness

-----------------------------------------------------------------------------
(* Properties *)

Places == {"new", "queued", "running", "parked", "dropped", "over"}
ThreadPlaces == {"fetch", "busy", "stop?timers", "stop?pending", "stop?queue", "wait",
                 "expired", "schedule", "events", "leave", "done"}

\* Members of IOManager and FdContext (iomanager.h 30-78) and the local
\* variables of idle().
TypeOK ==
  /\ events \in [Fds -> SUBSET Events]
  /\ context \in [Fds -> [Events -> Tasks \cup {None}]]
  /\ m_pendingEventCount \in Nat
  /\ due \subseteq timers /\ timers \subseteq Tasks /\ queue \subseteq Tasks
  /\ place \in [Tasks -> Places] /\ runs \in [Tasks -> 0 .. MaxRuns]
  /\ active \in 0 .. Cardinality(Threads) /\ idle \in 0 .. Cardinality(Threads)
  /\ stop \in BOOLEAN /\ pipe \in BOOLEAN
  /\ signal \in [Fds -> SUBSET Signals]
  /\ pc \in [Threads -> ThreadPlaces] /\ task \in [Threads -> Tasks \cup {None}]
  /\ report \in [Threads -> SUBSET [fd : Fds \cup {None}, evs : SUBSET Signals]]
  /\ expired \in [Threads -> SUBSET Tasks]
  /\ idleTerm \subseteq Threads /\ stranded \subseteq Tasks

Registered == {p \in Fds \X Events : p[2] \in events[p[1]]}

\* m_pendingEventCount is the number of registered events after any mix of
\* add, delete, cancel and delivery: stopping() relies on it, and unsigned
\* it must never go below zero.
PendingExact == m_pendingEventCount = Cardinality(Registered)

\* An EventContext is filled exactly for the registered events: addEvent's
\* assertion on an empty context holds, triggerEvent always has a task.
ContextFilled ==
  \A fd \in Fds, e \in Events : e \in events[fd] <=> context[fd][e] # None

\* No assertion of addEvent fails, and triggerEvent's only in one case: idle()
\* handles a report that names both events (or a hang-up, which counts as both)
\* of which by then exactly one is registered.
TornReport(r) ==
  LET wanted == events[r.fd] \cap RealEvents(r.evs)
  IN  wanted # {} /\ wanted # RealEvents(r.evs)

FaultExplained ==
  fault # "none" =>
    /\ fault = "triggerEvent: events & event"
    /\ \E t \in Threads : pc[t] = "events" /\
         \E r \in report[t] \ {TickleEntry} : TornReport(r)

\* Counter, masks and contexts tell the same story at every moment, whatever
\* is reported, and the assertions on them hold but for the case above.
RegistrationsExact == PendingExact /\ ContextFilled /\ FaultExplained

\* The places a parked task can be woken from.
Wakers(f) ==
  {<<"event", p>> : p \in {q \in Fds \X Events : context[q[1]][q[2]] = f}}
    \cup (IF f \in timers THEN {<<"timer">>} ELSE {})
    \cup {<<"expired", t>> : t \in {u \in Threads : f \in expired[u]}}

\* A parked task is known to exactly one waker and no other task to any: no
\* lost and no double wake-up, whichever of delivery and cancel comes first.
OneWaker ==
  \A f \in Tasks : Cardinality(Wakers(f)) = (IF place[f] = "parked" THEN 1 ELSE 0)

\* When the workers have all left, no task is queued or running, and one is
\* parked only if the thread that parked it had ended its idle fiber before:
\* although stopping() reads timers, counter and list at different times, every
\* other task is waited for.
StopComplete ==
  (\A t \in Threads : pc[t] = "done") =>
    \A f \in Tasks :
      place[f] \notin {"queued", "running"} /\ (place[f] = "parked" => f \in stranded)

\* stop() completes: every worker leaves, or an assertion has failed.
StopReturns == stop ~> (fault # "none" \/ \A t \in Threads : pc[t] = "done")

\* A scheduled task is run and a timer that has come due is collected, although
\* tickle() wakes nobody while a thread is idle.  Excepted is a timer stored
\* by a thread whose idle fiber had ended.
QueuedRuns ==
  \A f \in Tasks :
    (f \in queue \cup (due \ stranded)) ~> (f \notin queue \cup due \/ fault # "none")

\* triggerEvent's own assertion: it is called for registered events only.
TriggerAssertion == fault # "triggerEvent: events & event"
=============================================================================
