-------------------------- MODULE IOManagerProofs --------------------------
(***************************************************************************)
(* The safety properties of IOManager hold for any workers, tasks and      *)
(* descriptors.  Two tasks never wait for the same event of a descriptor   *)
(* (addEvent asserts it, its callers see to it): SharedNothing.            *)
(***************************************************************************)
EXTENDS IOManager, FiniteSetTheorems, TLAPS

SharedNothing == \A f, g \in Tasks : Watch[f] \cap Watch[g] # {} => f = g

\* The kernel reports what somebody waits for, and hang-ups.
Watched(fd, e) == \E f \in Tasks : <<fd, e>> \in Watch[f]
Reportable(fd) == {s \in Signals : s = "HUP" \/ Watched(fd, s)}

\* TypeOK without the three counters, whose range follows from what they count.
RegTypes ==
  /\ events \in [Fds -> SUBSET Events]
  /\ context \in [Fds -> [Events -> Tasks \cup {None}]]
TaskTypes ==
  /\ due \subseteq timers /\ timers \subseteq Tasks /\ queue \subseteq Tasks
  /\ place \in [Tasks -> Places] /\ runs \in [Tasks -> 0 .. MaxRuns]
ThreadTypes ==
  /\ stop \in BOOLEAN /\ pipe \in BOOLEAN
  /\ pc \in [Threads -> ThreadPlaces] /\ task \in [Threads -> Tasks \cup {None}]
  /\ expired \in [Threads -> SUBSET Tasks]
  /\ idleTerm \subseteq Threads /\ stranded \subseteq Tasks
KernelTypes ==
  /\ signal \in [Fds -> SUBSET Signals]
  /\ report \in [Threads -> SUBSET [fd : Fds \cup {None}, evs : SUBSET Signals]]

\* The registered events, as a function of FdContext::events.
RegisteredIn(ev) == {p \in Fds \X Events : p[2] \in ev[p[1]]}
Pending == m_pendingEventCount = Cardinality(RegisteredIn(events))

\* A task can be run again where it is queued or parked.
RunsLeft ==
  \A f \in Tasks :
    /\ place[f] = "new" => runs[f] = MaxRuns
    /\ place[f] \in {"queued", "parked"} => runs[f] > 0

\* The list, the workers and the places of the tasks agree.
PlacesExact ==
  /\ \A f \in Tasks : f \in queue <=> place[f] = "queued"
  /\ \A f \in Tasks : place[f] = "running" => \E t \in Threads : task[t] = f
  /\ \A t \in Threads : task[t] # None => place[task[t]] = "running"
  /\ \A t, u \in Threads : task[t] = task[u] /\ task[t] # None => t = u
  /\ \A t \in Threads : pc[t] = "busy" <=> task[t] # None

\* The three ways to be woken exclude each other.
EventWakes ==
  \A fd \in Fds, e \in Events :
    LET f == context[fd][e] IN f # None =>
      /\ place[f] = "parked" /\ <<fd, e>> \in Watch[f] /\ f \notin timers
      /\ \A t \in Threads : f \notin expired[t]
      /\ \A fd2 \in Fds, e2 \in Events : context[fd2][e2] = f => fd2 = fd /\ e2 = e
TimerWakes ==
  /\ \A f \in timers : place[f] = "parked" /\ \A t \in Threads : f \notin expired[t]
  /\ \A t \in Threads : \A f \in expired[t] :
       /\ place[f] = "parked"
       /\ \A u \in Threads : f \in expired[u] => u = t
ParkedKnown ==
  \A f \in Tasks : place[f] = "parked" =>
    \/ f \in timers \/ \E t \in Threads : f \in expired[t]
    \/ \E fd \in Fds, e \in Events : context[fd][e] = f
ExpiredHeld == \A t \in Threads : expired[t] # {} => pc[t] = "schedule"

\* The two counters.
IdlePlaces == {"stop?timers", "stop?pending", "stop?queue", "wait", "expired", "schedule",
               "events", "leave"}
Inside(where, S) == {t \in Threads : where[t] \in S}
CountsExact ==
  /\ active = Cardinality(Inside(pc, {"busy"}))
  /\ idle = Cardinality(Inside(pc, IdlePlaces))

\* What epoll_wait returned was registered for.
ReportsWatched ==
  \A t \in Threads : \A r \in report[t] :
    r = TickleEntry \/ (r.fd \in Fds /\ r.evs # {} /\ r.evs \subseteq Reportable(r.fd))

FaultsKnown == fault \in {"none", "triggerEvent: events & event"}

\* An idle fiber ends only after stop(), its thread is not idle any more, and
\* a thread leaves only then.
IdleEnds ==
  /\ idleTerm # {} => stop
  /\ \A t \in Threads :
       /\ pc[t] \in {"leave", "done"} => stop
       /\ pc[t] = "done" => t \in idleTerm
       /\ pc[t] \in IdlePlaces => t \notin idleTerm

\* For each of the three things stopping() asks for, some worker is still to
\* ask.  What a thread whose idle fiber is TERM has put there is excepted.
Looking == {"fetch", "busy", "stop?timers", "wait", "expired", "schedule", "events"}
Looks(where) == \E t \in Threads \ idleTerm : pc[t] \in where
Attended ==
  /\ queue # {} => \E t \in Threads : pc[t] # "done"
  /\ timers \subseteq stranded \/ Looks(Looking)
  /\ \/ \A fd \in Fds : \A e \in events[fd] : context[fd][e] \in stranded
     \/ Looks(Looking \cup {"stop?pending"})

\* The inductive invariant.
IInv ==
  /\ RegTypes /\ TaskTypes /\ ThreadTypes /\ KernelTypes
  /\ Pending /\ ContextFilled /\ FaultsKnown /\ RunsLeft /\ PlacesExact
  /\ EventWakes /\ TimerWakes /\ ParkedKnown /\ ExpiredHeld /\ CountsExact
  /\ ReportsWatched /\ IdleEnds /\ Attended

\* One thread that enters a set of places adds one to the number of threads
\* there, one that leaves takes one away.
LEMMA Counting ==
  ASSUME NEW p, NEW q, NEW P, NEW t \in Threads, \A u \in Threads \ {t} : q[u] = p[u]
  PROVE  /\ Cardinality(Inside(p, P)) \in Nat
         /\ Cardinality(Inside(p, P)) <= Cardinality(Threads)
         /\ Cardinality(Inside(q, P)) = Cardinality(Inside(p, P))
              + (IF q[t] \in P THEN 1 ELSE 0) - (IF p[t] \in P THEN 1 ELSE 0)
<1>1. IsFiniteSet(Inside(p, P)) /\ Cardinality(Inside(p, P)) <= Cardinality(Threads)
  BY FS_Subset, IOAssumption DEF Inside
<1>2. Cardinality(Inside(p, P)) \in Nat
  BY <1>1, FS_CardinalityType
<1>3. ASSUME p[t] \notin P, q[t] \in P
      PROVE  Cardinality(Inside(q, P)) = Cardinality(Inside(p, P)) + 1
  <2>1. Inside(q, P) = Inside(p, P) \cup {t} /\ t \notin Inside(p, P)
    BY <1>3 DEF Inside
  <2> QED
    BY <1>1, <2>1, FS_AddElement
<1>4. ASSUME p[t] \in P, q[t] \notin P
      PROVE  Cardinality(Inside(q, P)) = Cardinality(Inside(p, P)) - 1
  <2>1. Inside(q, P) = Inside(p, P) \ {t} /\ t \in Inside(p, P)
    BY <1>4 DEF Inside
  <2> QED
    BY <1>1, <2>1, FS_RemoveElement
<1>5. ASSUME p[t] \in P <=> q[t] \in P PROVE Inside(q, P) = Inside(p, P)
  BY <1>5 DEF Inside
<1> QED
  BY <1>1, <1>2, <1>3, <1>4, <1>5

\* PendingExact in these terms.
LEMMA RegisteredSame == Registered = RegisteredIn(events)
BY DEF Registered, RegisteredIn

\* READ and WRITE are all there is.
LEMMA EventsFinite == IsFiniteSet(Events)
<1>1. IsFiniteSet({"READ"}) /\ Events = {"READ"} \cup {"WRITE"}
  BY FS_Singleton DEF Events
<1> QED
  BY <1>1, FS_AddElement

\* Finitely many events are registered.
LEMMA RegisteredFinite ==
  ASSUME NEW ev
  PROVE  IsFiniteSet(RegisteredIn(ev)) /\ Cardinality(RegisteredIn(ev)) \in Nat
<1>1. IsFiniteSet(Events)
  BY EventsFinite
<1>2. IsFiniteSet(Fds \X Events)
  BY <1>1, FS_Product, IOAssumption
<1>3. RegisteredIn(ev) \subseteq Fds \X Events
  BY DEF RegisteredIn
<1>4. IsFiniteSet(RegisteredIn(ev))
  BY <1>2, <1>3, FS_Subset
<1> QED
  BY <1>4, FS_CardinalityType

\* addEvent adds one to them, triggerEvent and delEvent take the triggered
\* ones away.
LEMMA RegisteredMore ==
  ASSUME NEW ev \in [Fds -> SUBSET Events], NEW fd \in Fds, NEW e \in Events,
         e \notin ev[fd]
  PROVE  Cardinality(RegisteredIn([ev EXCEPT ![fd] = @ \cup {e}]))
           = Cardinality(RegisteredIn(ev)) + 1
<1> DEFINE ew == [ev EXCEPT ![fd] = @ \cup {e}]
<1>1. RegisteredIn(ew) = RegisteredIn(ev) \cup {<<fd, e>>}
  BY DEF RegisteredIn
<1>2. <<fd, e>> \notin RegisteredIn(ev)
  BY DEF RegisteredIn
<1> HIDE DEF ew
<1>3. Cardinality(RegisteredIn(ew)) = Cardinality(RegisteredIn(ev)) + 1
  BY <1>1, <1>2, RegisteredFinite, FS_AddElement
<1> QED
  BY <1>3 DEF ew

\* triggerEvent and delEvent take the triggered ones away.
LEMMA RegisteredLess ==
  ASSUME NEW ev \in [Fds -> SUBSET Events], NEW fd \in Fds, NEW E \in SUBSET ev[fd]
  PROVE  /\ Cardinality(E) \in Nat
         /\ Cardinality(RegisteredIn([ev EXCEPT ![fd] = @ \ E]))
              = Cardinality(RegisteredIn(ev)) - Cardinality(E)
<1> DEFINE ew == [ev EXCEPT ![fd] = @ \ E]
<1>1. IsFiniteSet(E) /\ Cardinality(E) \in Nat
  <2>1. E \subseteq Events /\ IsFiniteSet(Events)
    BY EventsFinite
  <2> QED
    BY <2>1, FS_Subset, FS_CardinalityType
<1>2. /\ IsFiniteSet({fd} \X E) /\ Cardinality({fd} \X E) = Cardinality(E)
  <2>1. IsFiniteSet({fd}) /\ Cardinality({fd}) = 1
    BY FS_Singleton
  <2>2. /\ IsFiniteSet({fd} \X E)
        /\ Cardinality({fd} \X E) = Cardinality({fd}) * Cardinality(E)
    BY <1>1, <2>1, FS_Product
  <2> QED
    BY <1>1, <2>1, <2>2
<1>3. /\ RegisteredIn(ev) = RegisteredIn(ew) \cup ({fd} \X E)
      /\ RegisteredIn(ew) \cap ({fd} \X E) = {}
  BY DEF RegisteredIn
<1> HIDE DEF ew
<1>4. Cardinality(RegisteredIn(ev)) = Cardinality(RegisteredIn(ew)) + Cardinality({fd} \X E)
                                        - Cardinality({})
  BY <1>2, <1>3, RegisteredFinite, FS_Union
<1>5. Cardinality(RegisteredIn(ew)) = Cardinality(RegisteredIn(ev)) - Cardinality(E)
  BY <1>1, <1>2, <1>4, RegisteredFinite, FS_EmptySet
<1> QED
  BY <1>1, <1>5 DEF ew

\* triggerEvent for registered events: what becomes of them and of the tasks.
WokenBy(fd, E) == {context[fd][e] : e \in E}
Woke(fd, E) ==
  /\ events' = [events EXCEPT ![fd] = @ \ E]
  /\ context' \in [Fds -> [Events -> Tasks \cup {None}]]
  /\ \A x \in Fds, e \in Events :
       context'[x][e] = IF x = fd /\ e \in E THEN None ELSE context[x][e]
  /\ m_pendingEventCount' = m_pendingEventCount - Cardinality(E)
  /\ queue' = queue \cup WokenBy(fd, E) /\ WokenBy(fd, E) \subseteq Tasks
  /\ place' = [f \in Tasks |-> IF f \in WokenBy(fd, E) THEN "queued" ELSE place[f]]
  /\ pipe' \in BOOLEAN

\* A step of cancelEvent, of cancelAll or of the loop over the reports.
TriggerStep ==
  /\ UNCHANGED <<timerVars, runs, countVars, stop, signal, pc, task, expired, termVars>>
  /\ report' \in [Threads -> SUBSET [fd : Fds \cup {None}, evs : SUBSET Signals]]
  /\ \A u \in Threads : report'[u] \subseteq report[u]
  /\ \E t \in Threads : pc[t] \in {"busy", "events"}
  /\ \/ UNCHANGED <<fdVars, queue, place, pipe>> /\ FaultsKnown'
     \/ fault' = fault /\ \E fd \in Fds : \E E \in SUBSET events[fd] : Woke(fd, E)

\* triggerEvent wakes the registered tasks, or its assertion fails and nothing
\* else happens.
LEMMA TriggerWakes ==
  ASSUME IInv, NEW fd \in Fds, NEW E, Trigger(fd, E)
  PROVE  \/ UNCHANGED <<fdVars, queue, place, pipe>> /\ FaultsKnown'
         \/ fault' = fault /\ E \in SUBSET events[fd] /\ Woke(fd, E)
<1>0. RegTypes /\ ThreadTypes /\ ContextFilled
  BY DEF IInv
<1>1. CASE E \subseteq events[fd]
  <2>1. E \subseteq Events /\ WokenBy(fd, E) \subseteq Tasks
    BY <1>0, <1>1 DEF RegTypes, ContextFilled, WokenBy
  <2>2. /\ context' \in [Fds -> [Events -> Tasks \cup {None}]]
        /\ \A x \in Fds, e \in Events :
             context'[x][e] = IF x = fd /\ e \in E THEN None ELSE context[x][e]
    BY <1>0, <1>1 DEF Trigger, ClearContext, RegTypes
  <2>3. /\ queue' = queue \cup WokenBy(fd, E) /\ pipe' \in BOOLEAN
        /\ place' = [f \in Tasks |-> IF f \in WokenBy(fd, E) THEN "queued" ELSE place[f]]
    BY <1>0, <1>1 DEF Trigger, Schedule, Move, WokenBy, ThreadTypes, TickleWrites
  <2> QED
    BY <1>1, <2>1, <2>2, <2>3 DEF Trigger, CountDown, Woke
<1>2. CASE ~(E \subseteq events[fd])
  BY <1>2 DEF Trigger, FaultsKnown
<1> QED
  BY <1>1, <1>2

\* cancelEvent, cancelAll and a reported event are such steps.
LEMMA TriggerSteps ==
  ASSUME IInv, NEW t \in Threads
  PROVE  /\ \A fd \in Fds, e \in Events : CancelEvent(t, fd, e) => TriggerStep
         /\ \A fd \in Fds : CancelAll(t, fd) => TriggerStep
         /\ HandleEvent(t) => TriggerStep
<1>0. KernelTypes /\ ReportsWatched /\ FaultsKnown
  BY DEF IInv
<1>1. ASSUME NEW fd \in Fds, NEW e \in Events, CancelEvent(t, fd, e) PROVE TriggerStep
  <2>1. Trigger(fd, {e})
    BY <1>1 DEF CancelEvent
  <2>2. \/ UNCHANGED <<fdVars, queue, place, pipe>> /\ FaultsKnown'
        \/ fault' = fault /\ {e} \in SUBSET events[fd] /\ Woke(fd, {e})
    BY <2>1, TriggerWakes
  <2> QED
    BY <1>0, <1>1, <2>2 DEF CancelEvent, TriggerStep, localVars, At, KernelTypes
<1>2. ASSUME NEW fd \in Fds, CancelAll(t, fd) PROVE TriggerStep
  <2>1. Trigger(fd, events[fd])
    BY <1>2 DEF CancelAll
  <2>2. \/ UNCHANGED <<fdVars, queue, place, pipe>> /\ FaultsKnown'
        \/ fault' = fault /\ events[fd] \in SUBSET events[fd] /\ Woke(fd, events[fd])
    BY <2>1, TriggerWakes
  <2> QED
    BY <1>0, <1>2, <2>2 DEF CancelAll, TriggerStep, localVars, At, KernelTypes
<1>3. ASSUME HandleEvent(t) PROVE TriggerStep
  <2>1. PICK r \in report[t] \ {TickleEntry} :
          /\ report' = Handled(t, r) \/ report' = report
          /\ IF StillWanted(r) THEN Trigger(r.fd, RealEvents(r.evs))
                               ELSE UNCHANGED <<fdVars, queue, pipe, place, fault>>
    BY <1>3 DEF HandleEvent
  <2>2. r.fd \in Fds
    BY <1>0 DEF ReportsWatched
  <2>3. \/ UNCHANGED <<fdVars, queue, place, pipe>> /\ FaultsKnown'
        \/ fault' = fault /\ \E E \in SUBSET events[r.fd] : Woke(r.fd, E)
    <3>1. CASE StillWanted(r)
      BY <2>1, <2>2, <3>1, TriggerWakes
    <3>2. CASE ~StillWanted(r)
      BY <1>0, <2>1, <3>2 DEF FaultsKnown
    <3> QED
      BY <3>1, <3>2
  <2>4. /\ report' \in [Threads -> SUBSET [fd : Fds \cup {None}, evs : SUBSET Signals]]
        /\ \A u \in Threads : report'[u] \subseteq report[u]
    BY <1>0, <2>1 DEF KernelTypes, Handled
  <2> QED
    BY <1>3, <2>2, <2>3, <2>4 DEF HandleEvent, TriggerStep, At
<1> QED
  BY <1>1, <1>2, <1>3

\* The task in the context of a registered event is parked there, and is
\* registered nowhere else.
LEMMA ContextFacts ==
  ASSUME IInv, NEW fd \in Fds, NEW e \in events[fd]
  PROVE  /\ e \in Events /\ context[fd][e] \in Tasks /\ context[fd][e] # None
         /\ place[context[fd][e]] = "parked" /\ <<fd, e>> \in Watch[context[fd][e]]
<1>1. e \in Events /\ context[fd][e] \in Tasks \cup {None}
  BY DEF IInv, RegTypes
<1>2. context[fd][e] # None
  BY <1>1 DEF IInv, ContextFilled
<1>3. EventWakes
  BY DEF IInv
<1> QED
  BY <1>1, <1>2, <1>3 DEF EventWakes

\* What is known of a task that triggerEvent schedules.
LEMMA WokenFacts ==
  ASSUME IInv, NEW fd \in Fds, NEW E \in SUBSET events[fd], NEW f \in WokenBy(fd, E)
  PROVE  /\ f \in Tasks /\ f # None /\ place[f] = "parked" /\ f \notin timers
         /\ \A t \in Threads : f \notin expired[t]
         /\ \A x \in Fds, e \in Events : context[x][e] = f => x = fd /\ e \in E
<1>1. PICK e \in E : f = context[fd][e]
  BY DEF WokenBy
<1>2. e \in Events /\ e \in events[fd] /\ f \in Tasks /\ f # None /\ place[f] = "parked"
  BY <1>1, ContextFacts
<1>3. EventWakes
  BY DEF IInv
<1>4. \A t \in Threads : f \notin expired[t]
  BY <1>1, <1>2, <1>3 DEF EventWakes
<1>5. f \notin timers
  BY <1>1, <1>2, <1>3 DEF EventWakes
<1>6. \A x \in Fds, y \in Events : context[x][y] = f => x = fd /\ y = e
  <2>1. \A x \in Fds, y \in Events : context[x][y] = context[fd][e] => x = fd /\ y = e
    BY <1>1, <1>2, <1>3 DEF EventWakes
  <2> QED
    BY <1>1, <2>1
<1> QED
  BY <1>1, <1>2, <1>4, <1>5, <1>6

\* The task a worker runs is not waiting for anything.
LEMMA BusyFacts ==
  ASSUME IInv, NEW t \in Threads, At(t, "busy")
  PROVE  /\ task[t] \in Tasks /\ task[t] # None /\ place[task[t]] = "running"
         /\ pc[t] = "busy" /\ fault = "none"
BY DEF IInv, ThreadTypes, PlacesExact, At

\* A task that is not parked may register for what it watches: no other task
\* does, so neither of addEvent's assertions fails.
LEMMA NotRegistered ==
  ASSUME SharedNothing, IInv, NEW f \in Tasks, place[f] # "parked",
         NEW fd \in Fds, NEW e \in Events, <<fd, e>> \in Watch[f]
  PROVE  /\ e \notin events[fd] /\ context[fd][e] = None
         /\ AddEventFault(fd, e) = "none"
         /\ \A x \in Fds, y \in Events : context[x][y] # f
         /\ f \notin timers /\ \A t \in Threads : f \notin expired[t]
<1>0. RegTypes /\ ContextFilled /\ EventWakes /\ TimerWakes
  BY DEF IInv
<1>1. e \notin events[fd]
  <2> SUFFICES ASSUME e \in events[fd] PROVE FALSE
    OBVIOUS
  <2> DEFINE g == context[fd][e]
  <2>1. g \in Tasks /\ <<fd, e>> \in Watch[g] /\ place[g] = "parked"
    BY ContextFacts
  <2> QED
    BY <2>1 DEF SharedNothing
<1>2. context[fd][e] = None
  BY <1>0, <1>1 DEF ContextFilled
<1>3. \A x \in Fds, y \in Events : context[x][y] # f
  <2> SUFFICES ASSUME NEW x \in Fds, NEW y \in Events, context[x][y] = f PROVE FALSE
    OBVIOUS
  <2>1. context[x][y] # None => place[context[x][y]] = "parked"
    BY <1>0 DEF EventWakes
  <2> QED
    BY <2>1, IOAssumption
<1>4. f \notin timers /\ \A t \in Threads : f \notin expired[t]
  BY <1>0 DEF TimerWakes
<1> QED
  BY <1>1, <1>2, <1>3, <1>4 DEF AddEventFault

\* A step that moves one worker and keeps each counter on a par with it.
LEMMA CountStep ==
  ASSUME IInv, NEW t \in Threads, \A u \in Threads \ {t} : pc'[u] = pc[u],
         active' = active + (IF pc'[t] \in {"busy"} THEN 1 ELSE 0)
                          - (IF pc[t] \in {"busy"} THEN 1 ELSE 0),
         idle' = idle + (IF pc'[t] \in IdlePlaces THEN 1 ELSE 0)
                      - (IF pc[t] \in IdlePlaces THEN 1 ELSE 0)
  PROVE  CountsExact'
BY Counting DEF IInv, CountsExact

\* stopping() reads a zero only when nothing is registered.
LEMMA NonePending ==
  ASSUME IInv, m_pendingEventCount = 0
  PROVE  \A fd \in Fds : events[fd] = {}
<1>1. Cardinality(RegisteredIn(events)) = 0 /\ IsFiniteSet(RegisteredIn(events))
  BY RegisteredFinite DEF IInv, Pending
<1>2. RegisteredIn(events) = {}
  BY <1>1, FS_EmptySet
<1>3. events \in [Fds -> SUBSET Events]
  BY DEF IInv, RegTypes
<1> SUFFICES ASSUME NEW fd \in Fds, NEW e \in events[fd] PROVE FALSE
  OBVIOUS
<1>4. <<fd, e>> \in RegisteredIn(events)
  BY <1>3 DEF RegisteredIn
<1> QED
  BY <1>2, <1>4

\* The counters count workers.
LEMMA CountsInt ==
  ASSUME IInv
  PROVE  active \in 0 .. Cardinality(Threads) /\ idle \in 0 .. Cardinality(Threads)
<1>1. \A P : /\ Inside(pc, P) \subseteq Threads /\ IsFiniteSet(Inside(pc, P))
             /\ Cardinality(Inside(pc, P)) <= Cardinality(Threads)
  BY FS_Subset, IOAssumption DEF Inside
<1>2. Cardinality(Threads) \in Nat /\ \A P : Cardinality(Inside(pc, P)) \in Nat
  BY <1>1, FS_CardinalityType, IOAssumption
<1> QED
  BY <1>1, <1>2 DEF IInv, CountsExact

\* Only tasks that may be run again are queued or parked.
LEMMA StepRuns == IInv /\ [Next]_vars => RunsLeft'
<1> SUFFICES ASSUME IInv, [Next]_vars PROVE RunsLeft'
  OBVIOUS
<1>0. RegTypes /\ TaskTypes /\ ThreadTypes /\ KernelTypes /\ RunsLeft /\ PlacesExact
     /\ TimerWakes
  BY DEF IInv
<1> USE <1>0, IOAssumption DEF RegTypes, TaskTypes, ThreadTypes, KernelTypes, RunsLeft,
     PlacesExact, TimerWakes
<1>1. ASSUME NEW t \in Threads, Fetch(t) PROVE RunsLeft'
  BY <1>1 DEF Fetch, At, Goto
<1>2. ASSUME NEW t \in Threads, EndTask(t) PROVE RunsLeft'
  BY <1>2 DEF EndTask, At, Goto, LeaveTask
<1>3. ASSUME NEW t \in Threads, NEW fd \in Fds, NEW e \in Events,
             AddEventAndPark(t, fd, e)
      PROVE  RunsLeft'
  BY <1>3 DEF AddEventAndPark, Register, At, Goto, LeaveTask
<1>4. ASSUME NEW t \in Threads, NEW g \in Tasks, NEW fd \in Fds, NEW e \in Events,
             AddEventCb(t, g, fd, e)
      PROVE  RunsLeft'
  BY <1>4 DEF AddEventCb, Register, At
<1>5. ASSUME NEW t \in Threads, AddTimerAndPark(t) PROVE RunsLeft'
  BY <1>5 DEF AddTimerAndPark, At, Goto, LeaveTask
<1>6. ASSUME NEW t \in Threads, NEW fd \in Fds, NEW e \in Events, DelEvent(t, fd, e)
      PROVE  RunsLeft'
  BY <1>6 DEF DelEvent, ClearContext, CountDown, At
<1>7. ASSUME NEW t \in Threads, ScheduleExpired(t) PROVE RunsLeft'
  <2>1. \A f \in expired[t] : place[f] = "parked"
    BY DEF TimerWakes
  <2> QED
    BY <1>7, <2>1 DEF ScheduleExpired, At, Goto, Schedule, Move, fdVars, timerVars,
         countVars, localVars
<1>8. ASSUME NEW f \in Tasks, OwnerSchedule(f) PROVE RunsLeft'
  BY <1>8 DEF OwnerSchedule, Schedule, Move
<1>9. CASE TriggerStep
  <2>1. CASE UNCHANGED place /\ UNCHANGED queue
    BY <1>9, <2>1 DEF TriggerStep, timerVars
  <2>2. ASSUME NEW fd \in Fds, NEW E \in SUBSET events[fd], Woke(fd, E) PROVE RunsLeft'
    <3>1. \A f \in WokenBy(fd, E) : f \in Tasks /\ place[f] = "parked"
      BY WokenFacts
    <3> QED
      BY <1>9, <2>2, <3>1 DEF TriggerStep, Woke, timerVars
  <2> QED
    BY <1>9, <2>1, <2>2 DEF TriggerStep
<1>10. CASE UNCHANGED <<place, runs>>
  BY <1>10
<1> HIDE DEF RegTypes, TaskTypes, ThreadTypes, KernelTypes, RunsLeft, PlacesExact,
      TimerWakes
<1> QED
  BY <1>1, <1>2, <1>3, <1>4, <1>5, <1>6, <1>7, <1>8, <1>9, <1>10, TriggerSteps
  DEF Next, WorkerStep, TaskStep, vars, EnterIdle, StoppingRead, EpollWait,
      ListExpired, HandleTickle, LeaveIdle, Exit, Stop, TimerDue, KernelSignal,
      EpollReturn, fdVars, timerVars, countVars, localVars

\* Every step keeps the list, the workers and the places of the tasks in line.
LEMMA StepPlaces == IInv /\ [Next]_vars => PlacesExact'
<1> SUFFICES ASSUME IInv, [Next]_vars PROVE PlacesExact'
  OBVIOUS
<1>0. RegTypes /\ TaskTypes /\ ThreadTypes /\ KernelTypes /\ PlacesExact /\ TimerWakes
  BY DEF IInv
<1> USE <1>0, IOAssumption DEF RegTypes, TaskTypes, ThreadTypes, KernelTypes,
     PlacesExact, TimerWakes
<1>1. ASSUME NEW t \in Threads, Fetch(t) PROVE PlacesExact'
  BY <1>1 DEF Fetch, At, Goto
<1>2. ASSUME NEW t \in Threads, EndTask(t) PROVE PlacesExact'
  BY <1>2 DEF EndTask, At, Goto, LeaveTask
<1>3. ASSUME NEW t \in Threads, NEW fd \in Fds, NEW e \in Events,
             AddEventAndPark(t, fd, e)
      PROVE  PlacesExact'
  BY <1>3 DEF AddEventAndPark, Register, At, Goto, LeaveTask
<1>4. ASSUME NEW t \in Threads, NEW g \in Tasks, NEW fd \in Fds, NEW e \in Events,
             AddEventCb(t, g, fd, e)
      PROVE  PlacesExact'
  BY <1>4 DEF AddEventCb, Register, At
<1>5. ASSUME NEW t \in Threads, AddTimerAndPark(t) PROVE PlacesExact'
  BY <1>5 DEF AddTimerAndPark, At, Goto, LeaveTask
<1>6. ASSUME NEW t \in Threads, NEW fd \in Fds, NEW e \in Events, DelEvent(t, fd, e)
      PROVE  PlacesExact'
  <2>1. context[fd][e] \in Tasks /\ place[context[fd][e]] = "parked"
    BY <1>6, ContextFacts DEF DelEvent
  <2> QED
    BY <1>6, <2>1 DEF DelEvent, fdVars, timerVars, countVars, localVars
<1>7. ASSUME NEW t \in Threads, EnterIdle(t) PROVE PlacesExact'
  BY <1>7 DEF EnterIdle, At, Goto
<1>8. ASSUME NEW t \in Threads, StoppingRead(t) PROVE PlacesExact'
  BY <1>8 DEF StoppingRead, At, Goto
<1>9. ASSUME NEW t \in Threads, EpollWait(t) PROVE PlacesExact'
  BY <1>9 DEF EpollWait, EpollReturn, At, Goto
<1>10. ASSUME NEW t \in Threads, ListExpired(t) PROVE PlacesExact'
  BY <1>10 DEF ListExpired, At, Goto
<1>11. ASSUME NEW t \in Threads, ScheduleExpired(t) PROVE PlacesExact'
  BY <1>11 DEF ScheduleExpired, At, Goto, Schedule, Move
<1>12. ASSUME NEW t \in Threads, LeaveIdle(t) PROVE PlacesExact'
  BY <1>12 DEF LeaveIdle, At, Goto
<1>13. ASSUME NEW t \in Threads, Exit(t) PROVE PlacesExact'
  BY <1>13 DEF Exit, At, Goto
<1>14. ASSUME NEW f \in Tasks, OwnerSchedule(f) PROVE PlacesExact'
  BY <1>14 DEF OwnerSchedule, Schedule, Move
<1>15. CASE TriggerStep
  <2>1. CASE UNCHANGED place /\ UNCHANGED queue
    BY <1>15, <2>1 DEF TriggerStep, timerVars
  <2>2. ASSUME NEW fd \in Fds, NEW E \in SUBSET events[fd], Woke(fd, E)
        PROVE  PlacesExact'
    <3>1. \A f \in WokenBy(fd, E) : f \in Tasks /\ place[f] = "parked"
      BY WokenFacts
    <3> QED
      BY <1>15, <2>2, <3>1 DEF TriggerStep, Woke, timerVars
  <2> QED
    BY <1>15, <2>1, <2>2 DEF TriggerStep
<1>16. CASE UNCHANGED <<queue, place, task, pc>>
  BY <1>16
<1> HIDE DEF RegTypes, TaskTypes, ThreadTypes, KernelTypes, PlacesExact, TimerWakes
<1> QED
  BY <1>1, <1>2, <1>3, <1>4, <1>5, <1>6, <1>7, <1>8, <1>9, <1>10, <1>11, <1>12, <1>13,
       <1>14, <1>15, <1>16, TriggerSteps
  DEF Next, WorkerStep, TaskStep, vars, HandleTickle, Stop, TimerDue, KernelSignal,
      fdVars, timerVars, countVars, localVars

\* epoll_wait returns what tasks watch for, the loop only takes from it.
LEMMA StepReports == IInv /\ [Next]_vars => ReportsWatched'
<1> SUFFICES ASSUME IInv, [Next]_vars PROVE ReportsWatched'
  OBVIOUS
<1>0. RegTypes /\ TaskTypes /\ ThreadTypes /\ KernelTypes /\ ReportsWatched
  BY DEF IInv
<1> USE <1>0, IOAssumption DEF RegTypes, TaskTypes, ThreadTypes, KernelTypes,
     ReportsWatched, TickleEntry
<1>1. ASSUME NEW t \in Threads, EpollWait(t) PROVE ReportsWatched'
  <2>1. report' = [report EXCEPT ![t] = Returned]
    BY <1>1 DEF EpollWait, EpollReturn
  <2>2. ASSUME NEW r \in Returned
        PROVE  r = TickleEntry \/ (r.fd \in Fds /\ r.evs # {}
               /\ r.evs \subseteq Reportable(r.fd))
    <3>1. CASE r = TickleEntry
      BY <3>1
    <3>2. ASSUME NEW fd \in Fds, Reported(fd) # {}, r = [fd |-> fd,
      evs |-> Reported(fd)]
          PROVE  r.fd \in Fds /\ r.evs # {} /\ r.evs \subseteq Reportable(r.fd)
      <4>1. \A e \in events[fd] : Watched(fd, e)
        BY ContextFacts DEF Watched
      <4>2. Reported(fd) \subseteq Reportable(fd)
        BY <4>1 DEF Reported, Reportable
      <4> QED
        BY <3>2, <4>2
    <3> QED
      BY <3>1, <3>2 DEF Returned
  <2> HIDE DEF TickleEntry
  <2> QED
    BY <2>1, <2>2
<1>2. ASSUME NEW t \in Threads, HandleTickle(t) PROVE ReportsWatched'
  BY <1>2 DEF HandleTickle, Handled, At, localVars
<1>3. CASE TriggerStep
  BY <1>3 DEF TriggerStep, Woke, WokenBy, fdVars, timerVars, countVars, localVars
<1>4. CASE UNCHANGED report
  BY <1>4
<1> HIDE DEF RegTypes, TaskTypes, ThreadTypes, KernelTypes, ReportsWatched
<1>5. ASSUME NEW t \in Threads, WorkerStep(t) PROVE ReportsWatched'
  BY <1>5, <1>1, <1>2, <1>3, <1>4, TriggerSteps DEF WorkerStep, Fetch, EnterIdle,
       StoppingRead, ListExpired, ScheduleExpired, LeaveIdle, Exit, fdVars,
       timerVars, countVars, localVars
<1>6. ASSUME NEW t \in Threads, TaskStep(t) PROVE ReportsWatched'
  BY <1>6, <1>1, <1>2, <1>3, <1>4, TriggerSteps DEF TaskStep, EndTask, AddEventAndPark,
       AddEventCb, AddTimerAndPark, DelEvent, LeaveTask, fdVars, timerVars, countVars,
       localVars
<1> QED
  BY <1>1, <1>2, <1>3, <1>4, <1>5, <1>6 DEF Next, vars, OwnerSchedule, Stop, TimerDue,
       KernelSignal, fdVars, timerVars, countVars, localVars

\* The callbacks listExpiredCb returned are scheduled before the worker goes on.
LEMMA StepExpired == IInv /\ [Next]_vars => ExpiredHeld'
<1> SUFFICES ASSUME IInv, [Next]_vars PROVE ExpiredHeld'
  OBVIOUS
<1>0. RegTypes /\ TaskTypes /\ ThreadTypes /\ KernelTypes /\ ExpiredHeld
  BY DEF IInv
<1> USE <1>0, IOAssumption DEF RegTypes, TaskTypes, ThreadTypes, KernelTypes,
     ExpiredHeld
<1>1. ASSUME NEW t \in Threads, Fetch(t) PROVE ExpiredHeld'
  BY <1>1 DEF Fetch, At, Goto, localVars
<1>2. ASSUME NEW t \in Threads, EndTask(t) PROVE ExpiredHeld'
  BY <1>2 DEF EndTask, At, Goto, LeaveTask, localVars
<1>3. ASSUME NEW t \in Threads, NEW fd \in Fds, NEW e \in Events,
             AddEventAndPark(t, fd, e)
      PROVE  ExpiredHeld'
  BY <1>3 DEF AddEventAndPark, Register, At, Goto, LeaveTask, localVars
<1>4. ASSUME NEW t \in Threads, AddTimerAndPark(t) PROVE ExpiredHeld'
  BY <1>4 DEF AddTimerAndPark, At, Goto, LeaveTask, localVars
<1>5. ASSUME NEW t \in Threads, EnterIdle(t) PROVE ExpiredHeld'
  BY <1>5 DEF EnterIdle, At, Goto, localVars
<1>6. ASSUME NEW t \in Threads, StoppingRead(t) PROVE ExpiredHeld'
  BY <1>6 DEF StoppingRead, At, Goto, localVars
<1>7. ASSUME NEW t \in Threads, EpollWait(t) PROVE ExpiredHeld'
  BY <1>7 DEF EpollWait, EpollReturn, At, Goto, localVars
<1>8. ASSUME NEW t \in Threads, ListExpired(t) PROVE ExpiredHeld'
  BY <1>8 DEF ListExpired, At, Goto, localVars
<1>9. ASSUME NEW t \in Threads, ScheduleExpired(t) PROVE ExpiredHeld'
  BY <1>9 DEF ScheduleExpired, At, Goto, Schedule, Move, localVars
<1>10. ASSUME NEW t \in Threads, LeaveIdle(t) PROVE ExpiredHeld'
  BY <1>10 DEF LeaveIdle, At, Goto, localVars
<1>11. ASSUME NEW t \in Threads, Exit(t) PROVE ExpiredHeld'
  BY <1>11 DEF Exit, At, Goto, localVars
<1>12. CASE TriggerStep
  BY <1>12 DEF TriggerStep, Woke, WokenBy, fdVars, timerVars, countVars, localVars
<1>13. CASE UNCHANGED <<expired, pc>>
  BY <1>13
<1> HIDE DEF RegTypes, TaskTypes, ThreadTypes, KernelTypes, ExpiredHeld
<1>14. ASSUME NEW t \in Threads, WorkerStep(t) PROVE ExpiredHeld'
  BY <1>1, <1>5, <1>6, <1>7, <1>8, <1>9, <1>10, <1>11, <1>12, <1>13, <1>14, TriggerSteps
  DEF WorkerStep, HandleTickle
<1>15. ASSUME NEW t \in Threads, TaskStep(t) PROVE ExpiredHeld'
  BY <1>2, <1>3, <1>4, <1>12, <1>13, <1>15, TriggerSteps
  DEF TaskStep, AddEventCb, DelEvent, localVars
<1> QED
  BY <1>13, <1>14, <1>15 DEF Next, vars, OwnerSchedule, Stop, TimerDue, KernelSignal,
       localVars

\* Idle fibers end after stop() only, and their threads do not go idle again.
LEMMA StepIdleEnds == IInv /\ [Next]_vars => IdleEnds'
<1> SUFFICES ASSUME IInv, [Next]_vars PROVE IdleEnds'
  OBVIOUS
<1>0. ThreadTypes /\ IdleEnds
  BY DEF IInv
<1> USE <1>0 DEF ThreadTypes, IdleEnds, IdlePlaces
<1>1. ASSUME NEW t \in Threads, Fetch(t) PROVE IdleEnds'
  BY <1>1 DEF Fetch, At, Goto, termVars
<1>2. ASSUME NEW t \in Threads, EndTask(t) PROVE IdleEnds'
  BY <1>2 DEF EndTask, At, Goto, LeaveTask, termVars
<1>3. ASSUME NEW t \in Threads, NEW fd \in Fds, NEW e \in Events,
             AddEventAndPark(t, fd, e)
      PROVE  IdleEnds'
  BY <1>3 DEF AddEventAndPark, At, Goto, LeaveTask
<1>4. ASSUME NEW t \in Threads, AddTimerAndPark(t) PROVE IdleEnds'
  BY <1>4 DEF AddTimerAndPark, At, Goto, LeaveTask
<1>5. ASSUME NEW t \in Threads, EnterIdle(t) PROVE IdleEnds'
  BY <1>5 DEF EnterIdle, At, Goto, termVars
<1>6. ASSUME NEW t \in Threads, StoppingRead(t) PROVE IdleEnds'
  BY <1>6 DEF StoppingRead, At, Goto, termVars, SchedulerStopping
<1>7. ASSUME NEW t \in Threads, EpollWait(t) PROVE IdleEnds'
  BY <1>7 DEF EpollWait, EpollReturn, At, Goto, termVars
<1>8. ASSUME NEW t \in Threads, ListExpired(t) PROVE IdleEnds'
  BY <1>8 DEF ListExpired, At, Goto, termVars
<1>9. ASSUME NEW t \in Threads, ScheduleExpired(t) PROVE IdleEnds'
  BY <1>9 DEF ScheduleExpired, At, Goto, termVars
<1>10. ASSUME NEW t \in Threads, LeaveIdle(t) PROVE IdleEnds'
  BY <1>10 DEF LeaveIdle, At, Goto
<1>11. ASSUME NEW t \in Threads, Exit(t) PROVE IdleEnds'
  BY <1>11 DEF Exit, At, Goto, termVars
<1>12. CASE Stop
  BY <1>12 DEF Stop, termVars
<1>13. CASE TriggerStep
  BY <1>13 DEF TriggerStep, termVars
<1>14. CASE UNCHANGED <<stop, pc, idleTerm>>
  BY <1>14
<1> HIDE DEF ThreadTypes, IdleEnds, IdlePlaces
<1>15. ASSUME NEW t \in Threads, WorkerStep(t) PROVE IdleEnds'
  BY <1>1, <1>5, <1>6, <1>7, <1>8, <1>9, <1>10, <1>11, <1>13, <1>14, <1>15, TriggerSteps
  DEF WorkerStep, HandleTickle, termVars
<1>16. ASSUME NEW t \in Threads, TaskStep(t) PROVE IdleEnds'
  BY <1>2, <1>3, <1>4, <1>13, <1>14, <1>16, TriggerSteps
  DEF TaskStep, AddEventCb, DelEvent, termVars
<1> QED
  BY <1>12, <1>14, <1>15, <1>16 DEF Next, vars, OwnerSchedule, TimerDue, KernelSignal,
       termVars

\* No worker turns away from what is left while it is the only one to look.
LEMMA StepAttended == IInv /\ [Next]_vars => Attended'
<1> SUFFICES ASSUME IInv, [Next]_vars PROVE Attended'
  OBVIOUS
<1>0. RegTypes /\ TaskTypes /\ ThreadTypes /\ KernelTypes /\ Attended /\ ExpiredHeld
     /\ IdleEnds
  BY DEF IInv
<1> USE <1>0, IOAssumption DEF RegTypes, TaskTypes, ThreadTypes, KernelTypes, Attended,
     ExpiredHeld, IdleEnds, Looking, Looks, IdlePlaces
<1>1. ASSUME NEW t \in Threads, Fetch(t) PROVE Attended'
  BY <1>1 DEF Fetch, At, Goto, fdVars, timerVars, termVars
<1>2. ASSUME NEW t \in Threads, EndTask(t) PROVE Attended'
  BY <1>2 DEF EndTask, At, Goto, LeaveTask, fdVars, timerVars, termVars
<1>3. ASSUME NEW t \in Threads, NEW fd \in Fds, NEW e \in Events,
             AddEventAndPark(t, fd, e)
      PROVE  Attended'
  BY <1>3 DEF AddEventAndPark, WaitsFrom, Register, At, Goto, LeaveTask, fdVars,
       timerVars, termVars
<1>4. ASSUME NEW t \in Threads, NEW g \in Tasks, NEW fd \in Fds, NEW e \in Events,
             AddEventCb(t, g, fd, e)
      PROVE  Attended'
  BY <1>4 DEF AddEventCb, WaitsFrom, Register, At, fdVars, timerVars, termVars
<1>5. ASSUME NEW t \in Threads, AddTimerAndPark(t) PROVE Attended'
  BY <1>5 DEF AddTimerAndPark, WaitsFrom, At, Goto, LeaveTask, fdVars, timerVars, termVars
<1>6. ASSUME NEW t \in Threads, NEW fd \in Fds, NEW e \in Events, DelEvent(t, fd, e)
      PROVE  Attended'
  BY <1>6 DEF DelEvent, ClearContext, CountDown, At, fdVars, timerVars, termVars
<1>7. ASSUME NEW t \in Threads, EnterIdle(t) PROVE Attended'
  BY <1>7 DEF EnterIdle, At, Goto, fdVars, timerVars, termVars
<1>8. ASSUME NEW t \in Threads, StoppingRead(t) PROVE Attended'
  <2>0. UNCHANGED <<queue, timers, events, context, stop, idleTerm, stranded>>
    BY <1>8 DEF StoppingRead, timerVars, fdVars, termVars
  <2>1. CASE At(t, "stop?timers") /\ Goto(t, IF NoTimer THEN "stop?pending" ELSE "wait")
    BY <2>0, <2>1 DEF At, Goto, NoTimer
  <2>2. CASE At(t, "stop?pending") /\ Goto(t, IF m_pendingEventCount = 0 THEN "stop?queue"
                                                                         ELSE "wait")
    <3>1. m_pendingEventCount = 0 => \A fd \in Fds : events[fd] = {}
      BY NonePending
    <3> QED
      BY <2>0, <2>2, <3>1 DEF At, Goto
  <2>3. CASE At(t, "stop?queue") /\ Goto(t, IF SchedulerStopping THEN "leave" ELSE "wait")
    BY <2>0, <2>3 DEF At, Goto, SchedulerStopping
  <2> QED
    BY <1>8, <2>1, <2>2, <2>3 DEF StoppingRead
<1>9. ASSUME NEW t \in Threads, EpollWait(t) PROVE Attended'
  BY <1>9 DEF EpollWait, EpollReturn, At, Goto, fdVars, timerVars, termVars
<1>10. ASSUME NEW t \in Threads, ListExpired(t) PROVE Attended'
  BY <1>10 DEF ListExpired, At, Goto, fdVars, timerVars, termVars
<1>11. ASSUME NEW t \in Threads, ScheduleExpired(t) PROVE Attended'
  BY <1>11 DEF ScheduleExpired, At, Goto, Schedule, Move, fdVars, timerVars, termVars
<1>12. ASSUME NEW t \in Threads, LeaveIdle(t) PROVE Attended'
  BY <1>12 DEF LeaveIdle, At, Goto, fdVars, timerVars, termVars
<1>13. ASSUME NEW t \in Threads, Exit(t) PROVE Attended'
  BY <1>13 DEF Exit, At, Goto, fdVars, timerVars, termVars
<1>14. ASSUME NEW f \in Tasks, OwnerSchedule(f) PROVE Attended'
  BY <1>14 DEF OwnerSchedule, Schedule, Move, fdVars, timerVars, termVars
<1>15. CASE Stop
  BY <1>15 DEF Stop, fdVars, timerVars, termVars
<1>16. CASE TriggerStep
  <2>1. /\ UNCHANGED <<timers, stop, pc, idleTerm, stranded>>
        /\ \E t \in Threads : pc[t] # "done"
    BY <1>16 DEF TriggerStep, timerVars, termVars
  <2>2. CASE UNCHANGED <<fdVars, queue, place, pipe>>
    BY <2>1, <2>2 DEF fdVars
  <2>3. ASSUME NEW fd \in Fds, NEW E \in SUBSET events[fd], Woke(fd, E) PROVE Attended'
    <3>1. \A x \in Fds : \A e \in events'[x] :
            e \in events[x] /\ context'[x][e] = context[x][e]
      BY <2>3 DEF Woke
    <3> QED
      BY <2>1, <3>1
  <2> QED
    BY <1>16, <2>2, <2>3 DEF TriggerStep
<1>17. CASE UNCHANGED <<stop, queue, timers, events, context, pc, idleTerm, stranded>>
  BY <1>17
<1> HIDE DEF RegTypes, TaskTypes, ThreadTypes, KernelTypes, Attended, ExpiredHeld,
      IdleEnds, Looking, Looks, IdlePlaces
<1>18. ASSUME NEW t \in Threads, WorkerStep(t) PROVE Attended'
  BY <1>1, <1>7, <1>8, <1>9, <1>10, <1>11, <1>12, <1>13, <1>16, <1>17, <1>18, TriggerSteps
  DEF WorkerStep, HandleTickle, fdVars, timerVars, termVars
<1>19. ASSUME NEW t \in Threads, TaskStep(t) PROVE Attended'
  BY <1>2, <1>3, <1>4, <1>5, <1>6, <1>16, <1>19, TriggerSteps DEF TaskStep
<1> QED
  BY <1>14, <1>15, <1>17, <1>18, <1>19 DEF Next, vars, TimerDue, KernelSignal, fdVars,
       timerVars, termVars

\* The types, one group of variables at a time.
LEMMA StepRegTypes == IInv /\ [Next]_vars => RegTypes'
<1> SUFFICES ASSUME IInv, [Next]_vars PROVE RegTypes'
  OBVIOUS
<1>0. RegTypes
  BY DEF IInv
<1> USE <1>0, IOAssumption DEF RegTypes
<1>1. ASSUME NEW t \in Threads, NEW fd \in Fds, NEW e \in Events,
             AddEventAndPark(t, fd, e)
      PROVE  RegTypes'
  <2>1. task[t] \in Tasks
    BY <1>1, BusyFacts DEF AddEventAndPark
  <2> QED
    BY <1>1, <2>1 DEF AddEventAndPark, Register, fdVars, timerVars, countVars, localVars
<1>2. ASSUME NEW t \in Threads, NEW g \in Tasks, NEW fd \in Fds, NEW e \in Events,
             AddEventCb(t, g, fd, e)
      PROVE  RegTypes'
  BY <1>2 DEF AddEventCb, Register, At, fdVars
<1>3. ASSUME NEW t \in Threads, NEW fd \in Fds, NEW e \in Events, DelEvent(t, fd, e)
      PROVE  RegTypes'
  BY <1>3 DEF DelEvent, ClearContext, CountDown, At, fdVars
<1>4. CASE TriggerStep
  BY <1>4 DEF TriggerStep, Woke, WokenBy, fdVars, timerVars, countVars, localVars
<1>5. CASE UNCHANGED <<events, context>>
  BY <1>5
<1> HIDE DEF RegTypes
<1>6. ASSUME NEW t \in Threads, WorkerStep(t) PROVE RegTypes'
  BY <1>6, <1>1, <1>2, <1>3, <1>4, <1>5, TriggerSteps DEF WorkerStep, Fetch, EnterIdle,
       StoppingRead, EpollWait, ListExpired, ScheduleExpired, HandleTickle, LeaveIdle,
       Exit, EpollReturn, fdVars, timerVars, countVars, localVars
<1>7. ASSUME NEW t \in Threads, TaskStep(t) PROVE RegTypes'
  BY <1>7, <1>1, <1>2, <1>3, <1>4, <1>5, TriggerSteps DEF TaskStep, EndTask,
       AddTimerAndPark, LeaveTask, fdVars, timerVars, countVars, localVars
<1> QED
  BY <1>1, <1>2, <1>3, <1>4, <1>5, <1>6, <1>7 DEF Next, vars, OwnerSchedule, Stop,
       TimerDue, KernelSignal, fdVars, timerVars, countVars, localVars

\* The list, the timers and the places of the tasks.
LEMMA StepTaskTypes == IInv /\ [Next]_vars => TaskTypes'
<1> SUFFICES ASSUME IInv, [Next]_vars PROVE TaskTypes'
  OBVIOUS
<1>0. TaskTypes /\ ThreadTypes /\ RunsLeft /\ PlacesExact /\ RegTypes
  BY DEF IInv
<1> USE <1>0, IOAssumption DEF TaskTypes, ThreadTypes, RunsLeft, PlacesExact, RegTypes,
     Places
<1>1. ASSUME NEW t \in Threads, Fetch(t) PROVE TaskTypes'
  BY <1>1 DEF Fetch, At, Goto, timerVars
<1>2. ASSUME NEW t \in Threads, EndTask(t) PROVE TaskTypes'
  BY <1>2 DEF EndTask, At, Goto, LeaveTask, timerVars
<1>3. ASSUME NEW t \in Threads, NEW fd \in Fds, NEW e \in Events,
             AddEventAndPark(t, fd, e)
      PROVE  TaskTypes'
  BY <1>3 DEF AddEventAndPark, Register, At, Goto, LeaveTask, timerVars
<1>4. ASSUME NEW t \in Threads, NEW g \in Tasks, NEW fd \in Fds, NEW e \in Events,
             AddEventCb(t, g, fd, e)
      PROVE  TaskTypes'
  BY <1>4 DEF AddEventCb, Register, At, timerVars
<1>5. ASSUME NEW t \in Threads, AddTimerAndPark(t) PROVE TaskTypes'
  BY <1>5 DEF AddTimerAndPark, At, Goto, LeaveTask, timerVars
<1>6. ASSUME NEW t \in Threads, NEW fd \in Fds, NEW e \in Events, DelEvent(t, fd, e)
      PROVE  TaskTypes'
  BY <1>6 DEF DelEvent, ClearContext, CountDown, At, timerVars
<1>7. ASSUME NEW t \in Threads, ListExpired(t) PROVE TaskTypes'
  BY <1>7 DEF ListExpired, At, Goto, timerVars
<1>8. ASSUME NEW t \in Threads, ScheduleExpired(t) PROVE TaskTypes'
  BY <1>8 DEF ScheduleExpired, At, Goto, Schedule, Move, timerVars
<1>9. ASSUME NEW f \in Tasks, OwnerSchedule(f) PROVE TaskTypes'
  BY <1>9 DEF OwnerSchedule, Schedule, Move, timerVars
<1>10. ASSUME NEW f \in Tasks, TimerDue(f) PROVE TaskTypes'
  BY <1>10 DEF TimerDue, timerVars
<1>11. CASE TriggerStep
  <2>1. CASE UNCHANGED place /\ UNCHANGED queue
    BY <1>11, <2>1 DEF TriggerStep, timerVars
  <2>2. ASSUME NEW fd \in Fds, NEW E \in SUBSET events[fd], Woke(fd, E) PROVE TaskTypes'
    <3>1. \A f \in WokenBy(fd, E) : f \in Tasks /\ place[f] = "parked"
      BY WokenFacts
    <3> QED
      BY <1>11, <2>2, <3>1 DEF TriggerStep, Woke, timerVars
  <2> QED
    BY <1>11, <2>1, <2>2 DEF TriggerStep
<1>12. CASE UNCHANGED <<due, timers, queue, place, runs>>
  BY <1>12
<1> HIDE DEF TaskTypes, ThreadTypes, RunsLeft, PlacesExact, RegTypes
<1> QED
  BY <1>1, <1>2, <1>3, <1>4, <1>5, <1>6, <1>7, <1>8, <1>9, <1>10, <1>11, <1>12,
       TriggerSteps
  DEF Next, WorkerStep, TaskStep, vars, EnterIdle, StoppingRead, EpollWait,
      HandleTickle, LeaveIdle, Exit, Stop, KernelSignal, EpollReturn, fdVars,
      timerVars, countVars, localVars

\* The workers.
LEMMA StepThreadTypes == IInv /\ [Next]_vars => ThreadTypes'
<1> SUFFICES ASSUME IInv, [Next]_vars PROVE ThreadTypes'
  OBVIOUS
<1>0. TaskTypes /\ ThreadTypes
  BY DEF IInv
<1> USE <1>0, IOAssumption DEF TaskTypes, ThreadTypes, ThreadPlaces
<1>1. ASSUME NEW t \in Threads, Fetch(t) PROVE ThreadTypes'
  BY <1>1 DEF Fetch, At, Goto, localVars, termVars
<1>2. ASSUME NEW t \in Threads, EndTask(t) PROVE ThreadTypes'
  BY <1>2 DEF EndTask, At, Goto, LeaveTask, localVars, termVars
<1>3. ASSUME NEW t \in Threads, NEW fd \in Fds, NEW e \in Events,
             AddEventAndPark(t, fd, e)
      PROVE  ThreadTypes'
  <2>1. task[t] \in Tasks
    BY <1>3, BusyFacts DEF AddEventAndPark
  <2> QED
    BY <1>3, <2>1 DEF AddEventAndPark, WaitsFrom, Goto, LeaveTask, localVars
<1>4. ASSUME NEW t \in Threads, AddTimerAndPark(t) PROVE ThreadTypes'
  <2>1. task[t] \in Tasks
    BY <1>4, BusyFacts DEF AddTimerAndPark
  <2>2. pipe' \in BOOLEAN
    BY <1>4 DEF AddTimerAndPark, TickleWrites
  <2> QED
    BY <1>4, <2>1, <2>2 DEF AddTimerAndPark, WaitsFrom, Goto, LeaveTask, localVars
<1>5. ASSUME NEW t \in Threads, EnterIdle(t) PROVE ThreadTypes'
  BY <1>5 DEF EnterIdle, At, Goto, localVars, termVars
<1>6. ASSUME NEW t \in Threads, StoppingRead(t) PROVE ThreadTypes'
  BY <1>6 DEF StoppingRead, At, Goto, localVars, termVars
<1>7. ASSUME NEW t \in Threads, EpollWait(t) PROVE ThreadTypes'
  BY <1>7 DEF EpollWait, EpollReturn, At, Goto, localVars, termVars
<1>8. ASSUME NEW t \in Threads, ListExpired(t) PROVE ThreadTypes'
  BY <1>8 DEF ListExpired, At, Goto, localVars, termVars
<1>9. ASSUME NEW t \in Threads, ScheduleExpired(t) PROVE ThreadTypes'
  BY <1>9 DEF ScheduleExpired, At, Goto, Schedule, Move, localVars, termVars
<1>10. ASSUME NEW t \in Threads, HandleTickle(t) PROVE ThreadTypes'
  BY <1>10 DEF HandleTickle, Handled, At, localVars, termVars
<1>11. ASSUME NEW t \in Threads, LeaveIdle(t) PROVE ThreadTypes'
  BY <1>11 DEF LeaveIdle, At, Goto, localVars, termVars
<1>12. ASSUME NEW t \in Threads, Exit(t) PROVE ThreadTypes'
  BY <1>12 DEF Exit, At, Goto, localVars, termVars
<1>13. ASSUME NEW f \in Tasks, OwnerSchedule(f) PROVE ThreadTypes'
  BY <1>13 DEF OwnerSchedule, Schedule, Move, localVars, termVars
<1>14. CASE Stop
  BY <1>14 DEF Stop, localVars, termVars
<1>15. CASE TriggerStep
  BY <1>15 DEF TriggerStep, Woke, WokenBy, fdVars, timerVars, countVars, localVars, termVars
<1>16. CASE UNCHANGED <<stop, pipe, pc, task, expired, termVars>>
  BY <1>16 DEF termVars
<1>17. ASSUME NEW t \in Threads, NEW g \in Tasks, NEW fd \in Fds, NEW e \in Events,
              AddEventCb(t, g, fd, e)
       PROVE  ThreadTypes'
  BY <1>17 DEF AddEventCb, WaitsFrom, localVars
<1> HIDE DEF TaskTypes, ThreadTypes
<1> QED
  BY <1>1, <1>2, <1>3, <1>4, <1>5, <1>6, <1>7, <1>8, <1>9, <1>10, <1>11, <1>12, <1>13,
       <1>14, <1>15, <1>16, <1>17, TriggerSteps
  DEF Next, WorkerStep, TaskStep, vars, DelEvent, TimerDue, KernelSignal,
      fdVars, timerVars, countVars, localVars, termVars

\* What the kernel holds and has reported.
LEMMA StepKernelTypes == IInv /\ [Next]_vars => KernelTypes'
<1> SUFFICES ASSUME IInv, [Next]_vars PROVE KernelTypes'
  OBVIOUS
<1>0. KernelTypes
  BY DEF IInv
<1> USE <1>0, IOAssumption DEF KernelTypes
<1>1. ASSUME NEW t \in Threads, EpollWait(t) PROVE KernelTypes'
  <2>1. /\ report' = [report EXCEPT ![t] = Returned]
        /\ signal' = [fd \in Fds |-> signal[fd] \ Reported(fd)]
    BY <1>1 DEF EpollWait, EpollReturn
  <2>2. \A fd \in Fds : Reported(fd) \in SUBSET Signals
    BY DEF Reported
  <2>3. Returned \subseteq [fd : Fds \cup {None}, evs : SUBSET Signals]
    BY <2>2 DEF Returned, TickleEntry
  <2> QED
    BY <2>1, <2>2, <2>3
<1>2. ASSUME NEW t \in Threads, HandleTickle(t) PROVE KernelTypes'
  BY <1>2 DEF HandleTickle, Handled, At, localVars
<1>3. ASSUME NEW fd \in Fds, NEW sig \in Signals, KernelSignal(fd, sig)
      PROVE  KernelTypes'
  BY <1>3 DEF KernelSignal, localVars
<1>4. CASE TriggerStep
  BY <1>4 DEF TriggerStep, Woke, WokenBy, fdVars, timerVars, countVars, localVars
<1>5. CASE UNCHANGED <<signal, report>>
  BY <1>5
<1> HIDE DEF KernelTypes
<1>6. ASSUME NEW t \in Threads, WorkerStep(t) PROVE KernelTypes'
  BY <1>6, <1>1, <1>2, <1>3, <1>4, <1>5, TriggerSteps DEF WorkerStep, Fetch, EnterIdle,
       StoppingRead, ListExpired, ScheduleExpired, LeaveIdle, Exit, fdVars,
       timerVars, countVars, localVars
<1>7. ASSUME NEW t \in Threads, TaskStep(t) PROVE KernelTypes'
  BY <1>7, <1>1, <1>2, <1>3, <1>4, <1>5, TriggerSteps DEF TaskStep, EndTask,
       AddEventAndPark, AddEventCb, AddTimerAndPark, DelEvent, LeaveTask, fdVars,
       timerVars, countVars, localVars
<1> QED
  BY <1>1, <1>2, <1>3, <1>4, <1>5, <1>6, <1>7 DEF Next, vars, OwnerSchedule, Stop,
       TimerDue, fdVars, timerVars, countVars, localVars

\* addEvent fills a context, delEvent and triggerEvent clear it.
LEMMA StepFilled == SharedNothing /\ IInv /\ [Next]_vars => ContextFilled'
<1> SUFFICES ASSUME SharedNothing, IInv, [Next]_vars PROVE ContextFilled'
  OBVIOUS
<1>0. RegTypes /\ ContextFilled
  BY DEF IInv
<1> USE <1>0 DEF RegTypes, ContextFilled
<1>1. ASSUME NEW t \in Threads, NEW fd \in Fds, NEW e \in Events,
             AddEventAndPark(t, fd, e)
      PROVE  ContextFilled'
  <2>1. task[t] \in Tasks /\ task[t] # None /\ place[task[t]] = "running"
        /\ <<fd, e>> \in Watch[task[t]]
    BY <1>1, BusyFacts DEF AddEventAndPark
  <2>2. e \notin events[fd] /\ AddEventFault(fd, e) = "none"
    BY <2>1, NotRegistered
  <2>3. /\ context' = [context EXCEPT ![fd][e] = task[t]]
        /\ events' = [events EXCEPT ![fd] = @ \cup {e}]
        /\ task[t] # None
    BY <1>1, <2>1 DEF AddEventAndPark, Register, IInv, RegTypes
  <2> QED
    BY <2>1, <2>2, <2>3, RegisteredMore
<1>2. ASSUME NEW t \in Threads, NEW g \in Tasks, NEW fd \in Fds, NEW e \in Events,
             AddEventCb(t, g, fd, e)
      PROVE  ContextFilled'
  <2>1. place[g] = "new" /\ <<fd, e>> \in Watch[g] /\ g # None
    BY <1>2, IOAssumption DEF AddEventCb
  <2>2. e \notin events[fd] /\ AddEventFault(fd, e) = "none"
    BY <2>1, NotRegistered
  <2>3. /\ context' = [context EXCEPT ![fd][e] = g]
        /\ events' = [events EXCEPT ![fd] = @ \cup {e}]
        /\ g # None
    BY <1>2, <2>1 DEF AddEventCb, Register, IInv, RegTypes
  <2> QED
    BY <2>1, <2>2, <2>3, RegisteredMore
<1>3. ASSUME NEW t \in Threads, NEW fd \in Fds, NEW e \in Events, DelEvent(t, fd, e)
      PROVE  ContextFilled'
  BY <1>3 DEF DelEvent, ClearContext, CountDown, At, fdVars
<1>4. CASE TriggerStep
  <2>1. ASSUME NEW fd \in Fds, NEW E \in SUBSET events[fd], Woke(fd, E)
        PROVE  ContextFilled'
    BY <2>1 DEF Woke
  <2> QED
    BY <1>4, <2>1 DEF TriggerStep, fdVars
<1>5. CASE UNCHANGED <<events, context>>
  BY <1>5
<1> HIDE DEF RegTypes, ContextFilled
<1>6. ASSUME NEW t \in Threads, WorkerStep(t) PROVE ContextFilled'
  BY <1>6, <1>1, <1>2, <1>3, <1>4, <1>5, TriggerSteps DEF WorkerStep, Fetch, EnterIdle,
       StoppingRead, EpollWait, ListExpired, ScheduleExpired, HandleTickle, LeaveIdle,
       Exit, EpollReturn, fdVars, timerVars, countVars, localVars
<1>7. ASSUME NEW t \in Threads, TaskStep(t) PROVE ContextFilled'
  BY <1>7, <1>1, <1>2, <1>3, <1>4, <1>5, TriggerSteps DEF TaskStep, EndTask,
       AddTimerAndPark, LeaveTask, fdVars, timerVars, countVars, localVars
<1> QED
  BY <1>1, <1>2, <1>3, <1>4, <1>5, <1>6, <1>7 DEF Next, vars, OwnerSchedule, Stop,
       TimerDue, KernelSignal, fdVars, timerVars, countVars, localVars

\* m_pendingEventCount follows the registered events.
LEMMA StepPending == SharedNothing /\ IInv /\ [Next]_vars => Pending'
<1> SUFFICES ASSUME SharedNothing, IInv, [Next]_vars PROVE Pending'
  OBVIOUS
<1>0. Pending
  BY DEF IInv
<1> USE <1>0 DEF Pending
<1>1. ASSUME NEW t \in Threads, NEW fd \in Fds, NEW e \in Events,
             AddEventAndPark(t, fd, e)
      PROVE  Pending'
  <2>1. task[t] \in Tasks /\ task[t] # None /\ place[task[t]] = "running"
        /\ <<fd, e>> \in Watch[task[t]]
    BY <1>1, BusyFacts DEF AddEventAndPark
  <2>2. e \notin events[fd] /\ AddEventFault(fd, e) = "none"
    BY <2>1, NotRegistered
  <2>3. events' = [events EXCEPT ![fd] = @ \cup {e}] /\ events \in [Fds -> SUBSET Events]
        /\ m_pendingEventCount' = m_pendingEventCount + 1
    BY <1>1, <2>1 DEF AddEventAndPark, Register, IInv, RegTypes
  <2> QED
    BY <2>1, <2>2, <2>3, RegisteredMore
<1>2. ASSUME NEW t \in Threads, NEW g \in Tasks, NEW fd \in Fds, NEW e \in Events,
             AddEventCb(t, g, fd, e)
      PROVE  Pending'
  <2>1. place[g] = "new" /\ <<fd, e>> \in Watch[g] /\ g # None
    BY <1>2, IOAssumption DEF AddEventCb
  <2>2. e \notin events[fd] /\ AddEventFault(fd, e) = "none"
    BY <2>1, NotRegistered
  <2>3. events' = [events EXCEPT ![fd] = @ \cup {e}] /\ events \in [Fds -> SUBSET Events]
        /\ m_pendingEventCount' = m_pendingEventCount + 1
    BY <1>2, <2>1 DEF AddEventCb, Register, IInv, RegTypes
  <2> QED
    BY <2>1, <2>2, <2>3, RegisteredMore
<1>3. ASSUME NEW t \in Threads, NEW fd \in Fds, NEW e \in Events, DelEvent(t, fd, e)
      PROVE  Pending'
  <2>1. /\ {e} \in SUBSET events[fd] /\ events \in [Fds -> SUBSET Events]
        /\ events' = [events EXCEPT ![fd] = @ \ {e}]
        /\ m_pendingEventCount' = m_pendingEventCount - 1
    BY <1>3 DEF DelEvent, CountDown, IInv, RegTypes
  <2>2. Cardinality({e}) = 1
    BY FS_Singleton
  <2> QED
    BY <2>1, <2>2, RegisteredLess
<1>4. CASE TriggerStep
  <2>1. ASSUME NEW fd \in Fds, NEW E \in SUBSET events[fd], Woke(fd, E) PROVE Pending'
    <3>1. /\ events \in [Fds -> SUBSET Events] /\ events' = [events EXCEPT ![fd] = @ \ E]
          /\ m_pendingEventCount' = m_pendingEventCount - Cardinality(E)
      BY <2>1 DEF IInv, RegTypes, Woke
    <3> QED
      BY <3>1, RegisteredLess
  <2> QED
    BY <1>4, <2>1 DEF TriggerStep, fdVars
<1>5. CASE UNCHANGED <<events, m_pendingEventCount>>
  BY <1>5
<1> HIDE DEF Pending
<1>6. ASSUME NEW t \in Threads, WorkerStep(t) PROVE Pending'
  BY <1>6, <1>1, <1>2, <1>3, <1>4, <1>5, TriggerSteps DEF WorkerStep, Fetch, EnterIdle,
       StoppingRead, EpollWait, ListExpired, ScheduleExpired, HandleTickle, LeaveIdle,
       Exit, EpollReturn, fdVars, timerVars, countVars, localVars
<1>7. ASSUME NEW t \in Threads, TaskStep(t) PROVE Pending'
  BY <1>7, <1>1, <1>2, <1>3, <1>4, <1>5, TriggerSteps DEF TaskStep, EndTask,
       AddTimerAndPark, LeaveTask, fdVars, timerVars, countVars, localVars
<1> QED
  BY <1>1, <1>2, <1>3, <1>4, <1>5, <1>6, <1>7 DEF Next, vars, OwnerSchedule, Stop,
       TimerDue, KernelSignal, fdVars, timerVars, countVars, localVars

\* addEvent's assertions hold; triggerEvent's may fail.
LEMMA StepFaults == SharedNothing /\ IInv /\ [Next]_vars => FaultsKnown'
<1> SUFFICES ASSUME SharedNothing, IInv, [Next]_vars PROVE FaultsKnown'
  OBVIOUS
<1>0. FaultsKnown
  BY DEF IInv
<1> USE <1>0 DEF FaultsKnown
<1>1. ASSUME NEW t \in Threads, NEW fd \in Fds, NEW e \in Events,
             AddEventAndPark(t, fd, e)
      PROVE  FaultsKnown'
  <2>1. task[t] \in Tasks /\ task[t] # None /\ place[task[t]] = "running"
        /\ <<fd, e>> \in Watch[task[t]]
    BY <1>1, BusyFacts DEF AddEventAndPark
  <2>2. e \notin events[fd] /\ AddEventFault(fd, e) = "none"
    BY <2>1, NotRegistered
  <2>3. fault' = AddEventFault(fd, e)
    BY <1>1, <2>1 DEF AddEventAndPark, Register, IInv, RegTypes
  <2> QED
    BY <2>1, <2>2, <2>3, RegisteredMore
<1>2. ASSUME NEW t \in Threads, NEW g \in Tasks, NEW fd \in Fds, NEW e \in Events,
             AddEventCb(t, g, fd, e)
      PROVE  FaultsKnown'
  <2>1. place[g] = "new" /\ <<fd, e>> \in Watch[g] /\ g # None
    BY <1>2, IOAssumption DEF AddEventCb
  <2>2. e \notin events[fd] /\ AddEventFault(fd, e) = "none"
    BY <2>1, NotRegistered
  <2>3. fault' = AddEventFault(fd, e)
    BY <1>2, <2>1 DEF AddEventCb, Register, IInv, RegTypes
  <2> QED
    BY <2>1, <2>2, <2>3, RegisteredMore
<1>3. CASE TriggerStep
  BY <1>3 DEF TriggerStep, Woke, WokenBy, fdVars, timerVars, countVars, localVars
<1>4. CASE UNCHANGED fault
  BY <1>4
<1> HIDE DEF FaultsKnown
<1>5. ASSUME NEW t \in Threads, WorkerStep(t) PROVE FaultsKnown'
  BY <1>5, <1>1, <1>2, <1>3, <1>4, TriggerSteps DEF WorkerStep, Fetch, EnterIdle,
       StoppingRead, EpollWait, ListExpired, ScheduleExpired, HandleTickle, LeaveIdle,
       Exit, EpollReturn, fdVars, timerVars, countVars, localVars
<1>6. ASSUME NEW t \in Threads, TaskStep(t) PROVE FaultsKnown'
  BY <1>6, <1>1, <1>2, <1>3, <1>4, TriggerSteps DEF TaskStep, EndTask, AddTimerAndPark,
       DelEvent, LeaveTask, fdVars, timerVars, countVars, localVars
<1> QED
  BY <1>1, <1>2, <1>3, <1>4, <1>5, <1>6 DEF Next, vars, OwnerSchedule, Stop, TimerDue,
       KernelSignal, fdVars, timerVars, countVars, localVars

\* Each move of a worker is counted.
LEMMA StepCounts == IInv /\ [Next]_vars => CountsExact'
<1> SUFFICES ASSUME IInv, [Next]_vars PROVE CountsExact'
  OBVIOUS
<1>0. ThreadTypes /\ CountsExact
  BY DEF IInv
<1> USE <1>0 DEF ThreadTypes, CountsExact
<1>1. ASSUME NEW t \in Threads, Fetch(t) PROVE CountsExact'
  <2>1. /\ \A u \in Threads \ {t} : pc'[u] = pc[u]
        /\ active' = active + (IF pc'[t] \in {"busy"} THEN 1 ELSE 0)
                            - (IF pc[t] \in {"busy"} THEN 1 ELSE 0)
        /\ idle' = idle + (IF pc'[t] \in IdlePlaces THEN 1 ELSE 0)
                        - (IF pc[t] \in IdlePlaces THEN 1 ELSE 0)
    BY <1>1, CountsInt DEF Fetch, At, Goto, countVars, IdlePlaces
  <2> QED
    BY <2>1, CountStep
<1>2. ASSUME NEW t \in Threads, EndTask(t) PROVE CountsExact'
  <2>1. /\ \A u \in Threads \ {t} : pc'[u] = pc[u]
        /\ active' = active + (IF pc'[t] \in {"busy"} THEN 1 ELSE 0)
                            - (IF pc[t] \in {"busy"} THEN 1 ELSE 0)
        /\ idle' = idle + (IF pc'[t] \in IdlePlaces THEN 1 ELSE 0)
                        - (IF pc[t] \in IdlePlaces THEN 1 ELSE 0)
    BY <1>2, CountsInt DEF EndTask, LeaveTask, At, Goto, countVars, IdlePlaces
  <2> QED
    BY <2>1, CountStep
<1>3. ASSUME NEW t \in Threads, NEW fd \in Fds, NEW e \in Events,
             AddEventAndPark(t, fd, e)
      PROVE  CountsExact'
  <2>1. /\ \A u \in Threads \ {t} : pc'[u] = pc[u]
        /\ active' = active + (IF pc'[t] \in {"busy"} THEN 1 ELSE 0)
                            - (IF pc[t] \in {"busy"} THEN 1 ELSE 0)
        /\ idle' = idle + (IF pc'[t] \in IdlePlaces THEN 1 ELSE 0)
                        - (IF pc[t] \in IdlePlaces THEN 1 ELSE 0)
    BY <1>3, CountsInt DEF AddEventAndPark, LeaveTask, At, Goto, countVars, IdlePlaces
  <2> QED
    BY <2>1, CountStep
<1>4. ASSUME NEW t \in Threads, AddTimerAndPark(t) PROVE CountsExact'
  <2>1. /\ \A u \in Threads \ {t} : pc'[u] = pc[u]
        /\ active' = active + (IF pc'[t] \in {"busy"} THEN 1 ELSE 0)
                            - (IF pc[t] \in {"busy"} THEN 1 ELSE 0)
        /\ idle' = idle + (IF pc'[t] \in IdlePlaces THEN 1 ELSE 0)
                        - (IF pc[t] \in IdlePlaces THEN 1 ELSE 0)
    BY <1>4, CountsInt DEF AddTimerAndPark, LeaveTask, At, Goto, countVars, IdlePlaces
  <2> QED
    BY <2>1, CountStep
<1>5. ASSUME NEW t \in Threads, EnterIdle(t) PROVE CountsExact'
  <2>1. /\ \A u \in Threads \ {t} : pc'[u] = pc[u]
        /\ active' = active + (IF pc'[t] \in {"busy"} THEN 1 ELSE 0)
                            - (IF pc[t] \in {"busy"} THEN 1 ELSE 0)
        /\ idle' = idle + (IF pc'[t] \in IdlePlaces THEN 1 ELSE 0)
                        - (IF pc[t] \in IdlePlaces THEN 1 ELSE 0)
    BY <1>5, CountsInt DEF EnterIdle, At, Goto, countVars, IdlePlaces
  <2> QED
    BY <2>1, CountStep
<1>6. ASSUME NEW t \in Threads, StoppingRead(t) PROVE CountsExact'
  <2>1. /\ \A u \in Threads \ {t} : pc'[u] = pc[u]
        /\ active' = active + (IF pc'[t] \in {"busy"} THEN 1 ELSE 0)
                            - (IF pc[t] \in {"busy"} THEN 1 ELSE 0)
        /\ idle' = idle + (IF pc'[t] \in IdlePlaces THEN 1 ELSE 0)
                        - (IF pc[t] \in IdlePlaces THEN 1 ELSE 0)
    BY <1>6, CountsInt DEF StoppingRead, At, Goto, countVars, IdlePlaces
  <2> QED
    BY <2>1, CountStep
<1>7. ASSUME NEW t \in Threads, EpollWait(t) PROVE CountsExact'
  <2>1. /\ \A u \in Threads \ {t} : pc'[u] = pc[u]
        /\ active' = active + (IF pc'[t] \in {"busy"} THEN 1 ELSE 0)
                            - (IF pc[t] \in {"busy"} THEN 1 ELSE 0)
        /\ idle' = idle + (IF pc'[t] \in IdlePlaces THEN 1 ELSE 0)
                        - (IF pc[t] \in IdlePlaces THEN 1 ELSE 0)
    BY <1>7, CountsInt DEF EpollWait, EpollReturn, At, Goto, countVars, IdlePlaces
  <2> QED
    BY <2>1, CountStep
<1>8. ASSUME NEW t \in Threads, ListExpired(t) PROVE CountsExact'
  <2>1. /\ \A u \in Threads \ {t} : pc'[u] = pc[u]
        /\ active' = active + (IF pc'[t] \in {"busy"} THEN 1 ELSE 0)
                            - (IF pc[t] \in {"busy"} THEN 1 ELSE 0)
        /\ idle' = idle + (IF pc'[t] \in IdlePlaces THEN 1 ELSE 0)
                        - (IF pc[t] \in IdlePlaces THEN 1 ELSE 0)
    BY <1>8, CountsInt DEF ListExpired, At, Goto, countVars, IdlePlaces
  <2> QED
    BY <2>1, CountStep
<1>9. ASSUME NEW t \in Threads, ScheduleExpired(t) PROVE CountsExact'
  <2>1. /\ \A u \in Threads \ {t} : pc'[u] = pc[u]
        /\ active' = active + (IF pc'[t] \in {"busy"} THEN 1 ELSE 0)
                            - (IF pc[t] \in {"busy"} THEN 1 ELSE 0)
        /\ idle' = idle + (IF pc'[t] \in IdlePlaces THEN 1 ELSE 0)
                        - (IF pc[t] \in IdlePlaces THEN 1 ELSE 0)
    BY <1>9, CountsInt DEF ScheduleExpired, At, Goto, countVars, IdlePlaces
  <2> QED
    BY <2>1, CountStep
<1>10. ASSUME NEW t \in Threads, LeaveIdle(t) PROVE CountsExact'
  <2>1. /\ \A u \in Threads \ {t} : pc'[u] = pc[u]
        /\ active' = active + (IF pc'[t] \in {"busy"} THEN 1 ELSE 0)
                            - (IF pc[t] \in {"busy"} THEN 1 ELSE 0)
        /\ idle' = idle + (IF pc'[t] \in IdlePlaces THEN 1 ELSE 0)
                        - (IF pc[t] \in IdlePlaces THEN 1 ELSE 0)
    BY <1>10, CountsInt DEF LeaveIdle, At, Goto, countVars, IdlePlaces
  <2> QED
    BY <2>1, CountStep
<1>11. ASSUME NEW t \in Threads, Exit(t) PROVE CountsExact'
  <2>1. /\ \A u \in Threads \ {t} : pc'[u] = pc[u]
        /\ active' = active + (IF pc'[t] \in {"busy"} THEN 1 ELSE 0)
                            - (IF pc[t] \in {"busy"} THEN 1 ELSE 0)
        /\ idle' = idle + (IF pc'[t] \in IdlePlaces THEN 1 ELSE 0)
                        - (IF pc[t] \in IdlePlaces THEN 1 ELSE 0)
    BY <1>11, CountsInt DEF Exit, At, Goto, countVars, IdlePlaces
  <2> QED
    BY <2>1, CountStep
<1>12. CASE TriggerStep
  BY <1>12 DEF TriggerStep, Woke, WokenBy, fdVars, timerVars, countVars, localVars
<1>13. CASE UNCHANGED <<active, idle, pc>>
  BY <1>13
<1> HIDE DEF ThreadTypes, CountsExact
<1>14. ASSUME NEW t \in Threads, WorkerStep(t) PROVE CountsExact'
  BY <1>1, <1>5, <1>6, <1>7, <1>8, <1>9, <1>10, <1>11, <1>12, <1>13, <1>14, TriggerSteps
  DEF WorkerStep, HandleTickle, countVars
<1>15. ASSUME NEW t \in Threads, TaskStep(t) PROVE CountsExact'
  BY <1>2, <1>3, <1>4, <1>12, <1>13, <1>15, TriggerSteps
  DEF TaskStep, AddEventCb, DelEvent, countVars
<1> QED
  BY <1>13, <1>14, <1>15 DEF Next, vars, OwnerSchedule, Stop, TimerDue, KernelSignal,
       countVars

\* A task registered for an event waits for nothing else.
LEMMA StepEventWakes == SharedNothing /\ IInv /\ [Next]_vars => EventWakes'
<1> SUFFICES ASSUME SharedNothing, IInv, [Next]_vars PROVE EventWakes'
  OBVIOUS
<1>0. RegTypes /\ TaskTypes /\ ThreadTypes /\ PlacesExact /\ EventWakes /\ TimerWakes
  BY DEF IInv
<1> USE <1>0, IOAssumption DEF RegTypes, TaskTypes, ThreadTypes, PlacesExact,
     EventWakes, TimerWakes
<1>1. ASSUME NEW t \in Threads, Fetch(t) PROVE EventWakes'
  BY <1>1 DEF Fetch, At, Goto, fdVars, timerVars, localVars
<1>2. ASSUME NEW t \in Threads, EndTask(t) PROVE EventWakes'
  BY <1>2 DEF EndTask, At, Goto, LeaveTask, fdVars, timerVars, localVars
<1>3. ASSUME NEW t \in Threads, NEW fd \in Fds, NEW e \in Events,
             AddEventAndPark(t, fd, e)
      PROVE  EventWakes'
  <2> DEFINE f == task[t]
  <2>1. task[t] \in Tasks /\ task[t] # None /\ place[task[t]] = "running"
        /\ <<fd, e>> \in Watch[task[t]]
    BY <1>3, BusyFacts DEF AddEventAndPark
  <2>2. /\ \A x \in Fds, y \in Events : context[x][y] # f
        /\ f \notin timers /\ \A u \in Threads : f \notin expired[u]
        /\ context[fd][e] = None
    BY <2>1, NotRegistered
  <2>3. /\ place' = [place EXCEPT ![f] = "parked"] /\ timers' = timers /\ expired' = expired
        /\ context' = [context EXCEPT ![fd][e] = f]
    BY <1>3 DEF AddEventAndPark, Register, LeaveTask, timerVars, localVars
  <2>4. f \in Tasks /\ f # None /\ place[f] # "parked" /\ <<fd, e>> \in Watch[f]
    BY <2>1
  <2>5. \A x \in Fds, y \in Events :
          context'[x][y] = IF x = fd /\ y = e THEN f ELSE context[x][y]
    BY <2>3
  <2> HIDE DEF f
  <2> SUFFICES ASSUME NEW x \in Fds, NEW y \in Events, context'[x][y] # None
               PROVE  LET h == context'[x][y] IN
                      /\ place'[h] = "parked" /\ <<x, y>> \in Watch[h] /\ h \notin timers'
                      /\ \A u \in Threads : h \notin expired'[u]
                      /\ \A x2 \in Fds, y2 \in Events :
                           context'[x2][y2] = h => x2 = x /\ y2 = y
    OBVIOUS
  <2>6. CASE x = fd /\ y = e
    BY <2>2, <2>3, <2>4, <2>5, <2>6
  <2>7. CASE ~(x = fd /\ y = e)
    <3>1. context'[x][y] = context[x][y] /\ context[x][y] # f /\ context[x][y] \in Tasks
      BY <2>2, <2>5, <2>7
    <3>0. context[x][y] # None => place[context[x][y]] = "parked"
      BY DEF EventWakes
    <3>2. place'[context[x][y]] = "parked"
      BY <2>3, <2>4, <3>0, <3>1
    <3> QED
      BY <2>2, <2>3, <2>5, <3>1, <3>2
  <2> QED
    BY <2>6, <2>7
<1>4. ASSUME NEW t \in Threads, NEW g \in Tasks, NEW fd \in Fds, NEW e \in Events,
             AddEventCb(t, g, fd, e)
      PROVE  EventWakes'
  <2> DEFINE f == g
  <2>1. g \in Tasks /\ g # None /\ place[g] = "new" /\ <<fd, e>> \in Watch[g]
    BY <1>4, IOAssumption DEF AddEventCb
  <2>2. /\ \A x \in Fds, y \in Events : context[x][y] # f
        /\ f \notin timers /\ \A u \in Threads : f \notin expired[u]
        /\ context[fd][e] = None
    BY <2>1, NotRegistered
  <2>3. /\ place' = [place EXCEPT ![f] = "parked"] /\ timers' = timers /\ expired' = expired
        /\ context' = [context EXCEPT ![fd][e] = f]
    BY <1>4 DEF AddEventCb, Register, LeaveTask, timerVars, localVars
  <2>4. f \in Tasks /\ f # None /\ place[f] # "parked" /\ <<fd, e>> \in Watch[f]
    BY <2>1
  <2>5. \A x \in Fds, y \in Events :
          context'[x][y] = IF x = fd /\ y = e THEN f ELSE context[x][y]
    BY <2>3
  <2> HIDE DEF f
  <2> SUFFICES ASSUME NEW x \in Fds, NEW y \in Events, context'[x][y] # None
               PROVE  LET h == context'[x][y] IN
                      /\ place'[h] = "parked" /\ <<x, y>> \in Watch[h] /\ h \notin timers'
                      /\ \A u \in Threads : h \notin expired'[u]
                      /\ \A x2 \in Fds, y2 \in Events :
                           context'[x2][y2] = h => x2 = x /\ y2 = y
    OBVIOUS
  <2>6. CASE x = fd /\ y = e
    BY <2>2, <2>3, <2>4, <2>5, <2>6
  <2>7. CASE ~(x = fd /\ y = e)
    <3>1. context'[x][y] = context[x][y] /\ context[x][y] # f /\ context[x][y] \in Tasks
      BY <2>2, <2>5, <2>7
    <3>0. context[x][y] # None => place[context[x][y]] = "parked"
      BY DEF EventWakes
    <3>2. place'[context[x][y]] = "parked"
      BY <2>3, <2>4, <3>0, <3>1
    <3> QED
      BY <2>2, <2>3, <2>5, <3>1, <3>2
  <2> QED
    BY <2>6, <2>7
<1>5. ASSUME NEW t \in Threads, AddTimerAndPark(t) PROVE EventWakes'
  BY <1>5 DEF AddTimerAndPark, At, Goto, LeaveTask, fdVars, timerVars, localVars
<1>6. ASSUME NEW t \in Threads, NEW fd \in Fds, NEW e \in Events, DelEvent(t, fd, e)
      PROVE  EventWakes'
  BY <1>6 DEF DelEvent, ClearContext, CountDown, At, fdVars, timerVars, localVars
<1>7. ASSUME NEW t \in Threads, ListExpired(t) PROVE EventWakes'
  BY <1>7 DEF ListExpired, At, Goto, fdVars, timerVars, localVars
<1>8. ASSUME NEW t \in Threads, ScheduleExpired(t) PROVE EventWakes'
  BY <1>8 DEF ScheduleExpired, At, Goto, Schedule, Move, fdVars, timerVars, localVars
<1>9. ASSUME NEW f \in Tasks, OwnerSchedule(f) PROVE EventWakes'
  BY <1>9 DEF OwnerSchedule, Schedule, Move, fdVars, timerVars, localVars
<1>10. CASE TriggerStep
  BY <1>10 DEF TriggerStep, Woke, WokenBy, fdVars, timerVars, countVars, localVars
<1>11. CASE UNCHANGED <<context, place, timers, expired>>
  BY <1>11
<1> HIDE DEF RegTypes, TaskTypes, ThreadTypes, PlacesExact, EventWakes, TimerWakes
<1> QED
  BY <1>1, <1>2, <1>3, <1>4, <1>5, <1>6, <1>7, <1>8, <1>9, <1>10, <1>11, TriggerSteps
  DEF Next, WorkerStep, TaskStep, vars, EnterIdle, StoppingRead, EpollWait,
      HandleTickle, LeaveIdle, Exit, Stop, TimerDue, KernelSignal, EpollReturn,
      fdVars, timerVars, countVars, localVars

\* Nor does one that has a timer, or whose timer has expired.
LEMMA StepTimerWakes == IInv /\ [Next]_vars => TimerWakes'
<1> SUFFICES ASSUME IInv, [Next]_vars PROVE TimerWakes'
  OBVIOUS
<1>0. TaskTypes /\ ThreadTypes /\ PlacesExact /\ TimerWakes /\ ExpiredHeld
  BY DEF IInv
<1> USE <1>0, IOAssumption DEF TaskTypes, ThreadTypes, PlacesExact, TimerWakes,
     ExpiredHeld
<1>1. ASSUME NEW t \in Threads, Fetch(t) PROVE TimerWakes'
  BY <1>1 DEF Fetch, At, Goto, timerVars, localVars
<1>2. ASSUME NEW t \in Threads, EndTask(t) PROVE TimerWakes'
  BY <1>2 DEF EndTask, At, Goto, LeaveTask, timerVars, localVars
<1>3. ASSUME NEW t \in Threads, NEW fd \in Fds, NEW e \in Events,
             AddEventAndPark(t, fd, e)
      PROVE  TimerWakes'
  BY <1>3 DEF AddEventAndPark, Register, At, Goto, LeaveTask, timerVars, localVars
<1>4. ASSUME NEW t \in Threads, NEW g \in Tasks, NEW fd \in Fds, NEW e \in Events,
             AddEventCb(t, g, fd, e)
      PROVE  TimerWakes'
  BY <1>4 DEF AddEventCb, Register, At, timerVars, localVars
<1>5. ASSUME NEW t \in Threads, AddTimerAndPark(t) PROVE TimerWakes'
  BY <1>5 DEF AddTimerAndPark, At, Goto, LeaveTask, timerVars, localVars
<1>6. ASSUME NEW t \in Threads, NEW fd \in Fds, NEW e \in Events, DelEvent(t, fd, e)
      PROVE  TimerWakes'
  <2>1. e \in events[fd] /\ fd \in Fds
    BY <1>6 DEF DelEvent
  <2>2. context[fd][e] \in WokenBy(fd, {e})
    BY DEF WokenBy
  <2>3. /\ context[fd][e] \notin timers
        /\ \A u \in Threads : context[fd][e] \notin expired[u]
    BY <2>1, <2>2, WokenFacts
  <2> QED
    BY <1>6, <2>3 DEF DelEvent, fdVars, timerVars, countVars, localVars
<1>7. ASSUME NEW t \in Threads, ListExpired(t) PROVE TimerWakes'
  BY <1>7 DEF ListExpired, At, Goto, timerVars, localVars
<1>8. ASSUME NEW t \in Threads, ScheduleExpired(t) PROVE TimerWakes'
  BY <1>8 DEF ScheduleExpired, At, Goto, Schedule, Move, timerVars, localVars
<1>9. ASSUME NEW f \in Tasks, OwnerSchedule(f) PROVE TimerWakes'
  BY <1>9 DEF OwnerSchedule, Schedule, Move, timerVars, localVars
<1>10. CASE TriggerStep
  <2>1. CASE UNCHANGED place
    BY <1>10, <2>1 DEF TriggerStep, timerVars
  <2>2. ASSUME NEW fd \in Fds, NEW E \in SUBSET events[fd], Woke(fd, E)
        PROVE  TimerWakes'
    <3>1. \A f \in WokenBy(fd, E) :
            f \notin timers /\ \A u \in Threads : f \notin expired[u]
      BY WokenFacts
    <3>2. place' = [f \in Tasks |-> IF f \in WokenBy(fd, E) THEN "queued" ELSE place[f]]
      BY <2>2 DEF Woke
    <3>3. timers' = timers /\ expired' = expired
      BY <1>10 DEF TriggerStep, timerVars
    <3> QED
      BY <3>1, <3>2, <3>3
  <2> QED
    BY <1>10, <2>1, <2>2 DEF TriggerStep
<1>11. CASE UNCHANGED <<timers, place, expired>>
  BY <1>11
<1> HIDE DEF TaskTypes, ThreadTypes, PlacesExact, TimerWakes, ExpiredHeld
<1> QED
  BY <1>1, <1>2, <1>3, <1>4, <1>5, <1>6, <1>7, <1>8, <1>9, <1>10, <1>11, TriggerSteps
  DEF Next, WorkerStep, TaskStep, vars, EnterIdle, StoppingRead, EpollWait,
      HandleTickle, LeaveIdle, Exit, Stop, TimerDue, KernelSignal, EpollReturn,
      fdVars, timerVars, countVars, localVars

\* Whatever parks a task registers it, whatever takes it out wakes it.
LEMMA StepParked == SharedNothing /\ IInv /\ [Next]_vars => ParkedKnown'
<1> SUFFICES ASSUME SharedNothing, IInv, [Next]_vars PROVE ParkedKnown'
  OBVIOUS
<1>0. RegTypes /\ TaskTypes /\ ThreadTypes /\ PlacesExact /\ ParkedKnown /\ ExpiredHeld
  BY DEF IInv
<1> USE <1>0, IOAssumption DEF RegTypes, TaskTypes, ThreadTypes, PlacesExact,
     ParkedKnown, ExpiredHeld
<1>1. ASSUME NEW t \in Threads, Fetch(t) PROVE ParkedKnown'
  BY <1>1 DEF Fetch, At, Goto, fdVars, timerVars, localVars
<1>2. ASSUME NEW t \in Threads, EndTask(t) PROVE ParkedKnown'
  BY <1>2 DEF EndTask, At, Goto, LeaveTask, fdVars, timerVars, localVars
<1>3. ASSUME NEW t \in Threads, NEW fd \in Fds, NEW e \in Events,
             AddEventAndPark(t, fd, e)
      PROVE  ParkedKnown'
  <2> DEFINE f == task[t]
  <2>1. task[t] \in Tasks /\ task[t] # None /\ place[task[t]] = "running"
        /\ <<fd, e>> \in Watch[task[t]]
    BY <1>3, BusyFacts DEF AddEventAndPark
  <2>2. /\ \A x \in Fds, y \in Events : context[x][y] # f
        /\ f \notin timers /\ \A u \in Threads : f \notin expired[u]
        /\ context[fd][e] = None
    BY <2>1, NotRegistered
  <2>3. /\ place' = [place EXCEPT ![f] = "parked"] /\ timers' = timers /\ expired' = expired
        /\ context' = [context EXCEPT ![fd][e] = f]
    BY <1>3 DEF AddEventAndPark, Register, LeaveTask, timerVars, localVars
  <2>4. f \in Tasks /\ f # None /\ place[f] # "parked" /\ <<fd, e>> \in Watch[f]
    BY <2>1
  <2>5. \A x \in Fds, y \in Events :
          context'[x][y] = IF x = fd /\ y = e THEN f ELSE context[x][y]
    BY <2>3
  <2> HIDE DEF f
  <2> SUFFICES ASSUME NEW h \in Tasks, place'[h] = "parked"
               PROVE  \/ h \in timers' \/ \E u \in Threads : h \in expired'[u]
                      \/ \E x \in Fds, y \in Events : context'[x][y] = h
    OBVIOUS
  <2>6. CASE h = f
    BY <2>5, <2>6
  <2>7. CASE h # f
    <3>1. place[h] = "parked"
      BY <2>3, <2>7
    <3>2. \A x \in Fds, y \in Events : context[x][y] = h => context'[x][y] = h
      BY <2>2, <2>5, IOAssumption
    <3> QED
      BY <2>3, <3>1, <3>2
  <2> QED
    BY <2>6, <2>7
<1>4. ASSUME NEW t \in Threads, NEW g \in Tasks, NEW fd \in Fds, NEW e \in Events,
             AddEventCb(t, g, fd, e)
      PROVE  ParkedKnown'
  <2> DEFINE f == g
  <2>1. g \in Tasks /\ g # None /\ place[g] = "new" /\ <<fd, e>> \in Watch[g]
    BY <1>4, IOAssumption DEF AddEventCb
  <2>2. /\ \A x \in Fds, y \in Events : context[x][y] # f
        /\ f \notin timers /\ \A u \in Threads : f \notin expired[u]
        /\ context[fd][e] = None
    BY <2>1, NotRegistered
  <2>3. /\ place' = [place EXCEPT ![f] = "parked"] /\ timers' = timers /\ expired' = expired
        /\ context' = [context EXCEPT ![fd][e] = f]
    BY <1>4 DEF AddEventCb, Register, LeaveTask, timerVars, localVars
  <2>4. f \in Tasks /\ f # None /\ place[f] # "parked" /\ <<fd, e>> \in Watch[f]
    BY <2>1
  <2>5. \A x \in Fds, y \in Events :
          context'[x][y] = IF x = fd /\ y = e THEN f ELSE context[x][y]
    BY <2>3
  <2> HIDE DEF f
  <2> SUFFICES ASSUME NEW h \in Tasks, place'[h] = "parked"
               PROVE  \/ h \in timers' \/ \E u \in Threads : h \in expired'[u]
                      \/ \E x \in Fds, y \in Events : context'[x][y] = h
    OBVIOUS
  <2>6. CASE h = f
    BY <2>5, <2>6
  <2>7. CASE h # f
    <3>1. place[h] = "parked"
      BY <2>3, <2>7
    <3>2. \A x \in Fds, y \in Events : context[x][y] = h => context'[x][y] = h
      BY <2>2, <2>5, IOAssumption
    <3> QED
      BY <2>3, <3>1, <3>2
  <2> QED
    BY <2>6, <2>7
<1>5. ASSUME NEW t \in Threads, AddTimerAndPark(t) PROVE ParkedKnown'
  BY <1>5 DEF AddTimerAndPark, At, Goto, LeaveTask, fdVars, timerVars, localVars
<1>6. ASSUME NEW t \in Threads, NEW fd \in Fds, NEW e \in Events, DelEvent(t, fd, e)
      PROVE  ParkedKnown'
  BY <1>6 DEF DelEvent, ClearContext, CountDown, At, fdVars, timerVars, localVars
<1>7. ASSUME NEW t \in Threads, ListExpired(t) PROVE ParkedKnown'
  BY <1>7 DEF ListExpired, At, Goto, fdVars, timerVars, localVars
<1>8. ASSUME NEW t \in Threads, ScheduleExpired(t) PROVE ParkedKnown'
  BY <1>8 DEF ScheduleExpired, At, Goto, Schedule, Move, fdVars, timerVars, localVars
<1>9. ASSUME NEW f \in Tasks, OwnerSchedule(f) PROVE ParkedKnown'
  BY <1>9 DEF OwnerSchedule, Schedule, Move, fdVars, timerVars, localVars
<1>10. CASE TriggerStep
  <2>1. timers' = timers /\ expired' = expired
    BY <1>10 DEF TriggerStep, timerVars
  <2>2. CASE UNCHANGED <<fdVars, queue, place, pipe>>
    BY <2>1, <2>2 DEF fdVars
  <2>3. ASSUME NEW fd \in Fds, NEW E \in SUBSET events[fd], Woke(fd, E)
        PROVE  ParkedKnown'
    <3> SUFFICES ASSUME NEW h \in Tasks, place'[h] = "parked"
                 PROVE  \/ h \in timers' \/ \E u \in Threads : h \in expired'[u]
                        \/ \E x \in Fds, y \in Events : context'[x][y] = h
      OBVIOUS
    <3>1. h \notin WokenBy(fd, E) /\ place[h] = "parked"
      BY <2>3 DEF Woke
    <3>2. \A x \in Fds, y \in Events : context[x][y] = h => context'[x][y] = h
      BY <2>3, <3>1 DEF Woke, WokenBy
    <3> QED
      BY <2>1, <3>1, <3>2
  <2> QED
    BY <1>10, <2>2, <2>3 DEF TriggerStep
<1>11. CASE UNCHANGED <<place, timers, expired, context>>
  BY <1>11
<1> HIDE DEF RegTypes, TaskTypes, ThreadTypes, PlacesExact, ParkedKnown, ExpiredHeld
<1> QED
  BY <1>1, <1>2, <1>3, <1>4, <1>5, <1>6, <1>7, <1>8, <1>9, <1>10, <1>11, TriggerSteps
  DEF Next, WorkerStep, TaskStep, vars, EnterIdle, StoppingRead, EpollWait,
      HandleTickle, LeaveIdle, Exit, Stop, TimerDue, KernelSignal, EpollReturn,
      fdVars, timerVars, countVars, localVars

-----------------------------------------------------------------------------
(* The theorems. *)

\* The initial state satisfies the invariant.
LEMMA InitIInv == Init => IInv
<1> SUFFICES ASSUME Init PROVE IInv
  OBVIOUS
<1> USE IOAssumption DEF Init
<1>1. RegTypes /\ TaskTypes /\ ThreadTypes /\ KernelTypes
  <2>1. MaxRuns \in 0 .. MaxRuns
    OBVIOUS
  <2>2. RegTypes /\ KernelTypes
    BY DEF RegTypes, KernelTypes
  <2>3. TaskTypes /\ ThreadTypes
    BY <2>1 DEF TaskTypes, ThreadTypes, Places, ThreadPlaces
  <2> QED
    BY <2>2, <2>3
<1>2. Pending
  <2>1. RegisteredIn(events) = {}
    BY DEF RegisteredIn
  <2> QED
    BY <2>1, FS_EmptySet DEF Pending
<1>3. ContextFilled /\ FaultsKnown /\ RunsLeft /\ PlacesExact
  BY DEF ContextFilled, FaultsKnown, RunsLeft, PlacesExact
<1>4. EventWakes /\ TimerWakes /\ ParkedKnown /\ ExpiredHeld
  BY DEF EventWakes, TimerWakes, ParkedKnown, ExpiredHeld
<1>5. CountsExact
  <2>1. Inside(pc, {"busy"}) = {} /\ Inside(pc, IdlePlaces) = {}
    BY DEF Inside, IdlePlaces
  <2> QED
    BY <2>1, FS_EmptySet DEF CountsExact
<1>6. ReportsWatched /\ IdleEnds /\ Attended
  BY DEF ReportsWatched, IdleEnds, IdlePlaces, Attended
<1> QED
  BY <1>1, <1>2, <1>3, <1>4, <1>5, <1>6 DEF IInv

\* Every step keeps it.
LEMMA NextIInv == SharedNothing /\ IInv /\ [Next]_vars => IInv'
<1> SUFFICES ASSUME SharedNothing, IInv, [Next]_vars PROVE IInv'
  OBVIOUS
<1>1. RegTypes' /\ TaskTypes' /\ ThreadTypes' /\ KernelTypes'
  BY StepRegTypes, StepTaskTypes, StepThreadTypes, StepKernelTypes
<1>2. Pending' /\ ContextFilled' /\ FaultsKnown'
  BY StepFilled, StepPending, StepFaults
<1>3. /\ RunsLeft' /\ PlacesExact' /\ ExpiredHeld' /\ CountsExact' /\ ReportsWatched'
      /\ IdleEnds' /\ Attended'
  BY StepRuns, StepPlaces, StepExpired, StepCounts, StepReports, StepIdleEnds, StepAttended
<1>4. EventWakes' /\ TimerWakes' /\ ParkedKnown'
  BY StepEventWakes, StepTimerWakes, StepParked
<1> QED
  BY <1>1, <1>2, <1>3, <1>4 DEF IInv

\* The inductive invariant holds of every behaviour.
LEMMA Invariance == SharedNothing => (Spec => []IInv)
<1> SUFFICES ASSUME SharedNothing PROVE Spec => []IInv
  OBVIOUS
<1>1. IInv /\ [Next]_vars => IInv'
  BY NextIInv
<1> QED
  BY <1>1, InitIInv, PTL DEF Spec

\* The counters of IOManager and Scheduler stay in their range: unsigned,
\* m_pendingEventCount never goes below zero.
THEOREM TypeCorrect == SharedNothing => (Spec => []TypeOK)
<1> SUFFICES ASSUME SharedNothing PROVE Spec => []TypeOK
  OBVIOUS
<1>1. IInv => TypeOK
  <2> SUFFICES ASSUME IInv PROVE TypeOK
    OBVIOUS
  <2>1. m_pendingEventCount \in Nat
    BY RegisteredFinite DEF IInv, Pending
  <2>2. active \in 0 .. Cardinality(Threads) /\ idle \in 0 .. Cardinality(Threads)
    BY CountsInt
  <2> QED
    BY <2>1, <2>2 DEF IInv, TypeOK, RegTypes, TaskTypes, ThreadTypes, KernelTypes
<1> QED
  BY <1>1, Invariance, PTL

\* A parked task has exactly one waker: an event context, a stored timer or
\* the list of callbacks of one worker.  Any other task has none.
LEMMA OneWakerInv == IInv => OneWaker
<1> SUFFICES ASSUME IInv, NEW f \in Tasks
             PROVE  Cardinality(Wakers(f)) = (IF place[f] = "parked" THEN 1 ELSE 0)
  BY DEF OneWaker
<1>0. EventWakes /\ TimerWakes /\ ParkedKnown /\ f # None
  BY IOAssumption DEF IInv
<1> DEFINE Contexts == {q \in Fds \X Events : context[q[1]][q[2]] = f}
           Holders == {u \in Threads : f \in expired[u]}
<1>1. Wakers(f) = {<<"event", p>> : p \in Contexts}
                    \cup (IF f \in timers THEN {<<"timer">>} ELSE {})
                    \cup {<<"expired", t>> : t \in Holders}
  BY DEF Wakers
<1>2. CASE place[f] # "parked"
  <2>1. Contexts = {}
    <3> SUFFICES ASSUME NEW x \in Fds, NEW y \in Events, context[x][y] = f PROVE FALSE
      OBVIOUS
    <3>1. context[x][y] # None => place[context[x][y]] = "parked"
      BY <1>0 DEF EventWakes
    <3> QED
      BY <1>0, <1>2, <3>1
  <2>2. f \notin timers /\ Holders = {}
    BY <1>0, <1>2 DEF TimerWakes
  <2>3. Wakers(f) = {}
    BY <1>1, <2>1, <2>2
  <2> QED
    BY <1>2, <2>3, FS_EmptySet
<1>3. CASE place[f] = "parked"
  <2>1. \E w : Wakers(f) = {w}
    <3>1. CASE f \in timers
      <4>1. Contexts = {}
        <5> SUFFICES ASSUME NEW x \in Fds, NEW y \in Events,
                            context[x][y] = f PROVE FALSE
          OBVIOUS
        <5>1. context[x][y] # None => context[x][y] \notin timers
          BY <1>0 DEF EventWakes
        <5> QED
          BY <1>0, <3>1, <5>1
      <4>2. Holders = {}
        BY <1>0, <3>1 DEF TimerWakes
      <4>3. Wakers(f) = {<<"timer">>}
        BY <1>1, <3>1, <4>1, <4>2
      <4> QED
        BY <4>3
    <3>2. ASSUME NEW t \in Threads, f \in expired[t]
          PROVE  \E w : Wakers(f) = {w}
      <4>1. Contexts = {}
        <5> SUFFICES ASSUME NEW x \in Fds, NEW y \in Events,
                            context[x][y] = f PROVE FALSE
          OBVIOUS
        <5>1. context[x][y] # None => context[x][y] \notin expired[t]
          BY <1>0 DEF EventWakes
        <5> QED
          BY <1>0, <3>2, <5>1
      <4>2. f \notin timers /\ Holders = {t}
        BY <1>0, <3>2 DEF TimerWakes
      <4>3. Wakers(f) = {<<"expired", t>>}
        BY <1>1, <4>1, <4>2
      <4> QED
        BY <4>3
    <3>3. ASSUME NEW x \in Fds, NEW y \in Events, context[x][y] = f
          PROVE  \E w : Wakers(f) = {w}
      <4>1. /\ f \notin timers /\ \A t \in Threads : f \notin expired[t]
            /\ \A x2 \in Fds, y2 \in Events : context[x2][y2] = f => x2 = x /\ y2 = y
        <5>1. /\ context[x][y] # None
              /\ context[x][y] # None =>
                   /\ context[x][y] \notin timers
                   /\ \A t \in Threads : context[x][y] \notin expired[t]
                   /\ \A x2 \in Fds, y2 \in Events :
                        context[x2][y2] = context[x][y] => x2 = x /\ y2 = y
          BY <1>0, <3>3 DEF EventWakes
        <5> QED
          BY <3>3, <5>1
      <4>2. Contexts = {<<x, y>>}
        BY <3>3, <4>1
      <4>3. Holders = {}
        BY <4>1
      <4>4. Wakers(f) = {<<"event", <<x, y>>>>}
        BY <1>1, <4>1, <4>2, <4>3
      <4> QED
        BY <4>4
    <3> QED
      BY <1>0, <1>3, <3>1, <3>2, <3>3 DEF ParkedKnown
  <2> QED
    BY <1>3, <2>1, FS_Singleton
<1> QED
  BY <1>2, <1>3

\* No wake-up is lost and none is doubled: a parked task has one waker at all
\* times, whichever of delivery, cancel, timer and registration comes first.
THEOREM WakersCorrect == SharedNothing => (Spec => []OneWaker)
<1> SUFFICES ASSUME SharedNothing PROVE Spec => []OneWaker
  OBVIOUS
<1> QED
  BY OneWakerInv, Invariance, PTL

\* stop(): although the three parts of stopping() are read one after the
\* other, the workers do not all leave while a task is left, except one that
\* was parked by a thread whose idle fiber had ended.
THEOREM StopCorrect == SharedNothing => (Spec => []StopComplete)
<1> SUFFICES ASSUME SharedNothing PROVE Spec => []StopComplete
  OBVIOUS
<1>1. IInv => StopComplete
  <2> SUFFICES ASSUME IInv, \A t \in Threads : pc[t] = "done", NEW f \in Tasks
               PROVE  /\ place[f] \notin {"queued", "running"}
                      /\ place[f] = "parked" => f \in stranded
    BY DEF StopComplete
  <2>1. \A t \in Threads : t \in idleTerm /\ expired[t] = {} /\ task[t] = None
    BY DEF IInv, IdleEnds, ExpiredHeld, PlacesExact
  <2>2. /\ queue = {} /\ timers \subseteq stranded
        /\ \A fd \in Fds : \A e \in events[fd] : context[fd][e] \in stranded
    BY <2>1 DEF IInv, Attended, Looks
  <2>3. place[f] \notin {"queued", "running"}
    BY <2>1, <2>2, IOAssumption DEF IInv, PlacesExact
  <2>4. ASSUME place[f] = "parked", f \notin timers PROVE f \in stranded
    <3>1. PICK fd \in Fds, e \in Events : context[fd][e] = f
      BY <2>1, <2>4 DEF IInv, ParkedKnown
    <3>2. e \in events[fd]
      BY <3>1, IOAssumption DEF IInv, ContextFilled
    <3> QED
      BY <2>2, <3>1, <3>2
  <2> QED
    BY <2>2, <2>3, <2>4
<1> QED
  BY <1>1, Invariance, PTL

\* The assertions, one action at a time: an action that finds the process alive
\* leaves it alive, or it is idle() with a torn report.
LEMMA StepExplained ==
  SharedNothing /\ IInv /\ FaultExplained /\ [Next]_vars => FaultExplained'
<1> SUFFICES ASSUME SharedNothing, IInv, FaultExplained, [Next]_vars PROVE FaultExplained'
  OBVIOUS
<1>1. ASSUME fault' = "none" PROVE FaultExplained'
  BY <1>1 DEF FaultExplained
<1>2. ASSUME UNCHANGED vars PROVE FaultExplained'
  BY <1>2 DEF FaultExplained, TornReport, vars
<1>3. CASE Next
  <2>1. fault = "none"
    <3>1. ASSUME NEW t \in Threads, WorkerStep(t) PROVE fault = "none"
      BY <3>1 DEF WorkerStep, At, Fetch, EnterIdle, StoppingRead, EpollWait, ListExpired,
           ScheduleExpired, HandleEvent, HandleTickle, LeaveIdle, Exit
    <3>2. ASSUME NEW t \in Threads, TaskStep(t) PROVE fault = "none"
      BY <3>2 DEF TaskStep, At, EndTask, AddTimerAndPark, AddEventAndPark, AddEventCb,
           DelEvent, CancelEvent, CancelAll
    <3> QED
      BY <1>3, <3>1, <3>2 DEF Next, OwnerSchedule, TimerDue, Stop, KernelSignal
  <2>2. \A fd \in Fds : \A E \in SUBSET events[fd] : Trigger(fd, E) => fault' = fault
    BY DEF Trigger
  <2>3. ASSUME NEW t \in Threads, HandleEvent(t) PROVE FaultExplained'
    <3>1. PICK r \in report[t] \ {TickleEntry} :
            IF StillWanted(r)
              THEN /\ Trigger(r.fd, RealEvents(r.evs))
                   /\ report' = IF fault' = "none" THEN Handled(t, r) ELSE report
              ELSE UNCHANGED fault
      BY <2>3 DEF HandleEvent
    <3>2. r.fd \in Fds
      BY DEF IInv, ReportsWatched
    <3>3. CASE ~StillWanted(r)
      BY <1>1, <2>1, <3>1, <3>3
    <3>4. CASE StillWanted(r) /\ RealEvents(r.evs) \subseteq events[r.fd]
      BY <1>1, <2>1, <2>2, <3>1, <3>2, <3>4
    <3>5. CASE StillWanted(r) /\ ~(RealEvents(r.evs) \subseteq events[r.fd])
      <4>1. /\ fault' = "triggerEvent: events & event" /\ events' = events
            /\ report' = report /\ pc' = pc /\ pc[t] = "events"
        BY <2>3, <3>1, <3>5 DEF HandleEvent, Trigger, fdVars, At
      <4>2. TornReport(r)'
        BY <3>5, <4>1 DEF TornReport, StillWanted
      <4> QED
        BY <4>1, <4>2 DEF FaultExplained
    <3> QED
      BY <3>3, <3>4, <3>5
  <2>4. ASSUME NEW t \in Threads, NEW fd \in Fds, NEW e \in Events,
               CancelEvent(t, fd, e) \/ CancelAll(t, fd)
        PROVE  FaultExplained'
    <3>1. \E E \in SUBSET events[fd] : Trigger(fd, E)
      BY <2>4 DEF CancelEvent, CancelAll
    <3> QED
      BY <1>1, <2>1, <2>2, <3>1
  <2>5. ASSUME NEW t \in Threads, NEW fd \in Fds, NEW e \in Events,
               AddEventAndPark(t, fd, e)
        PROVE  FaultExplained'
    <3>1. /\ task[t] \in Tasks /\ place[task[t]] # "parked" /\ <<fd, e>> \in Watch[task[t]]
      BY <2>5, BusyFacts DEF AddEventAndPark
    <3> QED
      BY <1>1, <2>5, <3>1, NotRegistered DEF AddEventAndPark
  <2>6. ASSUME NEW t \in Threads, NEW fd \in Fds, NEW e \in Events, NEW g \in Tasks,
               AddEventCb(t, g, fd, e)
        PROVE  FaultExplained'
    BY <1>1, <2>6, NotRegistered DEF AddEventCb
  <2>7. ASSUME NEW t \in Threads, NEW fd \in Fds, CancelAll(t, fd) PROVE FaultExplained'
    BY <2>4, <2>7 DEF Events
  <2>8. ASSUME UNCHANGED fault PROVE FaultExplained'
    BY <1>1, <2>1, <2>8
  <2>9. ASSUME NEW t \in Threads, WorkerStep(t) PROVE FaultExplained'
    BY <2>3, <2>8, <2>9
    DEF WorkerStep, Fetch, EnterIdle, StoppingRead, EpollWait, EpollReturn, ListExpired,
        ScheduleExpired, HandleTickle, LeaveIdle, Exit
  <2>10. ASSUME NEW t \in Threads, TaskStep(t) PROVE FaultExplained'
    BY <2>4, <2>5, <2>6, <2>7, <2>8, <2>10 DEF TaskStep, EndTask, AddTimerAndPark, DelEvent
  <2> QED
    BY <1>3, <2>8, <2>9, <2>10 DEF Next, OwnerSchedule, TimerDue, Stop, KernelSignal
<1> QED
  BY <1>2, <1>3

\* Whatever the kernel reports, hang-ups and both events at once included: the
\* counter and the contexts agree with the events, addEvent's assertions hold,
\* and triggerEvent's fails only for a torn report.
THEOREM RegistrationsCorrect == SharedNothing => (Spec => []RegistrationsExact)
<1> SUFFICES ASSUME SharedNothing PROVE Spec => []RegistrationsExact
  OBVIOUS
<1>1. Init => FaultExplained
  BY DEF Init, FaultExplained
<1>2. IInv /\ FaultExplained /\ [Next]_vars => FaultExplained'
  BY StepExplained
<1>3. IInv /\ FaultExplained => RegistrationsExact
  BY RegisteredSame DEF IInv, Pending, PendingExact, RegistrationsExact
<1> QED
  BY <1>1, <1>2, <1>3, Invariance, PTL DEF Spec
=============================================================================
