-------------------------------- MODULE Hook --------------------------------
(***************************************************************************)
(* The hooked socket calls of common/hook.cpp: do_io (read, write, accept  *)
(* and their variants), connect_with_timeout and close, on one descriptor. *)
(* Fibers, timer callbacks and close() share the worker threads, so at     *)
(* most workers of them are between two steps.  The IOManager is reduced   *)
(* to who is registered for an event (module IOManager), the yield that    *)
(* follows addEvent is part of it (module Scheduler).                      *)
(***************************************************************************)
EXTENDS Integers, FiniteSets

CONSTANTS
  Fibers,
  None,
  Event,       \* the event each fiber's call waits for
  Connectors,  \* fibers that call connect; the others call do_io
  Timed,       \* fibers whose call has a timeout (to # -1)
  Pools,       \* numbers of threads the IOManager may be made with
  MaxCalls,    \* bound on the calls of each fiber
  MaxUnits,    \* bound on what the peer sends (or drains) per event
  MaxSpurious  \* bound on readiness reports without data

Events == {"READ", "WRITE"}

ASSUME HookAssumption ==
  /\ IsFiniteSet(Fibers) /\ None \notin Fibers
  /\ Event \in [Fibers -> Events]
  /\ \A f, g \in Fibers : Event[f] = Event[g] => f = g  \* addEvent asserts it
  /\ Connectors \subseteq Fibers /\ Timed \subseteq Fibers
  /\ Pools \subseteq Nat \ {0}
  /\ MaxCalls \in [Fibers -> Nat] /\ MaxUnits \in Nat /\ MaxSpurious \in Nat

VARIABLES
  workers,          \* number of threads
  open, known,      \* the descriptor is open; FdManager has its FdCtx
  conn,             \* none, progress, up, failed
  avail, sent,      \* units a call can take now; units that ever came
  spurious,         \* spurious reports so far
  reg,              \* the fiber registered for each event
  pc, calls,        \* each fiber's step and the number of its current call
  cancelled,        \* tinfo->cancelled of the current call
  stored,           \* the timer of the current wait is in the TimerManager
  callbacks,        \* collected callbacks: fiber, call and step
  fired,            \* a timer of the current call has expired
  result,           \* of the last call
  closer            \* the step of close()

callVars == <<pc, calls, cancelled, stored, fired, result>>
envVars == <<workers, conn, avail, sent, spurious>>
fdVars == <<open, known, closer>>
vars == <<workers, open, known, conn, avail, sent, spurious, reg, pc, calls, cancelled,
          stored, callbacks, fired, result, closer>>

Init ==
  /\ workers \in Pools
  /\ open = TRUE /\ known = TRUE
  /\ conn = IF Connectors = {} THEN "up" ELSE "none"
  /\ avail = [e \in Events |-> 0] /\ sent = [e \in Events |-> 0]
  /\ spurious = 0
  /\ reg = [e \in Events |-> None]
  /\ pc = [f \in Fibers |-> "out"] /\ calls = [f \in Fibers |-> 0]
  /\ cancelled = [f \in Fibers |-> FALSE]
  /\ stored = [f \in Fibers |-> FALSE] /\ callbacks = {}
  /\ fired = [f \in Fibers |-> FALSE] /\ result = [f \in Fibers |-> "none"]
  /\ closer = "out"

-----------------------------------------------------------------------------
OnThread == {f \in Fibers : pc[f] \in {"fun", "arm", "add", "woken", "check", "sockerr"}}
CallbacksOnThread == {c \in callbacks : c.at = "cancel"}
FreeWorker ==
  Cardinality(OnThread) + Cardinality(CallbacksOnThread)
    + (IF closer \in {"del", "close_f"} THEN 1 ELSE 0) < workers

At(f, where) == pc[f] = where
Goto(f, where) == pc' = [pc EXCEPT ![f] = where]
Return(f, r) == Goto(f, "out") /\ result' = [result EXCEPT ![f] = r]

\* triggerEvent of the events E: their fibers are scheduled.
TriggerForgotten(E) ==
  /\ reg' = [e \in Events |-> IF e \in E THEN None ELSE reg[e]]
  /\ UNCHANGED pc
Trigger(E) ==
  /\ reg' = [e \in Events |-> IF e \in E THEN None ELSE reg[e]]
  /\ pc' = [f \in Fibers |-> IF \E e \in E : reg[e] = f THEN "queued" ELSE pc[f]]

-----------------------------------------------------------------------------
(* do_io and connect_with_timeout *)

\* The call takes a unit.
TakenUnchecked(e) == open /\ avail' = [avail EXCEPT ![e] = @ - 1]
Taken(e) == open /\ avail[e] > 0 /\ avail' = [avail EXCEPT ![e] = @ - 1]

\* The FdCtx is found and tinfo made.
Begin(f) ==
  /\ At(f, "out") /\ FreeWorker /\ calls[f] < MaxCalls[f] /\ known
  /\ calls' = [calls EXCEPT ![f] = @ + 1]
  /\ cancelled' = [cancelled EXCEPT ![f] = FALSE]
  /\ fired' = [fired EXCEPT ![f] = FALSE]
  /\ Goto(f, "fun") /\ result' = [result EXCEPT ![f] = "none"]
  /\ UNCHANGED <<fdVars, envVars, reg, stored, callbacks>>

\* Without an FdCtx do_io is the plain (non-blocking) call, connect EBADF.
BeginUnknown(f) ==
  /\ At(f, "out") /\ FreeWorker /\ calls[f] < MaxCalls[f] /\ ~known
  /\ calls' = [calls EXCEPT ![f] = @ + 1]
  /\ cancelled' = [cancelled EXCEPT ![f] = FALSE]
  /\ \/ f \notin Connectors /\ Taken(Event[f]) /\ Return(f, "ok")
     \/ (f \in Connectors \/ ~open \/ avail[Event[f]] = 0) /\ Return(f, "error")
        /\ UNCHANGED avail
  /\ UNCHANGED <<fdVars, workers, conn, sent, spurious, reg, stored, callbacks, fired>>

\* fun(fd, ...): EBADF or ENOTCONN, success, or EAGAIN and a wait.
Wait(f) == Goto(f, IF f \in Timed THEN "arm" ELSE "add") /\ UNCHANGED result

Fun(f) ==
  /\ At(f, "fun") /\ f \notin Connectors
  /\ LET e == Event[f] IN
       \/ (~open \/ conn # "up") /\ Return(f, "error") /\ UNCHANGED avail
       \/ Taken(e) /\ Return(f, "ok")
       \/ open /\ conn = "up" /\ avail[e] = 0 /\ Wait(f) /\ UNCHANGED avail
  /\ UNCHANGED <<fdVars, workers, conn, sent, spurious, reg, calls, cancelled, stored,
                 callbacks, fired>>

\* connect_f: an error, an immediate success, or EINPROGRESS.
ConnectFun(f) ==
  /\ At(f, "fun") /\ f \in Connectors
  /\ \/ (~open \/ conn # "none") /\ Return(f, "error") /\ UNCHANGED conn
     \/ open /\ conn = "none" /\ Return(f, "ok") /\ conn' = "up"
     \/ open /\ conn = "none" /\ Return(f, "error") /\ conn' = "failed"
     \/ open /\ conn = "none" /\ Wait(f) /\ conn' = "progress"
  /\ UNCHANGED <<fdVars, workers, avail, sent, spurious, reg, calls, cancelled, stored,
                 callbacks, fired>>

AddConditionTimer(f) ==
  /\ At(f, "arm")
  /\ stored' = [stored EXCEPT ![f] = TRUE] /\ Goto(f, "add")
  /\ UNCHANGED <<fdVars, envVars, reg, calls, cancelled, callbacks, fired,
                 result>>

\* timer->cancel() of the wait's timer, if it is still stored.
CancelTimerForgotten(f) == UNCHANGED stored
CancelTimer(f) == stored' = [stored EXCEPT ![f] = FALSE]

\* epoll_ctl refuses a closed descriptor: the timer is taken back; do_io
\* returns, connect goes on to SO_ERROR.
AddEventFails(f) ==
  /\ CancelTimer(f)
  /\ IF f \in Connectors
       THEN Goto(f, "sockerr") /\ UNCHANGED result
       ELSE Return(f, "error")

AddEvent(f) ==
  /\ At(f, "add")
  /\ LET e == Event[f] IN
       \/ /\ open
          /\ reg' = [reg EXCEPT ![e] = f]
          /\ Goto(f, "parked")
          /\ UNCHANGED <<stored, result>>
       \/ ~open /\ AddEventFails(f) /\ UNCHANGED reg
  /\ UNCHANGED <<fdVars, envVars, calls, cancelled, callbacks, fired>>

Resume(f) ==
  /\ At(f, "queued") /\ FreeWorker
  /\ Goto(f, "woken")
  /\ UNCHANGED <<fdVars, envVars, reg, calls, cancelled, stored, callbacks,
                 fired, result>>

Woken(f) ==
  /\ At(f, "woken")
  /\ CancelTimer(f) /\ Goto(f, "check")
  /\ UNCHANGED <<fdVars, envVars, reg, calls, cancelled, callbacks, fired,
                 result>>

\* if(tinfo->cancelled) ...; else do_io retries and connect asks SO_ERROR.
TimedOut(f) == cancelled[f]

Check(f) ==
  /\ At(f, "check")
  /\ \/ TimedOut(f) /\ Return(f, "timeout")
     \/ ~TimedOut(f) /\ UNCHANGED result
        /\ Goto(f, IF f \in Connectors THEN "sockerr" ELSE "fun")
  /\ UNCHANGED <<fdVars, envVars, reg, calls, cancelled, stored, callbacks,
                 fired>>

SockError == ~open \/ conn = "failed"

GetSockError(f) ==
  /\ At(f, "sockerr")
  /\ Return(f, IF SockError THEN "error" ELSE "ok")
  /\ UNCHANGED <<fdVars, envVars, reg, calls, cancelled, stored, callbacks,
                 fired>>

-----------------------------------------------------------------------------
(* The timer: collected by an idle thread, then run as a task of its own.  *)
(* Of two collected callbacks of one call the second does nothing, since   *)
(* cancelled is set or the call is over, so a set of them loses nothing.   *)

Expire(f) ==
  /\ stored[f] /\ FreeWorker
  /\ CancelTimer(f)
  /\ callbacks' = callbacks \cup {[fiber |-> f, call |-> calls[f], at |-> "due"]}
  /\ fired' = [fired EXCEPT ![f] = TRUE]
  /\ UNCHANGED <<fdVars, envVars, reg, pc, calls, cancelled, result>>

\* winfo.lock(): the tinfo lives as long as its call.
AliveUnchecked(c) == TRUE
Alive(c) == pc[c.fiber] # "out" /\ calls[c.fiber] = c.call

RunCallback(c) ==
  /\ c \in callbacks /\ c.at = "due" /\ FreeWorker
  /\ IF Alive(c) /\ ~cancelled[c.fiber]
       THEN /\ cancelled' = [cancelled EXCEPT ![c.fiber] = TRUE]
            /\ callbacks' = (callbacks \ {c}) \cup {[c EXCEPT !.at = "cancel"]}
       ELSE callbacks' = callbacks \ {c} /\ UNCHANGED cancelled
  /\ UNCHANGED <<fdVars, envVars, reg, pc, calls, stored, fired, result>>

\* cancelEvent(fd, event): false when the event is not registered (any more)
\* and when epoll_ctl refuses a closed descriptor.
CallbackCancelsForgotten(c) ==
  /\ c \in callbacks /\ c.at = "cancel"
  /\ callbacks' = callbacks \ {c}
  /\ UNCHANGED <<fdVars, envVars, reg, pc, calls, cancelled, stored, fired,
                 result>>

CallbackCancels(c) ==
  /\ c \in callbacks /\ c.at = "cancel"
  /\ callbacks' = callbacks \ {c}
  /\ IF open /\ reg[Event[c.fiber]] # None
       THEN Trigger({Event[c.fiber]})
       ELSE UNCHANGED <<reg, pc>>
  /\ UNCHANGED <<fdVars, envVars, calls, cancelled, stored, fired, result>>

-----------------------------------------------------------------------------
(* close(): cancelAll, del, close_f *)

CloseCancelAll ==
  /\ closer = "out" /\ FreeWorker
  /\ closer' = "del"
  /\ Trigger({e \in Events : reg[e] # None})
  /\ UNCHANGED <<open, known, envVars, calls, cancelled, stored, fired, result,
                 callbacks>>

CloseDel ==
  /\ closer = "del" /\ closer' = "close_f" /\ known' = FALSE
  /\ UNCHANGED <<open, envVars, reg, callVars, callbacks>>

CloseFd ==
  /\ closer = "close_f" /\ closer' = "over" /\ open' = FALSE
  /\ UNCHANGED <<known, envVars, reg, callVars, callbacks>>

-----------------------------------------------------------------------------
(* Kernel and peer *)

Ready(e) ==
  \/ avail[e] > 0
  \/ reg[e] \in Connectors /\ conn \in {"up", "failed"}

\* idle() handles a report for the event.
Report(e) ==
  /\ open /\ reg[e] # None /\ FreeWorker
  /\ \/ Ready(e) /\ UNCHANGED spurious
     \/ ~Ready(e) /\ spurious < MaxSpurious /\ reg[e] \notin Connectors
        /\ spurious' = spurious + 1
  /\ Trigger({e})
  /\ UNCHANGED <<fdVars, workers, conn, avail, sent, calls, cancelled, stored, fired,
                 result, callbacks>>

Peer(e) ==
  /\ conn = "up" /\ sent[e] < MaxUnits
  /\ sent' = [sent EXCEPT ![e] = @ + 1] /\ avail' = [avail EXCEPT ![e] = @ + 1]
  /\ UNCHANGED <<fdVars, workers, conn, spurious, reg, callVars, callbacks>>

Answer ==
  /\ conn = "progress" /\ conn' \in {"up", "failed"}
  /\ UNCHANGED <<fdVars, workers, avail, sent, spurious, reg, callVars, callbacks>>

-----------------------------------------------------------------------------
FiberStep(f) ==
  \/ Begin(f) \/ BeginUnknown(f) \/ Fun(f) \/ ConnectFun(f) \/ AddConditionTimer(f) \/ AddEvent(f)
  \/ Resume(f) \/ Woken(f) \/ Check(f) \/ GetSockError(f)

Next ==
  \/ \E f \in Fibers : FiberStep(f) \/ Expire(f)
  \/ \E c \in callbacks : RunCallback(c) \/ CallbackCancels(c)
  \/ CloseCancelAll \/ CloseDel \/ CloseFd
  \/ \E e \in Events : Report(e) \/ Peer(e)
  \/ Answer

\* The workers run what is scheduled and collect expired timers and reported
\* events; nothing is assumed of the peer.
Fairness ==
  /\ \A f \in Fibers : WF_vars(FiberStep(f)) /\ WF_vars(Expire(f))
  /\ WF_vars(\E c \in callbacks : RunCallback(c) \/ CallbackCancels(c))
  /\ \A e \in Events : WF_vars(Ready(e) /\ Report(e))
  /\ WF_vars(CloseDel) /\ WF_vars(CloseFd)

Spec == Init /\ [][Next]_vars
FairSpec == Spec /\ Fairness

-----------------------------------------------------------------------------
(* Properties *)

\* The call's local state and the shared state it touches.
TypeOK ==
  /\ workers \in Pools /\ open \in BOOLEAN /\ known \in BOOLEAN
  /\ conn \in {"none", "progress", "up", "failed"}
  /\ avail \in [Events -> 0 .. MaxUnits] /\ sent \in [Events -> 0 .. MaxUnits]
  /\ spurious \in 0 .. MaxSpurious
  /\ reg \in [Events -> Fibers \cup {None}]
  /\ pc \in [Fibers -> {"out", "fun", "arm", "add", "parked", "queued", "woken",
                        "check", "sockerr"}]
  /\ calls \in [Fibers -> Nat]
  /\ cancelled \in [Fibers -> BOOLEAN] /\ fired \in [Fibers -> BOOLEAN]
  /\ stored \in [Fibers -> BOOLEAN]
  /\ callbacks \subseteq [fiber : Fibers, call : Nat, at : {"due", "cancel"}]
  /\ result \in [Fibers -> {"none", "ok", "timeout", "error"}]
  /\ closer \in {"out", "del", "close_f", "over"}

\* A fiber is registered exactly while it is parked, whichever of readiness,
\* timeout, a late callback of an earlier wait and close() comes first.
WaitersExact ==
  \A f \in Fibers : (pc[f] = "parked") <=> (reg[Event[f]] = f)

\* A call returns ETIMEDOUT only if a timer of that very call expired: the
\* callback of an earlier call, run late, does not time out the next one.
TimeoutHonest == \A f \in Fibers : cancelled[f] => fired[f]

\* A timer never outlives the wait it was added for.
TimersBelongToWaits ==
  \A f \in Fibers : stored[f] => pc[f] \in {"add", "parked", "queued", "woken"}

\* connect reports success only for an established connection, unless the
\* descriptor is closed under it.
ConnectHonest ==
  \A f \in Connectors : result[f] = "ok" /\ closer = "out" => conn = "up"

\* Registration, parked fiber and timer come and go together.
WaitsExact == WaitersExact /\ TimersBelongToWaits

\* Neither outcome of a call is claimed for a reason of another call.
ResultsHonest == TimeoutHonest /\ ConnectHonest

\* With one worker, a call with a timeout returns even if the peer never
\* answers, unless the descriptor is closed under it.  (With more workers
\* the timer can expire between addConditionTimer and addEvent.)
TimedCallReturns ==
  \A f \in Timed : (workers = 1 /\ pc[f] # "out") ~> (pc[f] = "out" \/ ~open)

\* A call that can be served is, by any number of workers: data that arrives
\* between the EAGAIN and the registration is not missed.
ServedCallReturns ==
  \A f \in Fibers \ Connectors :
    (pc[f] # "out" /\ avail[Event[f]] > 0) ~> (pc[f] = "out" \/ ~open)

\* No fiber waits on a closed descriptor.
NobodyWaitsOnClosed == ~open => \A f \in Fibers : pc[f] # "parked"
=============================================================================
