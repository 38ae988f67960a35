----------------------------- MODULE HookProofs -----------------------------
(***************************************************************************)
(* The safety properties of Hook hold for any fibers, calls, timeouts and  *)
(* numbers of threads.  WaitersExact and TimersBelongToWaits are nearly    *)
(* inductive; TimeoutHonest needs to know which call a late callback       *)
(* belongs to, ConnectHonest that a descriptor is connected but once.      *)
(***************************************************************************)
EXTENDS Hook, TLAPS

\* close() goes through its three steps in order.
CloserPhases ==
  /\ open <=> closer # "over"
  /\ known <=> closer \in {"out", "del"}

\* A fiber is registered for its own event.
RegisteredForOwn == \A e \in Events : reg[e] # None => Event[reg[e]] = e

\* A collected callback is of the fiber's current call, whose timer has then
\* expired, or of an earlier one.
CallbacksPast ==
  \A c \in callbacks :
    /\ c.call <= calls[c.fiber]
    /\ c.call = calls[c.fiber] => fired[c.fiber] /\ (c.at = "cancel" => cancelled[c.fiber])

\* There is nothing to take that was not sent over the connection.
UnitsSent == \A e \in Events : avail[e] <= sent[e] /\ (avail[e] > 0 => conn = "up")

Waiting == {"arm", "add", "parked", "queued", "woken", "check", "sockerr"}

\* Of all calls of connect one waits: it has begun to connect, and no
\* callback of an earlier call is left.
ConnectsOnce ==
  \A f \in Connectors :
    /\ pc[f] \in Waiting \/ stored[f] => conn # "none"
    /\ \A c \in callbacks : c.fiber = f =>
         conn # "none" /\ (pc[f] \in Waiting => c.call = calls[f])

\* A waiting connect goes on because it is answered or timed out, unless
\* the descriptor is being closed.
ConnectAnswered ==
  \A f \in Connectors : closer = "out" =>
    /\ pc[f] \in {"queued", "woken", "check"} => cancelled[f] \/ conn \in {"up", "failed"}
    /\ pc[f] = "sockerr" => conn \in {"up", "failed"}

\* The inductive invariant.
IInv ==
  /\ TypeOK /\ CloserPhases /\ RegisteredForOwn /\ CallbacksPast /\ UnitsSent
  /\ ConnectsOnce /\ ConnectAnswered
  /\ WaitersExact /\ TimersBelongToWaits /\ TimeoutHonest /\ ConnectHonest

\* The initial state satisfies the invariant.
LEMMA InitIInv == Init => IInv
<1> SUFFICES ASSUME Init PROVE IInv
  OBVIOUS
<1> USE HookAssumption DEF Init
<1>1. TypeOK
  BY DEF TypeOK, Events
<1>2. CloserPhases /\ RegisteredForOwn /\ CallbacksPast /\ UnitsSent
  BY DEF CloserPhases, RegisteredForOwn, CallbacksPast, UnitsSent
<1>3. ConnectsOnce /\ ConnectAnswered /\ ConnectHonest
  BY DEF ConnectsOnce, ConnectAnswered, ConnectHonest, Waiting
<1>4. WaitersExact /\ TimersBelongToWaits /\ TimeoutHonest
  BY DEF WaitersExact, TimersBelongToWaits, TimeoutHonest
<1> QED BY <1>1, <1>2, <1>3, <1>4 DEF IInv

\* Every variable keeps its type, and close() its order.
LEMMA StepTypes ==
  TypeOK /\ CloserPhases /\ RegisteredForOwn /\ WaitersExact /\ UnitsSent /\ [Next]_vars
    => TypeOK' /\ CloserPhases' /\ UnitsSent'
<1> SUFFICES ASSUME TypeOK, CloserPhases, RegisteredForOwn, WaitersExact, UnitsSent,
                    [Next]_vars
             PROVE  TypeOK' /\ CloserPhases' /\ UnitsSent'
  OBVIOUS
<1> USE HookAssumption DEF TypeOK, CloserPhases, UnitsSent, Events
<1>1. ASSUME NEW f \in Fibers, Begin(f) PROVE TypeOK' /\ CloserPhases' /\ UnitsSent'
  BY <1>1 DEF Begin, At, Goto, envVars, fdVars
<1>2. ASSUME NEW f \in Fibers, BeginUnknown(f)
      PROVE  TypeOK' /\ CloserPhases' /\ UnitsSent'
  BY <1>2 DEF BeginUnknown, At, Goto, Return, Taken, fdVars
<1>3. ASSUME NEW f \in Fibers, Fun(f) PROVE TypeOK' /\ CloserPhases' /\ UnitsSent'
  BY <1>3 DEF Fun, At, Goto, Return, Wait, Taken, fdVars
<1>4. ASSUME NEW f \in Fibers, ConnectFun(f)
      PROVE  TypeOK' /\ CloserPhases' /\ UnitsSent'
  BY <1>4 DEF ConnectFun, At, Goto, Return, Wait, fdVars
<1>5. ASSUME NEW f \in Fibers, AddConditionTimer(f)
      PROVE  TypeOK' /\ CloserPhases' /\ UnitsSent'
  BY <1>5 DEF AddConditionTimer, At, Goto, fdVars, envVars
<1>6. ASSUME NEW f \in Fibers, AddEvent(f) PROVE TypeOK' /\ CloserPhases' /\ UnitsSent'
  <2>1. /\ pc' \in [Fibers -> {"out", "fun", "arm", "add", "parked", "queued", "woken",
                              "check", "sockerr"}]
        /\ result' \in [Fibers -> {"none", "ok", "timeout", "error"}]
    BY <1>6 DEF AddEvent, At, Goto, Return, AddEventFails
  <2>2. stored' \in [Fibers -> BOOLEAN]
    BY <1>6 DEF AddEvent, AddEventFails, CancelTimer
  <2>3. reg' \in [Events -> Fibers \cup {None}]
    BY <1>6 DEF AddEvent
  <2> QED BY <1>6, <2>1, <2>2, <2>3 DEF AddEvent, fdVars, envVars
<1>7. ASSUME NEW f \in Fibers, Resume(f) PROVE TypeOK' /\ CloserPhases' /\ UnitsSent'
  BY <1>7 DEF Resume, At, Goto, fdVars, envVars
<1>8. ASSUME NEW f \in Fibers, Woken(f) PROVE TypeOK' /\ CloserPhases' /\ UnitsSent'
  BY <1>8 DEF Woken, At, Goto, CancelTimer, fdVars, envVars
<1>9. ASSUME NEW f \in Fibers, Check(f) PROVE TypeOK' /\ CloserPhases' /\ UnitsSent'
  BY <1>9 DEF Check, At, Goto, Return, TimedOut, fdVars, envVars
<1>10. ASSUME NEW f \in Fibers, GetSockError(f)
       PROVE  TypeOK' /\ CloserPhases' /\ UnitsSent'
  BY <1>10 DEF GetSockError, At, Goto, Return, SockError, fdVars, envVars
<1>11. ASSUME NEW f \in Fibers, Expire(f) PROVE TypeOK' /\ CloserPhases' /\ UnitsSent'
  BY <1>11 DEF Expire, CancelTimer, fdVars, envVars
<1>12. ASSUME NEW c \in callbacks, RunCallback(c)
       PROVE  TypeOK' /\ CloserPhases' /\ UnitsSent'
  <2>1. callbacks' \subseteq [fiber : Fibers, call : Nat, at : {"due", "cancel"}]
    BY <1>12 DEF RunCallback
  <2>2. cancelled' \in [Fibers -> BOOLEAN]
    BY <1>12 DEF RunCallback
  <2> QED BY <1>12, <2>1, <2>2 DEF RunCallback, fdVars, envVars
<1>13. ASSUME NEW c \in callbacks, CallbackCancels(c)
       PROVE  TypeOK' /\ CloserPhases' /\ UnitsSent'
  BY <1>13 DEF CallbackCancels, Trigger, fdVars, envVars
<1>14. CASE CloseCancelAll
  BY <1>14 DEF CloseCancelAll, Trigger, envVars
<1>15. CASE CloseDel
  BY <1>15 DEF CloseDel, envVars, callVars
<1>16. CASE CloseFd
  BY <1>16 DEF CloseFd, envVars, callVars
<1>17. ASSUME NEW e \in Events, Report(e) PROVE TypeOK' /\ CloserPhases' /\ UnitsSent'
  <2>1. /\ pc' \in [Fibers -> {"out", "fun", "arm", "add", "parked", "queued", "woken",
                              "check", "sockerr"}]
        /\ reg' \in [Events -> Fibers \cup {None}] /\ spurious' \in 0 .. MaxSpurious
    BY <1>17 DEF Report, Trigger
  <2> QED BY <1>17, <2>1 DEF Report, fdVars
<1>18. ASSUME NEW e \in Events, Peer(e) PROVE TypeOK' /\ CloserPhases' /\ UnitsSent'
  BY <1>18 DEF Peer, fdVars, callVars
<1>19. CASE Answer
  BY <1>19 DEF Answer, fdVars, callVars
<1>20. CASE UNCHANGED vars
  BY <1>20 DEF vars, fdVars, envVars, callVars
<1> QED
  BY <1>1, <1>2, <1>3, <1>4, <1>5, <1>6, <1>7, <1>8, <1>9, <1>10,
     <1>11, <1>12, <1>13, <1>14, <1>15, <1>16, <1>17, <1>18, <1>19, <1>20 DEF Next,
      FiberStep

\* Registration, parked fiber and timer come and go together.
LEMMA StepWaits ==
  TypeOK /\ RegisteredForOwn /\ WaitersExact /\ TimersBelongToWaits /\ [Next]_vars
    => RegisteredForOwn' /\ WaitersExact' /\ TimersBelongToWaits'
<1> SUFFICES ASSUME TypeOK, RegisteredForOwn, WaitersExact, TimersBelongToWaits,
                    [Next]_vars
             PROVE  RegisteredForOwn' /\ WaitersExact' /\ TimersBelongToWaits'
  OBVIOUS
<1> USE HookAssumption DEF TypeOK, RegisteredForOwn, WaitersExact, TimersBelongToWaits
<1>1. ASSUME NEW f \in Fibers, Begin(f)
      PROVE  RegisteredForOwn' /\ WaitersExact' /\ TimersBelongToWaits'
  BY <1>1 DEF Begin, At, Goto, envVars, fdVars
<1>2. ASSUME NEW f \in Fibers, BeginUnknown(f)
      PROVE  RegisteredForOwn' /\ WaitersExact' /\ TimersBelongToWaits'
  BY <1>2 DEF BeginUnknown, At, Goto, Return, Taken, fdVars
<1>3. ASSUME NEW f \in Fibers, Fun(f)
      PROVE  RegisteredForOwn' /\ WaitersExact' /\ TimersBelongToWaits'
  BY <1>3 DEF Fun, At, Goto, Return, Wait, Taken, fdVars
<1>4. ASSUME NEW f \in Fibers, ConnectFun(f)
      PROVE  RegisteredForOwn' /\ WaitersExact' /\ TimersBelongToWaits'
  BY <1>4 DEF ConnectFun, At, Goto, Return, Wait, fdVars
<1>5. ASSUME NEW f \in Fibers, AddConditionTimer(f)
      PROVE  RegisteredForOwn' /\ WaitersExact' /\ TimersBelongToWaits'
  BY <1>5 DEF AddConditionTimer, At, Goto, fdVars, envVars
<1>6. ASSUME NEW f \in Fibers, AddEvent(f)
      PROVE  RegisteredForOwn' /\ WaitersExact' /\ TimersBelongToWaits'
  BY <1>6 DEF AddEvent, At, Goto, Return, AddEventFails, CancelTimer, fdVars, envVars
<1>7. ASSUME NEW f \in Fibers, Resume(f)
      PROVE  RegisteredForOwn' /\ WaitersExact' /\ TimersBelongToWaits'
  BY <1>7 DEF Resume, At, Goto, fdVars, envVars
<1>8. ASSUME NEW f \in Fibers, Woken(f)
      PROVE  RegisteredForOwn' /\ WaitersExact' /\ TimersBelongToWaits'
  BY <1>8 DEF Woken, At, Goto, CancelTimer, fdVars, envVars
<1>9. ASSUME NEW f \in Fibers, Check(f)
      PROVE  RegisteredForOwn' /\ WaitersExact' /\ TimersBelongToWaits'
  BY <1>9 DEF Check, At, Goto, Return, TimedOut, fdVars, envVars
<1>10. ASSUME NEW f \in Fibers, GetSockError(f)
       PROVE  RegisteredForOwn' /\ WaitersExact' /\ TimersBelongToWaits'
  BY <1>10 DEF GetSockError, At, Goto, Return, SockError, fdVars, envVars
<1>11. ASSUME NEW f \in Fibers, Expire(f)
       PROVE  RegisteredForOwn' /\ WaitersExact' /\ TimersBelongToWaits'
  BY <1>11 DEF Expire, CancelTimer, fdVars, envVars
<1>12. ASSUME NEW c \in callbacks, RunCallback(c)
       PROVE  RegisteredForOwn' /\ WaitersExact' /\ TimersBelongToWaits'
  BY <1>12 DEF RunCallback, Alive, fdVars, envVars
<1>13. ASSUME NEW c \in callbacks, CallbackCancels(c)
       PROVE  RegisteredForOwn' /\ WaitersExact' /\ TimersBelongToWaits'
  BY <1>13 DEF CallbackCancels, Trigger, fdVars, envVars
<1>14. CASE CloseCancelAll
  BY <1>14 DEF CloseCancelAll, Trigger, envVars
<1>15. CASE CloseDel
  BY <1>15 DEF CloseDel, envVars, callVars
<1>16. CASE CloseFd
  BY <1>16 DEF CloseFd, envVars, callVars
<1>17. ASSUME NEW e \in Events, Report(e)
       PROVE  RegisteredForOwn' /\ WaitersExact' /\ TimersBelongToWaits'
  BY <1>17 DEF Report, Ready, Trigger, fdVars
<1>18. ASSUME NEW e \in Events, Peer(e)
       PROVE  RegisteredForOwn' /\ WaitersExact' /\ TimersBelongToWaits'
  BY <1>18 DEF Peer, fdVars, callVars
<1>19. CASE Answer
  BY <1>19 DEF Answer, fdVars, callVars
<1>20. CASE UNCHANGED vars
  BY <1>20 DEF vars, fdVars, envVars, callVars
<1> QED
  BY <1>1, <1>2, <1>3, <1>4, <1>5, <1>6, <1>7, <1>8, <1>9, <1>10,
     <1>11, <1>12, <1>13, <1>14, <1>15, <1>16, <1>17, <1>18, <1>19, <1>20 DEF Next,
      FiberStep

\* Whatever callback is run late, it is known which call it belongs to.
LEMMA StepTimeouts ==
  TypeOK /\ CallbacksPast /\ TimeoutHonest /\ [Next]_vars
    => CallbacksPast' /\ TimeoutHonest'
<1> SUFFICES ASSUME TypeOK, CallbacksPast, TimeoutHonest, [Next]_vars
             PROVE  CallbacksPast' /\ TimeoutHonest'
  OBVIOUS
<1> USE HookAssumption DEF TypeOK, CallbacksPast, TimeoutHonest
<1>1. ASSUME NEW f \in Fibers, Begin(f) PROVE CallbacksPast' /\ TimeoutHonest'
  BY <1>1 DEF Begin, At, Goto, envVars, fdVars
<1>2. ASSUME NEW f \in Fibers, BeginUnknown(f) PROVE CallbacksPast' /\ TimeoutHonest'
  BY <1>2 DEF BeginUnknown, At, Goto, Return, Taken, fdVars
<1>3. ASSUME NEW f \in Fibers, Fun(f) PROVE CallbacksPast' /\ TimeoutHonest'
  BY <1>3 DEF Fun, At, Goto, Return, Wait, Taken, fdVars
<1>4. ASSUME NEW f \in Fibers, ConnectFun(f) PROVE CallbacksPast' /\ TimeoutHonest'
  BY <1>4 DEF ConnectFun, At, Goto, Return, Wait, fdVars
<1>5. ASSUME NEW f \in Fibers, AddConditionTimer(f)
      PROVE  CallbacksPast' /\ TimeoutHonest'
  BY <1>5 DEF AddConditionTimer, At, Goto, fdVars, envVars
<1>6. ASSUME NEW f \in Fibers, AddEvent(f) PROVE CallbacksPast' /\ TimeoutHonest'
  BY <1>6 DEF AddEvent, At, Goto, Return, AddEventFails, CancelTimer, fdVars, envVars
<1>7. ASSUME NEW f \in Fibers, Resume(f) PROVE CallbacksPast' /\ TimeoutHonest'
  BY <1>7 DEF Resume, At, Goto, fdVars, envVars
<1>8. ASSUME NEW f \in Fibers, Woken(f) PROVE CallbacksPast' /\ TimeoutHonest'
  BY <1>8 DEF Woken, At, Goto, CancelTimer, fdVars, envVars
<1>9. ASSUME NEW f \in Fibers, Check(f) PROVE CallbacksPast' /\ TimeoutHonest'
  BY <1>9 DEF Check, At, Goto, Return, TimedOut, fdVars, envVars
<1>10. ASSUME NEW f \in Fibers, GetSockError(f) PROVE CallbacksPast' /\ TimeoutHonest'
  BY <1>10 DEF GetSockError, At, Goto, Return, SockError, fdVars, envVars
<1>11. ASSUME NEW f \in Fibers, Expire(f) PROVE CallbacksPast' /\ TimeoutHonest'
  BY <1>11 DEF Expire, CancelTimer, fdVars, envVars
<1>12. ASSUME NEW c \in callbacks, RunCallback(c) PROVE CallbacksPast' /\ TimeoutHonest'
  BY <1>12 DEF RunCallback, Alive, fdVars, envVars
<1>13. ASSUME NEW c \in callbacks, CallbackCancels(c)
       PROVE  CallbacksPast' /\ TimeoutHonest'
  BY <1>13 DEF CallbackCancels, Trigger, fdVars, envVars
<1>14. CASE CloseCancelAll
  BY <1>14 DEF CloseCancelAll, Trigger, envVars
<1>15. CASE CloseDel
  BY <1>15 DEF CloseDel, envVars, callVars
<1>16. CASE CloseFd
  BY <1>16 DEF CloseFd, envVars, callVars
<1>17. ASSUME NEW e \in Events, Report(e) PROVE CallbacksPast' /\ TimeoutHonest'
  BY <1>17 DEF Report, Ready, Trigger, fdVars
<1>18. ASSUME NEW e \in Events, Peer(e) PROVE CallbacksPast' /\ TimeoutHonest'
  BY <1>18 DEF Peer, fdVars, callVars
<1>19. CASE Answer
  BY <1>19 DEF Answer, fdVars, callVars
<1>20. CASE UNCHANGED vars
  BY <1>20 DEF vars, fdVars, envVars, callVars
<1> QED
  BY <1>1, <1>2, <1>3, <1>4, <1>5, <1>6, <1>7, <1>8, <1>9, <1>10,
     <1>11, <1>12, <1>13, <1>14, <1>15, <1>16, <1>17, <1>18, <1>19, <1>20 DEF Next,
      FiberStep

\* What a connect that goes on may rely on.
LEMMA StepConnects ==
  IInv /\ [Next]_vars
    => ConnectsOnce' /\ ConnectAnswered' /\ ConnectHonest'
<1> SUFFICES ASSUME IInv, [Next]_vars
             PROVE  ConnectsOnce' /\ ConnectAnswered' /\ ConnectHonest'
  OBVIOUS
<1> USE HookAssumption DEF IInv, TypeOK, CloserPhases, RegisteredForOwn, CallbacksPast,
     UnitsSent, ConnectsOnce, ConnectAnswered, WaitersExact, TimersBelongToWaits,
     TimeoutHonest, ConnectHonest, Waiting
<1>1. ASSUME NEW f \in Fibers, Begin(f)
      PROVE  ConnectsOnce' /\ ConnectAnswered' /\ ConnectHonest'
  BY <1>1 DEF Begin, At, Goto, envVars, fdVars
<1>2. ASSUME NEW f \in Fibers, BeginUnknown(f)
      PROVE  ConnectsOnce' /\ ConnectAnswered' /\ ConnectHonest'
  BY <1>2 DEF BeginUnknown, At, Goto, Return, Taken, fdVars
<1>3. ASSUME NEW f \in Fibers, Fun(f)
      PROVE  ConnectsOnce' /\ ConnectAnswered' /\ ConnectHonest'
  BY <1>3 DEF Fun, At, Goto, Return, Wait, Taken, fdVars
<1>4. ASSUME NEW f \in Fibers, ConnectFun(f)
      PROVE  ConnectsOnce' /\ ConnectAnswered' /\ ConnectHonest'
  BY <1>4 DEF ConnectFun, At, Goto, Return, Wait, fdVars
<1>5. ASSUME NEW f \in Fibers, AddConditionTimer(f)
      PROVE  ConnectsOnce' /\ ConnectAnswered' /\ ConnectHonest'
  BY <1>5 DEF AddConditionTimer, At, Goto, fdVars, envVars
<1>6. ASSUME NEW f \in Fibers, AddEvent(f)
      PROVE  ConnectsOnce' /\ ConnectAnswered' /\ ConnectHonest'
  <2>1. UNCHANGED <<conn, callbacks, closer, open, calls, cancelled, known>>
    BY <1>6 DEF AddEvent, fdVars, envVars
  <2>2. \A g \in Connectors : g # f =>
          pc'[g] = pc[g] /\ stored'[g] = stored[g] /\ result'[g] = result[g]
    BY <1>6 DEF AddEvent, Goto, Return, AddEventFails, CancelTimer
  <2>3. f \in Connectors =>
          /\ pc'[f] \in {"parked", "sockerr"} /\ result'[f] = result[f]
          /\ pc'[f] = "sockerr" => ~ open
    BY <1>6 DEF AddEvent, Goto, Return, AddEventFails, CancelTimer
  <2>4. f \in Connectors => conn # "none"
    BY <1>6 DEF AddEvent, At
  <2>5. ConnectsOnce'
    BY <1>6, <2>1, <2>2, <2>3, <2>4 DEF AddEvent, At
  <2>6. ConnectAnswered'
    BY <2>1, <2>2, <2>3
  <2>7. ConnectHonest'
    BY <2>1, <2>2, <2>3
  <2> QED BY <2>5, <2>6, <2>7
<1>7. ASSUME NEW f \in Fibers, Resume(f)
      PROVE  ConnectsOnce' /\ ConnectAnswered' /\ ConnectHonest'
  BY <1>7 DEF Resume, At, Goto, fdVars, envVars
<1>8. ASSUME NEW f \in Fibers, Woken(f)
      PROVE  ConnectsOnce' /\ ConnectAnswered' /\ ConnectHonest'
  BY <1>8 DEF Woken, At, Goto, CancelTimer, fdVars, envVars
<1>9. ASSUME NEW f \in Fibers, Check(f)
      PROVE  ConnectsOnce' /\ ConnectAnswered' /\ ConnectHonest'
  BY <1>9 DEF Check, At, Goto, Return, TimedOut, fdVars, envVars
<1>10. ASSUME NEW f \in Fibers, GetSockError(f)
       PROVE  ConnectsOnce' /\ ConnectAnswered' /\ ConnectHonest'
  BY <1>10 DEF GetSockError, At, Goto, Return, SockError, fdVars, envVars
<1>11. ASSUME NEW f \in Fibers, Expire(f)
       PROVE  ConnectsOnce' /\ ConnectAnswered' /\ ConnectHonest'
  BY <1>11 DEF Expire, CancelTimer, fdVars, envVars
<1>12. ASSUME NEW c \in callbacks, RunCallback(c)
       PROVE  ConnectsOnce' /\ ConnectAnswered' /\ ConnectHonest'
  BY <1>12 DEF RunCallback, Alive, fdVars, envVars
<1>13. ASSUME NEW c \in callbacks, CallbackCancels(c)
       PROVE  ConnectsOnce' /\ ConnectAnswered' /\ ConnectHonest'
  BY <1>13 DEF CallbackCancels, Trigger, fdVars, envVars
<1>14. CASE CloseCancelAll
  BY <1>14 DEF CloseCancelAll, Trigger, envVars
<1>15. CASE CloseDel
  BY <1>15 DEF CloseDel, envVars, callVars
<1>16. CASE CloseFd
  BY <1>16 DEF CloseFd, envVars, callVars
<1>17. ASSUME NEW e \in Events, Report(e)
       PROVE  ConnectsOnce' /\ ConnectAnswered' /\ ConnectHonest'
  BY <1>17 DEF Report, Ready, Trigger, fdVars
<1>18. ASSUME NEW e \in Events, Peer(e)
       PROVE  ConnectsOnce' /\ ConnectAnswered' /\ ConnectHonest'
  BY <1>18 DEF Peer, fdVars, callVars
<1>19. CASE Answer
  BY <1>19 DEF Answer, fdVars, callVars
<1>20. CASE UNCHANGED vars
  BY <1>20 DEF vars, fdVars, envVars, callVars
<1> QED
  BY <1>1, <1>2, <1>3, <1>4, <1>5, <1>6, <1>7, <1>8, <1>9, <1>10,
     <1>11, <1>12, <1>13, <1>14, <1>15, <1>16, <1>17, <1>18, <1>19, <1>20 DEF Next,
      FiberStep

\* The invariant holds in every behaviour.
THEOREM Invariance == Spec => []IInv
<1>1. IInv /\ [Next]_vars => IInv'
  BY StepTypes, StepWaits, StepTimeouts, StepConnects DEF IInv
<1> QED BY InitIInv, <1>1, PTL DEF Spec

\* The state of calls, timers and descriptor is well typed.
THEOREM TypeCorrect == Spec => []TypeOK
<1>1. IInv => TypeOK
  BY DEF IInv
<1> QED BY Invariance, <1>1, PTL

\* For any number of threads, fibers and calls, a fiber is registered
\* exactly while it is parked, and its timer does not outlive the wait.
THEOREM WaitsCorrect == Spec => []WaitsExact
<1>1. IInv => WaitsExact
  BY DEF IInv, WaitsExact
<1> QED BY Invariance, <1>1, PTL

\* ETIMEDOUT is returned for a timer of one's own call only, and connect
\* succeeds only when the connection is up.
THEOREM ResultsCorrect == Spec => []ResultsHonest
<1>1. IInv => ResultsHonest
  BY DEF IInv, ResultsHonest
<1> QED BY Invariance, <1>1, PTL
=============================================================================
