-------------------------- MODULE DescriptorsProofs --------------------------
(***************************************************************************)
(* The safety properties of Descriptors hold for any threads, descriptors  *)
(* and table sizes that DescriptorsAssumption admits.  The invariant says  *)
(* who may use a descriptor's number, and that whatever is stored under it *)
(* (the FdCtx, the FdContext with its events, the kernel's entry) is its   *)
(* present owner's - or sits in a context that a resize has cut off.       *)
(***************************************************************************)
EXTENDS Descriptors, TLAPS

\* Where a thread is between get(fd, true) and del(fd); where it may have
\* registered events.
HasCtx    == {"own", "grow", "add", "cancel", "del"}
HasEvents == {"own", "grow", "add", "cancel"}

\* A number belongs to one thread, for as long as the socket is open.
OneOwner ==
  /\ \A t \in Threads : fd[t] = None <=> pc[t] = "free"
  /\ \A t \in Threads : fd[t] # None => socket[fd[t]] # None
  /\ \A t, u \in Threads : fd[t] = fd[u] /\ t # u => fd[t] = None

\* An FdCtx is stored exactly while an owner has it.
CtxsOwned ==
  \A d \in Fds : datas[d] # None => \E t \in Threads : fd[t] = d /\ pc[t] \in HasCtx

\* What the owner's FdCtx and the kernel know of the socket.
CtxOf(t) ==
  /\ datas[fd[t]] # None
  /\ datas[fd[t]].of = socket[fd[t]]
  /\ datas[fd[t]].m_userNonblock = asked[t]
  /\ datas[fd[t]].m_recvTimeout = timeout[t]
  /\ datas[fd[t]].m_sysNonblock = TRUE
  /\ viaIoctl[t] = FALSE => nonblock[fd[t]] = TRUE
CtxsExact ==
  \A t \in Threads :
    /\ pc[t] \in HasCtx => CtxOf(t)
    /\ pc[t] \in {"get", "create"} =>
         asked[t] = FALSE /\ timeout[t] = -1 /\ viaIoctl[t] = FALSE

\* A context the table no longer holds since a resize cut it off, and a socket
\* that was open then.  Live: the table gives this context for its descriptor.
WasCut(c)  == \E x \in cut : x[1] = c
Spoilt(s)  == \E x \in cut : x[2] = s
Live(c)    == c[1] < size /\ c = Slot(c[1])

\* Both tables are never shorter than a descriptor needs, every slot inside
\* m_fdContexts is filled, and with a context that was never cut off.
TablesGrow ==
  /\ dataSize >= 2 /\ size >= 2
  /\ \A d \in Fds : d < size => made[d] >= 1
  /\ \A x \in cut : x[1][2] \in 1 .. made[x[1][1]] /\ ~Live(x[1])
  /\ \A t \in Threads : pc[t] = "grow" => fd[t] >= 2

\* The context a thread has looked up is its descriptor's, unless a resize
\* has cut it off since.
LookedUp ==
  \A t \in Threads :
    /\ ctx[t] # None <=> pc[t] \in {"add", "cancel"}
    /\ ctx[t] # None =>
         ctx[t][1] = fd[t] /\ (Live(ctx[t]) \/ <<ctx[t], socket[fd[t]]>> \in cut)
    /\ pc[t] \in {"grow", "add"} => adding[t] \in Events

\* A registered event is in a context cut off, or of an owner that has not
\* cancelled it.
HasOwner(c) ==
  \E t \in Threads :
    fd[t] = c[1] /\ pc[t] \in HasEvents /\ (pc[t] = "cancel" => ctx[t] = c)
EventsOwned ==
  \A p \in events :
    /\ p[1][2] \in 1 .. made[p[1][1]]
    /\ WasCut(p[1]) \/ (Live(p[1]) /\ HasOwner(p[1]))

\* The kernel has no entry for a closed descriptor; for a socket that no resize
\* has spoilt it has one exactly while events are registered.
EntryExact(d) ==
  /\ epoll[d] # None <=> Waiting(d) # {}
  /\ epoll[d] # None => epoll[d] = Slot(d)
EpollExact ==
  \A d \in Fds :
    /\ epoll[d] # None => epoll[d][1] = d
    /\ IF socket[d] = None THEN epoll[d] = None ELSE Spoilt(socket[d]) \/ EntryExact(d)

\* Only such a socket was ever refused.
RefusedSpoilt == \A s \in refused : Spoilt(s)

\* The inductive invariant.
IInv ==
  /\ TypeOK /\ OneOwner /\ CtxsOwned /\ CtxsExact /\ TablesGrow /\ LookedUp
  /\ EventsOwned /\ EpollExact /\ RefusedSpoilt

\* Replacing one value of a function leaves the others.
LEMMA Replaced ==
  ASSUME NEW S, NEW B, NEW f \in [S -> B], NEW a, NEW b \in S, a # b, NEW v
  PROVE  [f EXCEPT ![a] = v][b] = f[b]
OBVIOUS

\* A table that grows for a descriptor then has room for it.
LEMMA GrownMore == ASSUME NEW d \in Nat, d >= 2 PROVE Grown(d) \in Nat /\ Grown(d) > d
BY DEF Grown

\* A thread that is not "free" has an open socket of its own.
LEMMA Owner ==
  ASSUME IInv, NEW t \in Threads, pc[t] # "free"
  PROVE  /\ fd[t] \in Fds /\ fd[t] \in Nat /\ fd[t] # None
         /\ socket[fd[t]] \in 1 .. MaxSockets
BY DescriptorsAssumption DEF IInv, TypeOK, OneOwner

\* What get(fd) gives such a thread.
LEMMA Found ==
  ASSUME IInv, NEW t \in Threads, pc[t] \in HasCtx
  PROVE  /\ fd[t] \in Fds /\ fd[t] \in Nat /\ fd[t] < dataSize
         /\ Get(fd[t]) = datas[fd[t]] /\ datas[fd[t]] \in FdCtxs /\ Get(fd[t]) # None
         /\ CtxOf(t)
<1>1. pc[t] # "free" /\ CtxOf(t)
  BY DEF IInv, CtxsExact, HasCtx
<1>2. fd[t] \in Fds /\ fd[t] \in Nat /\ datas[fd[t]] # None
  BY <1>1, Owner DEF CtxOf
<1> QED
  BY <1>1, <1>2 DEF IInv, TypeOK, Get

\* The record made by FdCtx::init.
LEMMA NewCtx ==
  ASSUME NEW s \in 1 .. MaxSockets
  PROVE  /\ NewFdCtx(s) \in FdCtxs /\ NewFdCtx(s) # None
         /\ NewFdCtx(s).of = s /\ NewFdCtx(s).m_userNonblock = FALSE
         /\ NewFdCtx(s).m_sysNonblock = TRUE /\ NewFdCtx(s).m_recvTimeout = -1
<1>1. NewFdCtx(s) \in FdCtxs
  BY DEF NewFdCtx, FdCtxs, Timeouts
<1>2. NewFdCtx(s) # None
  BY <1>1, DescriptorsAssumption
<1> QED
  BY <1>1, <1>2 DEF NewFdCtx

\* One field of the caller's record is replaced, and nothing else.
LEMMA Wished ==
  ASSUME IInv, NEW t \in Threads, pc[t] = "own", NEW nb \in BOOLEAN, Wish(fd[t], nb)
  PROVE  /\ datas' \in [Fds -> FdCtxs \cup {None}]
         /\ \A d \in Fds : d # fd[t] => datas'[d] = datas[d]
         /\ datas'[fd[t]] \in FdCtxs /\ datas'[fd[t]] # None
         /\ datas'[fd[t]].of = datas[fd[t]].of /\ datas'[fd[t]].m_userNonblock = nb
         /\ datas'[fd[t]].m_sysNonblock = datas[fd[t]].m_sysNonblock
         /\ datas'[fd[t]].m_recvTimeout = datas[fd[t]].m_recvTimeout
<1> DEFINE r == datas[fd[t]]
           s == [r EXCEPT !["m_userNonblock"] = nb]
<1>1. fd[t] \in Fds /\ r \in FdCtxs /\ Get(fd[t]) # None
  BY Found DEF HasCtx
<1>2. datas' = [datas EXCEPT ![fd[t]] = s]
  BY <1>1 DEF Wish, Update
<1>3. /\ s \in FdCtxs /\ s.of = r.of /\ s.m_userNonblock = nb
      /\ s.m_sysNonblock = r.m_sysNonblock /\ s.m_recvTimeout = r.m_recvTimeout
  BY <1>1 DEF FdCtxs
<1>4. s # None
  BY <1>3, DescriptorsAssumption
<1>5. datas \in [Fds -> FdCtxs \cup {None}]
  BY DEF IInv, TypeOK
<1> HIDE DEF s
<1> QED
  BY <1>1, <1>2, <1>3, <1>4, <1>5

\* The same for the receive timeout.
LEMMA TimeoutUpdated ==
  ASSUME IInv, NEW t \in Threads, pc[t] = "own", NEW v \in Timeouts,
         Update(fd[t], "m_recvTimeout", v)
  PROVE  /\ datas' \in [Fds -> FdCtxs \cup {None}]
         /\ \A d \in Fds : d # fd[t] => datas'[d] = datas[d]
         /\ datas'[fd[t]] \in FdCtxs /\ datas'[fd[t]] # None
         /\ datas'[fd[t]].of = datas[fd[t]].of
         /\ datas'[fd[t]].m_userNonblock = datas[fd[t]].m_userNonblock
         /\ datas'[fd[t]].m_sysNonblock = datas[fd[t]].m_sysNonblock
         /\ datas'[fd[t]].m_recvTimeout = v
<1> DEFINE r == datas[fd[t]]
           s == [r EXCEPT !["m_recvTimeout"] = v]
<1>1. fd[t] \in Fds /\ r \in FdCtxs /\ Get(fd[t]) # None
  BY Found DEF HasCtx
<1>2. datas' = [datas EXCEPT ![fd[t]] = s]
  BY <1>1 DEF Update
<1>3. /\ s \in FdCtxs /\ s.of = r.of /\ s.m_userNonblock = r.m_userNonblock
      /\ s.m_sysNonblock = r.m_sysNonblock /\ s.m_recvTimeout = v
  BY <1>1 DEF FdCtxs
<1>4. s # None
  BY <1>3, DescriptorsAssumption
<1>5. datas \in [Fds -> FdCtxs \cup {None}]
  BY DEF IInv, TypeOK
<1> HIDE DEF s
<1> QED
  BY <1>1, <1>2, <1>3, <1>4, <1>5

\* fcntl leaves the kernel's flag as m_sysNonblock says: set.
LEMMA FlagKept ==
  ASSUME IInv, NEW t \in Threads, pc[t] = "own", NEW nb \in BOOLEAN, SetFl(fd[t], nb)
  PROVE  nonblock' = [nonblock EXCEPT ![fd[t]] = TRUE]
BY Found DEF SetFl, HasCtx, CtxOf

\* What the table gives for a descriptor inside it.
LEMMA SlotOf ==
  ASSUME IInv, NEW d \in Fds, d < size
  PROVE  /\ Slot(d) \in Contexts /\ Slot(d) # None /\ Slot(d)[1] = d
         /\ Slot(d)[2] \in 1 .. made[d] /\ Live(Slot(d)) /\ ~WasCut(Slot(d))
<1>1. d \in Nat /\ made[d] \in Nat /\ made[d] >= 1
  BY DescriptorsAssumption DEF IInv, TypeOK, TablesGrow
<1>2. /\ Slot(d) \in Contexts /\ Slot(d) # None /\ Slot(d)[1] = d
      /\ Slot(d)[2] \in 1 .. made[d]
  BY <1>1, DescriptorsAssumption DEF Slot, Contexts
<1>3. Live(Slot(d))
  BY <1>2 DEF Live
<1> QED
  BY <1>2, <1>3 DEF WasCut, IInv, TablesGrow

\* A context a thread has looked up, or that has an event, is one of a
\* descriptor, and its number was given out.
LEMMA Named ==
  ASSUME IInv
  PROVE  /\ \A t \in Threads : ctx[t] # None =>
              /\ ctx[t] \in Contexts /\ fd[t] \in Fds /\ ctx[t] = <<fd[t], ctx[t][2]>>
              /\ ctx[t][2] \in 1 .. made[fd[t]]
         /\ \A p \in events :
              /\ p = <<p[1], p[2]>> /\ p[1] \in Contexts /\ p[2] \in Events
              /\ p[1][1] \in Fds /\ p[1] = <<p[1][1], p[1][2]>>
              /\ p[1][2] \in 1 .. made[p[1][1]]
         /\ \A x \in cut :
              /\ x = <<x[1], x[2]>> /\ x[1] \in Contexts /\ x[1][1] \in Fds
              /\ x[1] = <<x[1][1], x[1][2]>>
              /\ x[1][2] \in 1 .. made[x[1][1]]
<1>1. \A t \in Threads : ctx[t] # None => ctx[t] \in Contexts /\ ctx[t][1] = fd[t]
                                           /\ ctx[t][2] \in 1 .. made[ctx[t][1]]
  BY DEF IInv, TypeOK, LookedUp
<1>2. \A p \in events : p \in Contexts \X Events /\ p[1][2] \in 1 .. made[p[1][1]]
  BY DEF IInv, TypeOK, EventsOwned
<1>3. \A x \in cut : x \in Contexts \X (1 .. MaxSockets) /\ x[1][2] \in 1 .. made[x[1][1]]
  BY DEF IInv, TypeOK, TablesGrow
<1> QED
  BY <1>1, <1>2, <1>3 DEF Contexts

\* contextResize makes room for the descriptor, keeps the slots it does not
\* cut off and fills the new ones.
LEMMA Grew ==
  ASSUME IInv, NEW t \in Threads, Grow(t)
  PROVE  /\ size' = Grown(fd[t]) /\ size' \in Nat /\ size' >= 2 /\ fd[t] < size'
         /\ fd[t] \in Fds /\ made' \in [Fds -> Nat]
         /\ \A d \in Fds : made[d] \in Nat /\ made'[d] \in Nat /\ made'[d] >= made[d]
         /\ \A d \in Fds : d < size => made'[d] = made[d]
         /\ \A d \in Fds : d < size' => made'[d] >= 1
         /\ \A d \in Fds : ~(d < size) /\ d < size' => made'[d] = made[d] + 1
         /\ ctx' = [ctx EXCEPT ![t] = <<fd[t], made'[fd[t]]>>]
<1>1. fd[t] \in Fds /\ fd[t] \in Nat /\ fd[t] >= 2 /\ size \in Nat
  BY Owner, DescriptorsAssumption DEF Grow, IInv, TypeOK, TablesGrow
<1>2. size' = Grown(fd[t]) /\ size' \in Nat /\ fd[t] < size' /\ size' >= 2
  BY <1>1, GrownMore DEF Grow
<1>3. made' = [d \in Fds |-> IF size <= d /\ d < size' THEN made[d] + 1 ELSE made[d]]
  BY <1>2 DEF Grow, Allocated
<1>4. made \in [Fds -> Nat] /\ \A d \in Fds : d \in Nat /\ (d < size => made[d] >= 1)
  BY DescriptorsAssumption DEF IInv, TypeOK, TablesGrow
<1>5. made' \in [Fds -> Nat]
  BY <1>3, <1>4
<1>6. ASSUME NEW d \in Fds
      PROVE  /\ made[d] \in Nat /\ made'[d] \in Nat /\ made'[d] >= made[d]
             /\ d < size => made'[d] = made[d]
             /\ d < size' => made'[d] >= 1
             /\ ~(d < size) /\ d < size' => made'[d] = made[d] + 1
  BY <1>1, <1>2, <1>3, <1>4
<1> QED
  BY <1>1, <1>2, <1>5, <1>6 DEF Grow

\* What it cuts off: contexts of open sockets, all those in use past its end.
LEMMA Cut ==
  ASSUME IInv, NEW t \in Threads, Grow(t)
  PROVE  /\ cut \subseteq cut'
         /\ \A x \in cut' : x \in cut \/
              \E d \in Fds : /\ x = <<Slot(d), socket[d]>> /\ d < size /\ ~(d < size')
                             /\ socket[d] \in 1 .. MaxSockets
         /\ \A d \in Fds :
              d < size /\ ~(d < size') /\ InUse(Slot(d)) => <<Slot(d), socket[d]>> \in cut'
<1>1. size' \in Nat /\ size \in Nat /\ \A d \in Fds : d \in Nat
  BY Grew, DescriptorsAssumption DEF IInv, TypeOK
<1>2. cut' = cut \cup {<<Slot(d), socket[d]>> :
                         d \in {x \in Fds : size' <= x /\ x < size /\ InUse(Slot(x))}}
  BY Grew DEF Grow, CutOff
<1>3. ASSUME NEW d \in Fds, d < size, InUse(Slot(d)) PROVE socket[d] \in 1 .. MaxSockets
  <2>1. CASE EventsOf(Slot(d)) # {}
    <3>1. PICK e \in Events : <<Slot(d), e>> \in events
      BY <2>1 DEF EventsOf
    <3>2. WasCut(Slot(d)) \/ HasOwner(Slot(d))
      BY <3>1 DEF IInv, EventsOwned
    <3>3. PICK u \in Threads : fd[u] = d /\ pc[u] \in HasEvents
      BY <1>3, <3>2, SlotOf DEF HasOwner
    <3> QED
      BY <3>3, Owner DEF HasEvents
  <2>2. CASE \E u \in Threads : ctx[u] = Slot(d)
    <3>1. PICK u \in Threads : ctx[u] = Slot(d)
      BY <2>2
    <3>2. fd[u] = d /\ pc[u] # "free"
      BY <1>3, <3>1, SlotOf DEF IInv, LookedUp
    <3> QED
      BY <3>2, Owner
  <2> QED
    BY <1>3, <2>1, <2>2 DEF InUse
<1>4. ASSUME NEW x \in cut', x \notin cut
      PROVE  \E d \in Fds : /\ x = <<Slot(d), socket[d]>> /\ d < size /\ ~(d < size')
                            /\ socket[d] \in 1 .. MaxSockets
  <2>1. PICK d \in Fds : /\ x = <<Slot(d), socket[d]>> /\ size' <= d /\ d < size
                         /\ InUse(Slot(d))
    BY <1>2, <1>4
  <2> QED
    BY <1>1, <1>3, <2>1
<1>5. ASSUME NEW d \in Fds, d < size, ~(d < size'), InUse(Slot(d))
      PROVE  <<Slot(d), socket[d]>> \in cut'
  <2>1. size' <= d
    BY <1>1, <1>5
  <2> QED
    BY <1>2, <1>5, <2>1
<1> QED
  BY <1>2, <1>4, <1>5

\* So does m_datas in get(fd, true).
LEMMA CreateGrows ==
  ASSUME IInv, NEW t \in Threads, GetCreate(t)
  PROVE  /\ dataSize' \in Nat /\ dataSize' >= dataSize /\ fd[t] < dataSize'
         /\ dataSize' >= 2
<1>1. fd[t] \in Nat /\ dataSize \in Nat /\ dataSize >= 2
  BY Owner DEF GetCreate, IInv, TypeOK, TablesGrow
<1>2. CASE fd[t] >= dataSize
  <2>1. fd[t] >= 2
    BY <1>1, <1>2
  <2>2. Grown(fd[t]) \in Nat /\ Grown(fd[t]) > fd[t]
    BY <1>1, <2>1, GrownMore
  <2> QED
    BY <1>1, <1>2, <2>2 DEF GetCreate
<1>3. CASE ~(fd[t] >= dataSize)
  BY <1>1, <1>3 DEF GetCreate
<1> QED
  BY <1>2, <1>3

\* Types: no step reads or writes past the end of a table.
LEMMA StepTypes ==
  IInv /\ [Next]_vars
    => TypeOK'
<1> SUFFICES ASSUME IInv, [Next]_vars
             PROVE  TypeOK'
  OBVIOUS
<1>0. TypeOK /\ OneOwner /\ LookedUp
  BY DEF IInv
<1> USE <1>0 DEF TypeOK, OneOwner, LookedUp
<1>1. ASSUME NEW t \in Threads, SocketF(t) PROVE TypeOK'
  BY <1>1, DescriptorsAssumption DEF SocketF, Goto, Timeouts, dataVars, tableVars,
       kernelVars, wishVars, historyVars
<1>2. ASSUME NEW t \in Threads, GetLookup(t) PROVE TypeOK'
  BY <1>2 DEF GetLookup, Goto, dataVars, tableVars, kernelVars, wishVars, historyVars
<1>3. ASSUME NEW t \in Threads, GetCreate(t) PROVE TypeOK'
  <2>1. /\ pc[t] # "free" /\ fd[t] \in Fds /\ fd[t] \in Nat
        /\ NewFdCtx(socket[fd[t]]) \in FdCtxs
    BY <1>3, Owner, NewCtx DEF GetCreate
  <2>2. /\ dataSize' \in Nat /\ dataSize' >= dataSize /\ fd[t] < dataSize'
    BY <1>3, CreateGrows
  <2>3. datas' \in [Fds -> FdCtxs \cup {None}] /\ nonblock' \in [Fds -> BOOLEAN]
    BY <1>3, <2>1 DEF GetCreate
  <2>4. \A d \in Fds : datas'[d] # None => d < dataSize'
    BY <1>3, <2>1, <2>2, DescriptorsAssumption DEF GetCreate
  <2> QED
    BY <1>3, <2>1, <2>2, <2>3, <2>4 DEF GetCreate, Goto, dataVars, tableVars,
         kernelVars, wishVars, historyVars
<1>4. ASSUME NEW t \in Threads, NEW nb \in BOOLEAN, Fcntl(t, nb) PROVE TypeOK'
  <2>1. fd[t] \in Fds /\ fd[t] \in Nat /\ fd[t] < dataSize
    BY <1>4, Found DEF Fcntl, HasCtx
  <2>2. /\ datas' \in [Fds -> FdCtxs \cup {None}]
        /\ \A d \in Fds : d # fd[t] => datas'[d] = datas[d]
    BY <1>4, Wished DEF Fcntl
  <2>3. nonblock' = [nonblock EXCEPT ![fd[t]] = TRUE]
    BY <1>4, FlagKept DEF Fcntl
  <2> QED
    BY <1>4, <2>1, <2>2, <2>3 DEF Fcntl, dataVars, tableVars, kernelVars, wishVars,
         historyVars
<1>5. ASSUME NEW t \in Threads, NEW nb \in BOOLEAN, Ioctl(t, nb) PROVE TypeOK'
  <2>1. fd[t] \in Fds /\ fd[t] \in Nat /\ fd[t] < dataSize
    BY <1>5, Found DEF Ioctl, HasCtx
  <2>2. /\ datas' \in [Fds -> FdCtxs \cup {None}]
        /\ \A d \in Fds : d # fd[t] => datas'[d] = datas[d]
    BY <1>5, Wished DEF Ioctl
  <2> QED
    BY <1>5, <2>1, <2>2 DEF Ioctl, dataVars, tableVars, kernelVars, wishVars, historyVars
<1>6. ASSUME NEW t \in Threads, NEW v \in Timeouts, SetTimeout(t, v) PROVE TypeOK'
  <2>1. fd[t] \in Fds /\ fd[t] \in Nat /\ fd[t] < dataSize
    BY <1>6, Found DEF SetTimeout, HasCtx
  <2>2. /\ datas' \in [Fds -> FdCtxs \cup {None}]
        /\ \A d \in Fds : d # fd[t] => datas'[d] = datas[d]
    BY <1>6, TimeoutUpdated DEF SetTimeout
  <2> QED
    BY <1>6, <2>1, <2>2 DEF SetTimeout, dataVars, tableVars, kernelVars, wishVars,
         historyVars
<1>7. ASSUME NEW t \in Threads, NEW e \in Events, AddLookup(t, e) PROVE TypeOK'
  <2>1. fd[t] \in Fds /\ fd[t] \in Nat
    BY <1>7, Owner DEF AddLookup
  <2>2. /\ size > fd[t] => /\ ctx' = [ctx EXCEPT ![t] = Slot(fd[t])]
                           /\ Slot(fd[t]) \in Contexts /\ Slot(fd[t])[1] = fd[t]
                           /\ Slot(fd[t])[2] \in 1 .. made[fd[t]]
        /\ ~(size > fd[t]) => ctx' = ctx
    BY <1>7, <2>1, SlotOf DEF AddLookup
  <2>3. \A u \in Threads : ctx'[u] # None => ctx'[u][2] \in 1 .. made[ctx'[u][1]]
    BY <1>7, <2>1, <2>2
  <2>4. ctx' \in [Threads -> Contexts \cup {None}]
    <3>1. CASE size > fd[t]
      BY <2>2, <3>1
    <3> QED
      BY <2>2, <3>1
  <2> QED
    BY <1>7, <2>3, <2>4 DEF AddLookup, Goto, dataVars, tableVars, kernelVars, wishVars,
         historyVars
<1>8. ASSUME NEW t \in Threads, Grow(t) PROVE TypeOK'
  <2>1. /\ ctx' = [ctx EXCEPT ![t] = <<fd[t], made'[fd[t]]>>] /\ size' \in Nat
        /\ fd[t] \in Fds /\ fd[t] < size' /\ made' \in [Fds -> Nat]
        /\ \A d \in Fds : made[d] \in Nat /\ made'[d] \in Nat /\ made'[d] >= made[d]
        /\ made'[fd[t]] >= 1
    BY <1>8, Grew
  <2>2. <<fd[t], made'[fd[t]]>> \in Contexts
    BY <2>1 DEF Contexts
  <2>3. \A u \in Threads : ctx'[u] # None => ctx'[u][2] \in 1 .. made'[ctx'[u][1]]
    <3> SUFFICES ASSUME NEW u \in Threads, ctx'[u] # None
                 PROVE  ctx'[u][2] \in 1 .. made'[ctx'[u][1]]
      OBVIOUS
    <3>1. CASE u = t
      BY <2>1, <2>2, <3>1
    <3>2. CASE u # t
      <4>1. ctx'[u] = ctx[u] /\ ctx[u] # None
        BY <2>1, <3>2
      <4>2. ctx[u][1] \in Fds /\ ctx[u][2] \in 1 .. made[ctx[u][1]]
        BY <4>1, Named
      <4> QED
        BY <2>1, <4>1, <4>2
    <3> QED
      BY <3>1, <3>2
  <2>4. ctx' \in [Threads -> Contexts \cup {None}]
    BY <2>1, <2>2
  <2>5. cut' \subseteq Contexts \X (1 .. MaxSockets)
    <3> SUFFICES ASSUME NEW x \in cut' PROVE x \in Contexts \X (1 .. MaxSockets)
      OBVIOUS
    <3>1. CASE x \in cut
      BY <3>1
    <3>2. CASE x \notin cut
      <4>1. PICK d \in Fds : /\ x = <<Slot(d), socket[d]>> /\ d < size
                             /\ socket[d] \in 1 .. MaxSockets
        BY <1>8, <3>2, Cut
      <4> QED
        BY <4>1, SlotOf
    <3> QED
      BY <3>1, <3>2
  <2> QED
    BY <1>8, <2>1, <2>3, <2>4, <2>5 DEF Grow, Goto, dataVars, tableVars, kernelVars,
         wishVars, historyVars
<1>9. ASSUME NEW t \in Threads, AddLocked(t) PROVE TypeOK'
  <2>1. /\ fd[t] \in Fds /\ ctx[t] \in Contexts
        /\ adding[t] \in Events /\ socket[fd[t]] \in 1 .. MaxSockets
    BY <1>9, Owner DEF AddLocked, LookedUp
  <2>2. epoll' \in [Fds -> Contexts \cup {None}] /\ events' \subseteq Contexts \X Events
    BY <1>9, <2>1 DEF AddLocked
  <2>3. refused' \subseteq 1 .. MaxSockets
    <3>1. refused' = refused \/ refused' = refused \cup {socket[fd[t]]}
      BY <1>9 DEF AddLocked
    <3> QED
      BY <2>1, <3>1
  <2> QED
    BY <1>9, <2>1, <2>2, <2>3 DEF AddLocked, Goto, dataVars, tableVars, kernelVars,
         wishVars, historyVars
<1>10. ASSUME NEW d \in Fds, NEW E \in SUBSET Events, Deliver(d, E) PROVE TypeOK'
  BY <1>10 DEF Deliver, EventsOf, dataVars, tableVars, kernelVars, wishVars, historyVars
<1>11. ASSUME NEW t \in Threads, CloseLookup(t) PROVE TypeOK'
  <2>1. fd[t] \in Fds /\ fd[t] \in Nat
    BY <1>11, Owner DEF CloseLookup
  <2>2. /\ size > fd[t] => /\ ctx' = [ctx EXCEPT ![t] = Slot(fd[t])]
                           /\ Slot(fd[t]) \in Contexts /\ Slot(fd[t])[1] = fd[t]
                           /\ Slot(fd[t])[2] \in 1 .. made[fd[t]]
        /\ ~(size > fd[t]) => ctx' = ctx
    BY <1>11, <2>1, SlotOf DEF CloseLookup
  <2>3. \A u \in Threads : ctx'[u] # None => ctx'[u][2] \in 1 .. made[ctx'[u][1]]
    BY <1>11, <2>1, <2>2
  <2>4. ctx' \in [Threads -> Contexts \cup {None}]
    <3>1. CASE size > fd[t]
      BY <2>2, <3>1
    <3> QED
      BY <2>2, <3>1
  <2> QED
    BY <1>11, <2>3, <2>4 DEF CloseLookup, Goto, dataVars, tableVars, kernelVars,
         wishVars, historyVars
<1>12. ASSUME NEW t \in Threads, CancelAllLocked(t) PROVE TypeOK'
  BY <1>12 DEF CancelAllLocked, Goto, Cancelled, EventsOf, dataVars, tableVars,
       kernelVars, wishVars, historyVars
<1>13. ASSUME NEW t \in Threads, Del(t) PROVE TypeOK'
  BY <1>13 DEF Del, Goto, DelSlot, dataVars, tableVars, kernelVars, wishVars, historyVars
<1>14. ASSUME NEW t \in Threads, CloseF(t) PROVE TypeOK'
  BY <1>14 DEF CloseF, Goto, dataVars, tableVars, kernelVars, wishVars, historyVars
<1>15. CASE UNCHANGED vars
  BY <1>15 DEF vars, dataVars, tableVars, kernelVars, wishVars, historyVars
<1> HIDE DEF TypeOK, OneOwner, LookedUp
<1> QED
  BY <1>1, <1>2, <1>3, <1>4, <1>5, <1>6, <1>7, <1>8, <1>9, <1>10, <1>11, <1>12, <1>13,
       <1>14, <1>15 DEF Next

\* socket() gives out a free number, close_f frees it.
LEMMA StepOwners ==
  IInv /\ [Next]_vars
    => OneOwner'
<1> SUFFICES ASSUME IInv, [Next]_vars
             PROVE  OneOwner'
  OBVIOUS
<1>0. TypeOK /\ OneOwner
  BY DEF IInv
<1> USE DescriptorsAssumption, <1>0 DEF TypeOK, OneOwner
<1>1. ASSUME NEW t \in Threads, SocketF(t) PROVE OneOwner'
  BY <1>1 DEF SocketF, Goto, dataVars, tableVars, kernelVars, wishVars, historyVars
<1>2. ASSUME NEW t \in Threads, GetLookup(t) PROVE OneOwner'
  BY <1>2 DEF GetLookup, Goto, dataVars, tableVars, kernelVars, wishVars, historyVars
<1>3. ASSUME NEW t \in Threads, GetCreate(t) PROVE OneOwner'
  BY <1>3 DEF GetCreate, Goto, dataVars, tableVars, kernelVars, wishVars, historyVars
<1>4. ASSUME NEW t \in Threads, NEW nb \in BOOLEAN, Fcntl(t, nb) PROVE OneOwner'
  BY <1>4 DEF Fcntl, dataVars, tableVars, kernelVars, wishVars, historyVars
<1>5. ASSUME NEW t \in Threads, NEW nb \in BOOLEAN, Ioctl(t, nb) PROVE OneOwner'
  BY <1>5 DEF Ioctl, dataVars, tableVars, kernelVars, wishVars, historyVars
<1>6. ASSUME NEW t \in Threads, NEW v \in Timeouts, SetTimeout(t, v) PROVE OneOwner'
  BY <1>6 DEF SetTimeout, dataVars, tableVars, kernelVars, wishVars, historyVars
<1>7. ASSUME NEW t \in Threads, NEW e \in Events, AddLookup(t, e) PROVE OneOwner'
  BY <1>7 DEF AddLookup, Goto, Slot, dataVars, tableVars, kernelVars, wishVars, historyVars
<1>8. ASSUME NEW t \in Threads, Grow(t) PROVE OneOwner'
  BY <1>8 DEF Grow, Goto, Allocated, dataVars, tableVars, kernelVars, wishVars, historyVars
<1>9. ASSUME NEW t \in Threads, AddLocked(t) PROVE OneOwner'
  BY <1>9 DEF AddLocked, Goto, CtlAccepts, CtlOp, EventsOf, dataVars, tableVars,
       kernelVars, wishVars, historyVars
<1>10. ASSUME NEW d \in Fds, NEW E \in SUBSET Events, Deliver(d, E) PROVE OneOwner'
  BY <1>10 DEF Deliver, EventsOf, dataVars, tableVars, kernelVars, wishVars, historyVars
<1>11. ASSUME NEW t \in Threads, CloseLookup(t) PROVE OneOwner'
  BY <1>11 DEF CloseLookup, Goto, Slot, dataVars, tableVars, kernelVars, wishVars,
       historyVars
<1>12. ASSUME NEW t \in Threads, CancelAllLocked(t) PROVE OneOwner'
  BY <1>12 DEF CancelAllLocked, Goto, Cancelled, EventsOf, dataVars, tableVars,
       kernelVars, wishVars, historyVars
<1>13. ASSUME NEW t \in Threads, Del(t) PROVE OneOwner'
  BY <1>13 DEF Del, Goto, DelSlot, dataVars, tableVars, kernelVars, wishVars, historyVars
<1>14. ASSUME NEW t \in Threads, CloseF(t) PROVE OneOwner'
  BY <1>14 DEF CloseF, Goto, dataVars, tableVars, kernelVars, wishVars, historyVars
<1>15. CASE UNCHANGED vars
  BY <1>15 DEF vars, dataVars, tableVars, kernelVars, wishVars, historyVars
<1> HIDE DEF TypeOK, OneOwner
<1> QED
  BY <1>1, <1>2, <1>3, <1>4, <1>5, <1>6, <1>7, <1>8, <1>9, <1>10, <1>11, <1>12, <1>13,
       <1>14, <1>15 DEF Next

\* The hooked calls keep the caller's record in line with the kernel.
LEMMA StepCtxs ==
  IInv /\ [Next]_vars
    => CtxsOwned' /\ CtxsExact'
<1> SUFFICES ASSUME IInv, [Next]_vars
             PROVE  CtxsOwned' /\ CtxsExact'
  OBVIOUS
<1>0. TypeOK /\ OneOwner /\ CtxsOwned /\ CtxsExact /\ TablesGrow
  BY DEF IInv
<1> USE DescriptorsAssumption, <1>0 DEF TypeOK, OneOwner, CtxsOwned, CtxsExact, CtxOf,
     TablesGrow, HasCtx
<1>1. ASSUME NEW t \in Threads, SocketF(t) PROVE CtxsOwned' /\ CtxsExact'
  BY <1>1 DEF SocketF, Goto, dataVars, tableVars, kernelVars, wishVars, historyVars
<1>2. ASSUME NEW t \in Threads, GetLookup(t) PROVE CtxsOwned' /\ CtxsExact'
  <2>1. fd[t] \in Fds /\ fd[t] \in Nat
    BY <1>2, Owner DEF GetLookup
  <2>2. CASE Get(fd[t]) = None
    BY <1>2, <2>2 DEF GetLookup, Goto, dataVars, tableVars, kernelVars, wishVars,
         historyVars
  <2>3. CASE Get(fd[t]) # None
    <3>1. PICK u \in Threads : fd[u] = fd[t] /\ pc[u] \in HasCtx
      BY <2>1, <2>3 DEF Get
    <3> QED
      BY <1>2, <2>1, <3>1, DescriptorsAssumption DEF GetLookup
  <2> QED
    BY <2>2, <2>3
<1>3. ASSUME NEW t \in Threads, GetCreate(t) PROVE CtxsOwned' /\ CtxsExact'
  <2>1. fd[t] \in Fds /\ socket[fd[t]] \in 1 .. MaxSockets
    BY <1>3, Owner DEF GetCreate
  <2> DEFINE new == NewFdCtx(socket[fd[t]])
  <2>2. /\ new # None /\ new.of = socket[fd[t]] /\ new.m_userNonblock = FALSE
        /\ new.m_sysNonblock = TRUE /\ new.m_recvTimeout = -1
    BY <2>1, NewCtx
  <2>3. /\ datas' = [datas EXCEPT ![fd[t]] = new]
        /\ nonblock' = [nonblock EXCEPT ![fd[t]] = TRUE]
    BY <1>3 DEF GetCreate
  <2> HIDE DEF new
  <2>5. CtxsOwned'
    BY <1>3, <2>1, <2>2, <2>3, DescriptorsAssumption DEF GetCreate, Goto, dataVars,
         tableVars, kernelVars, wishVars, historyVars
  <2>6. CtxsExact'
    <3> SUFFICES ASSUME NEW u \in Threads
                 PROVE  /\ pc'[u] \in HasCtx => CtxOf(u)'
                        /\ pc'[u] \in {"get", "create"} =>
                             asked'[u] = FALSE /\ timeout'[u] = -1 /\ viaIoctl'[u] = FALSE
      OBVIOUS
    <3>1. CASE u = t
      <4>1. /\ fd'[u] = fd[t] /\ socket' = socket /\ pc'[u] = "own"
            /\ asked'[u] = FALSE /\ timeout'[u] = -1 /\ viaIoctl'[u] = FALSE
        BY <1>3, <3>1 DEF GetCreate, Goto, dataVars, tableVars, kernelVars, wishVars,
             historyVars
      <4>2. datas'[fd[t]] = new /\ nonblock'[fd[t]] = TRUE /\ pc'[u] = "own"
        BY <1>3, <2>1, <2>3, <3>1 DEF GetCreate, Goto
      <4>4. /\ datas'[fd[t]] # None /\ datas'[fd[t]].of = socket[fd[t]]
            /\ datas'[fd[t]].m_userNonblock = asked'[u]
            /\ datas'[fd[t]].m_recvTimeout = timeout'[u]
            /\ datas'[fd[t]].m_sysNonblock = TRUE
            /\ viaIoctl'[u] = FALSE => nonblock'[fd[t]] = TRUE
        BY <2>1, <2>2, <2>3, DescriptorsAssumption, <3>1, <4>1, <4>2
      <4> QED
        BY <3>1, <4>1, <4>4
    <3>2. CASE u # t
      <4>1. pc[u] # "free" => fd[u] \in Fds /\ fd[u] # fd[t]
        BY <2>1, <3>2
      <4>2. pc[u] # "free" => datas'[fd[u]] = datas[fd[u]]
        BY <2>1, <2>2, <2>3, DescriptorsAssumption, <4>1
      <4>4. pc[u] # "free" => nonblock'[fd[u]] = nonblock[fd[u]]
        BY <2>1, <2>3, <4>1, Replaced
      <4>3. /\ pc'[u] = pc[u] /\ fd'[u] = fd[u] /\ socket' = socket
            /\ asked'[u] = asked[u] /\ timeout'[u] = timeout[u]
            /\ viaIoctl'[u] = viaIoctl[u]
        BY <1>3, <3>2 DEF GetCreate, Goto, dataVars, tableVars, kernelVars, wishVars,
             historyVars
      <4> QED
        BY <4>2, <4>3, <4>4
    <3> QED
      BY <3>1, <3>2
  <2> QED
    BY <2>5, <2>6
<1>4. ASSUME NEW t \in Threads, NEW nb \in BOOLEAN, Fcntl(t, nb)
      PROVE  CtxsOwned' /\ CtxsExact'
  <2>1. fd[t] \in Fds /\ CtxOf(t) /\ t \in Threads
    BY <1>4, Found DEF Fcntl
  <2>2. /\ \A d \in Fds : d # fd[t] => datas'[d] = datas[d]
        /\ datas'[fd[t]] # None /\ datas'[fd[t]].of = datas[fd[t]].of
        /\ datas'[fd[t]].m_userNonblock = nb
        /\ datas'[fd[t]].m_sysNonblock = datas[fd[t]].m_sysNonblock
        /\ datas'[fd[t]].m_recvTimeout = datas[fd[t]].m_recvTimeout
    BY <1>4, Wished DEF Fcntl
  <2>3. nonblock' = [nonblock EXCEPT ![fd[t]] = TRUE]
    BY <1>4, FlagKept DEF Fcntl
  <2>5. CtxsOwned'
    <3>1. (\A d \in Fds : datas'[d] # None => datas[d] # None) /\ pc' = pc /\ fd' = fd
      BY <1>4, <2>1, <2>2 DEF Fcntl, CtxOf
    <3> QED
      BY <3>1
  <2>6. CtxsExact'
    <3> SUFFICES ASSUME NEW u \in Threads
                 PROVE  /\ pc'[u] \in HasCtx => CtxOf(u)'
                        /\ pc'[u] \in {"get", "create"} =>
                             asked'[u] = FALSE /\ timeout'[u] = -1 /\ viaIoctl'[u] = FALSE
      OBVIOUS
    <3>1. CASE u = t
      <4>1. /\ fd'[u] = fd[t] /\ socket' = socket /\ pc'[u] = "own"
            /\ asked'[u] = nb /\ timeout'[u] = timeout[u] /\ viaIoctl'[u] = viaIoctl[u]
        BY <1>4, <3>1 DEF Fcntl, dataVars, tableVars, kernelVars, wishVars, historyVars
      <4>4. /\ datas'[fd[t]] # None /\ datas'[fd[t]].of = socket[fd[t]]
            /\ datas'[fd[t]].m_userNonblock = asked'[u]
            /\ datas'[fd[t]].m_recvTimeout = timeout'[u]
            /\ datas'[fd[t]].m_sysNonblock = TRUE
            /\ viaIoctl'[u] = FALSE => nonblock'[fd[t]] = TRUE
        BY <2>1, <2>2, <2>3, <3>1, <4>1
      <4> QED
        BY <3>1, <4>1, <4>4
    <3>2. CASE u # t
      <4>1. pc[u] # "free" => fd[u] \in Fds /\ fd[u] # fd[t]
        BY <2>1, <3>2
      <4>2. pc[u] # "free" => datas'[fd[u]] = datas[fd[u]]
        BY <2>1, <2>2, <2>3, <4>1
      <4>4. pc[u] # "free" => nonblock'[fd[u]] = nonblock[fd[u]]
        BY <2>1, <2>3, <4>1, Replaced
      <4>3. /\ pc'[u] = pc[u] /\ fd'[u] = fd[u] /\ socket' = socket
            /\ asked'[u] = asked[u] /\ timeout'[u] = timeout[u]
            /\ viaIoctl'[u] = viaIoctl[u]
        BY <1>4, <3>2 DEF Fcntl, dataVars, tableVars, kernelVars, wishVars, historyVars
      <4> QED
        BY <4>2, <4>3, <4>4
    <3> QED
      BY <3>1, <3>2
  <2> QED
    BY <2>5, <2>6
<1>5. ASSUME NEW t \in Threads, NEW nb \in BOOLEAN, Ioctl(t, nb)
      PROVE  CtxsOwned' /\ CtxsExact'
  <2>1. fd[t] \in Fds /\ CtxOf(t) /\ t \in Threads
    BY <1>5, Found DEF Ioctl
  <2>2. /\ \A d \in Fds : d # fd[t] => datas'[d] = datas[d]
        /\ datas'[fd[t]] # None /\ datas'[fd[t]].of = datas[fd[t]].of
        /\ datas'[fd[t]].m_userNonblock = nb
        /\ datas'[fd[t]].m_sysNonblock = datas[fd[t]].m_sysNonblock
        /\ datas'[fd[t]].m_recvTimeout = datas[fd[t]].m_recvTimeout
    BY <1>5, Wished DEF Ioctl
  <2>3. nonblock' = [nonblock EXCEPT ![fd[t]] = nb]
    BY <1>5 DEF Ioctl
  <2>5. CtxsOwned'
    <3>1. (\A d \in Fds : datas'[d] # None => datas[d] # None) /\ pc' = pc /\ fd' = fd
      BY <1>5, <2>1, <2>2 DEF Ioctl, CtxOf
    <3> QED
      BY <3>1
  <2>6. CtxsExact'
    <3> SUFFICES ASSUME NEW u \in Threads
                 PROVE  /\ pc'[u] \in HasCtx => CtxOf(u)'
                        /\ pc'[u] \in {"get", "create"} =>
                             asked'[u] = FALSE /\ timeout'[u] = -1 /\ viaIoctl'[u] = FALSE
      OBVIOUS
    <3>1. CASE u = t
      <4>1. /\ fd'[u] = fd[t] /\ socket' = socket /\ pc'[u] = "own"
            /\ asked'[u] = nb /\ timeout'[u] = timeout[u] /\ viaIoctl'[u] = TRUE
        BY <1>5, <3>1 DEF Ioctl, dataVars, tableVars, kernelVars, wishVars, historyVars
      <4>4. /\ datas'[fd[t]] # None /\ datas'[fd[t]].of = socket[fd[t]]
            /\ datas'[fd[t]].m_userNonblock = asked'[u]
            /\ datas'[fd[t]].m_recvTimeout = timeout'[u]
            /\ datas'[fd[t]].m_sysNonblock = TRUE
            /\ viaIoctl'[u] = FALSE => nonblock'[fd[t]] = TRUE
        BY <2>1, <2>2, <2>3, <3>1, <4>1
      <4> QED
        BY <3>1, <4>1, <4>4
    <3>2. CASE u # t
      <4>1. pc[u] # "free" => fd[u] \in Fds /\ fd[u] # fd[t]
        BY <2>1, <3>2
      <4>2. pc[u] # "free" => datas'[fd[u]] = datas[fd[u]]
        BY <2>1, <2>2, <2>3, <4>1
      <4>4. pc[u] # "free" => nonblock'[fd[u]] = nonblock[fd[u]]
        BY <2>1, <2>3, <4>1, Replaced
      <4>3. /\ pc'[u] = pc[u] /\ fd'[u] = fd[u] /\ socket' = socket
            /\ asked'[u] = asked[u] /\ timeout'[u] = timeout[u]
            /\ viaIoctl'[u] = viaIoctl[u]
        BY <1>5, <3>2 DEF Ioctl, dataVars, tableVars, kernelVars, wishVars, historyVars
      <4> QED
        BY <4>2, <4>3, <4>4
    <3> QED
      BY <3>1, <3>2
  <2> QED
    BY <2>5, <2>6
<1>6. ASSUME NEW t \in Threads, NEW v \in Timeouts, SetTimeout(t, v)
      PROVE  CtxsOwned' /\ CtxsExact'
  <2>1. fd[t] \in Fds /\ CtxOf(t) /\ t \in Threads
    BY <1>6, Found DEF SetTimeout
  <2>2. /\ \A d \in Fds : d # fd[t] => datas'[d] = datas[d]
        /\ datas'[fd[t]] # None /\ datas'[fd[t]].of = datas[fd[t]].of
        /\ datas'[fd[t]].m_userNonblock = datas[fd[t]].m_userNonblock
        /\ datas'[fd[t]].m_sysNonblock = datas[fd[t]].m_sysNonblock
        /\ datas'[fd[t]].m_recvTimeout = v
    BY <1>6, TimeoutUpdated DEF SetTimeout
  <2>3. nonblock' = nonblock
    BY <1>6 DEF SetTimeout, kernelVars
  <2>5. CtxsOwned'
    <3>1. (\A d \in Fds : datas'[d] # None => datas[d] # None) /\ pc' = pc /\ fd' = fd
      BY <1>6, <2>1, <2>2 DEF SetTimeout, CtxOf
    <3> QED
      BY <3>1
  <2>6. CtxsExact'
    <3> SUFFICES ASSUME NEW u \in Threads
                 PROVE  /\ pc'[u] \in HasCtx => CtxOf(u)'
                        /\ pc'[u] \in {"get", "create"} =>
                             asked'[u] = FALSE /\ timeout'[u] = -1 /\ viaIoctl'[u] = FALSE
      OBVIOUS
    <3>1. CASE u = t
      <4>1. /\ fd'[u] = fd[t] /\ socket' = socket /\ pc'[u] = "own"
            /\ asked'[u] = asked[u] /\ timeout'[u] = v /\ viaIoctl'[u] = viaIoctl[u]
        BY <1>6, <3>1 DEF SetTimeout, dataVars, tableVars, kernelVars, wishVars, historyVars
      <4>4. /\ datas'[fd[t]] # None /\ datas'[fd[t]].of = socket[fd[t]]
            /\ datas'[fd[t]].m_userNonblock = asked'[u]
            /\ datas'[fd[t]].m_recvTimeout = timeout'[u]
            /\ datas'[fd[t]].m_sysNonblock = TRUE
            /\ viaIoctl'[u] = FALSE => nonblock'[fd[t]] = TRUE
        BY <2>1, <2>2, <2>3, <3>1, <4>1
      <4> QED
        BY <3>1, <4>1, <4>4
    <3>2. CASE u # t
      <4>1. pc[u] # "free" => fd[u] \in Fds /\ fd[u] # fd[t]
        BY <2>1, <3>2
      <4>2. pc[u] # "free" => datas'[fd[u]] = datas[fd[u]]
        BY <2>1, <2>2, <2>3, <4>1
      <4>4. pc[u] # "free" => nonblock'[fd[u]] = nonblock[fd[u]]
        BY <2>1, <2>3, <4>1, Replaced
      <4>3. /\ pc'[u] = pc[u] /\ fd'[u] = fd[u] /\ socket' = socket
            /\ asked'[u] = asked[u] /\ timeout'[u] = timeout[u]
            /\ viaIoctl'[u] = viaIoctl[u]
        BY <1>6, <3>2 DEF SetTimeout, dataVars, tableVars, kernelVars, wishVars, historyVars
      <4> QED
        BY <4>2, <4>3, <4>4
    <3> QED
      BY <3>1, <3>2
  <2> QED
    BY <2>5, <2>6
<1>7. ASSUME NEW t \in Threads, NEW e \in Events, AddLookup(t, e)
      PROVE  CtxsOwned' /\ CtxsExact'
  BY <1>7 DEF AddLookup, Goto, Slot, dataVars, tableVars, kernelVars, wishVars, historyVars
<1>8. ASSUME NEW t \in Threads, Grow(t) PROVE CtxsOwned' /\ CtxsExact'
  BY <1>8 DEF Grow, Goto, Allocated, dataVars, tableVars, kernelVars, wishVars, historyVars
<1>9. ASSUME NEW t \in Threads, AddLocked(t) PROVE CtxsOwned' /\ CtxsExact'
  BY <1>9 DEF AddLocked, Goto, CtlAccepts, CtlOp, EventsOf, dataVars, tableVars,
       kernelVars, wishVars, historyVars
<1>10. ASSUME NEW d \in Fds, NEW E \in SUBSET Events, Deliver(d, E)
       PROVE  CtxsOwned' /\ CtxsExact'
  BY <1>10 DEF Deliver, EventsOf, dataVars, tableVars, kernelVars, wishVars, historyVars
<1>11. ASSUME NEW t \in Threads, CloseLookup(t) PROVE CtxsOwned' /\ CtxsExact'
  BY <1>11 DEF CloseLookup, Goto, Slot, dataVars, tableVars, kernelVars, wishVars,
       historyVars
<1>12. ASSUME NEW t \in Threads, CancelAllLocked(t) PROVE CtxsOwned' /\ CtxsExact'
  BY <1>12 DEF CancelAllLocked, Goto, Cancelled, EventsOf, dataVars, tableVars,
       kernelVars, wishVars, historyVars
<1>13. ASSUME NEW t \in Threads, Del(t) PROVE CtxsOwned' /\ CtxsExact'
  BY <1>13 DEF Del, Goto, DelSlot, dataVars, tableVars, kernelVars, wishVars, historyVars
<1>14. ASSUME NEW t \in Threads, CloseF(t) PROVE CtxsOwned' /\ CtxsExact'
  BY <1>14 DEF CloseF, Goto, dataVars, tableVars, kernelVars, wishVars, historyVars
<1>15. CASE UNCHANGED vars
  BY <1>15 DEF vars, dataVars, tableVars, kernelVars, wishVars, historyVars
<1> HIDE DEF TypeOK, OneOwner, CtxsOwned, CtxsExact, TablesGrow
<1> QED
  BY <1>1, <1>2, <1>3, <1>4, <1>5, <1>6, <1>7, <1>8, <1>9, <1>10, <1>11, <1>12, <1>13,
       <1>14, <1>15 DEF Next

\* Neither the tables nor what was cut off nor the sockets of the looked-up
\* contexts change: then they stay where they are.
LEMMA StepTables ==
  IInv /\ [Next]_vars
    => TablesGrow' /\ LookedUp'
<1> SUFFICES ASSUME IInv, [Next]_vars
             PROVE  TablesGrow' /\ LookedUp'
  OBVIOUS
<1>0. TypeOK /\ OneOwner /\ TablesGrow /\ LookedUp
  BY DEF IInv
<1> USE DescriptorsAssumption, <1>0 DEF TypeOK, OneOwner, TablesGrow, LookedUp, Live, Slot
<1>1. ASSUME NEW t \in Threads, SocketF(t) PROVE TablesGrow' /\ LookedUp'
  <2>1. PICK d \in Fds : /\ socket[d] = None
                         /\ socket' = [socket EXCEPT ![d] = opened + 1]
                         /\ fd' = [fd EXCEPT ![t] = d]
    BY <1>1 DEF SocketF
  <2>2. TablesGrow'
    BY <1>1 DEF SocketF, Goto, dataVars, tableVars, historyVars
  <2>3. ASSUME NEW u \in Threads, u # t
        PROVE  /\ pc'[u] = pc[u] /\ fd'[u] = fd[u]
               /\ ctx[u] # None => socket'[fd[u]] = socket[fd[u]]
    <3>1. pc'[u] = pc[u] /\ fd'[u] = fd[u]
      BY <1>1, <2>1, <2>3 DEF SocketF, Goto
    <3>2. ctx[u] # None => fd[u] \in Fds /\ fd[u] # d
      BY <2>1, Named
    <3> QED
      BY <2>1, <3>1, <3>2
  <2>4. /\ size' = size /\ made' = made /\ ctx' = ctx /\ cut' = cut /\ adding' = adding
        /\ pc[t] = "free" /\ pc'[t] = "get" /\ ctx[t] = None
    BY <1>1 DEF SocketF, Goto, tableVars, historyVars
  <2>5. ASSUME NEW u \in Threads
        PROVE  /\ ctx'[u] # None <=> pc'[u] \in {"add", "cancel"}
               /\ ctx'[u] # None =>
                    /\ ctx'[u][1] = fd'[u]
                    /\ Live(ctx[u])' \/ <<ctx'[u], socket'[fd'[u]]>> \in cut'
               /\ pc'[u] \in {"grow", "add"} => adding'[u] \in Events
    <3>1. CASE u = t
      BY <2>4, <3>1
    <3>2. CASE u # t
      BY <2>3, <2>4, <3>2
    <3> QED
      BY <3>1, <3>2
  <2>6. LookedUp'
    BY <2>5, Zenon
  <2> QED
    BY <2>2, <2>6
<1>2. ASSUME NEW t \in Threads, GetLookup(t) PROVE TablesGrow' /\ LookedUp'
  BY <1>2 DEF GetLookup, Goto, dataVars, tableVars, kernelVars, wishVars, historyVars
<1>3. ASSUME NEW t \in Threads, GetCreate(t) PROVE TablesGrow' /\ LookedUp'
  <2>1. dataSize' >= 2
    BY <1>3, CreateGrows
  <2> QED
    BY <1>3, <2>1 DEF GetCreate, Goto, dataVars, tableVars, kernelVars, wishVars,
         historyVars
<1>4. ASSUME NEW t \in Threads, NEW nb \in BOOLEAN, Fcntl(t, nb)
      PROVE  TablesGrow' /\ LookedUp'
  BY <1>4 DEF Fcntl, dataVars, tableVars, kernelVars, wishVars, historyVars
<1>5. ASSUME NEW t \in Threads, NEW nb \in BOOLEAN, Ioctl(t, nb)
      PROVE  TablesGrow' /\ LookedUp'
  BY <1>5 DEF Ioctl, dataVars, tableVars, kernelVars, wishVars, historyVars
<1>6. ASSUME NEW t \in Threads, NEW v \in Timeouts, SetTimeout(t, v)
      PROVE  TablesGrow' /\ LookedUp'
  BY <1>6 DEF SetTimeout, dataVars, tableVars, kernelVars, wishVars, historyVars
<1>7. ASSUME NEW t \in Threads, NEW e \in Events, AddLookup(t, e)
      PROVE  TablesGrow' /\ LookedUp'
  <2>1. fd[t] \in Fds /\ fd[t] \in Nat /\ size \in Nat
    BY <1>7, Owner DEF AddLookup
  <2>2. /\ size' = size /\ made' = made /\ cut' = cut /\ socket' = socket /\ fd' = fd
        /\ dataSize' = dataSize /\ adding' = [adding EXCEPT ![t] = e]
    BY <1>7 DEF AddLookup, dataVars, tableVars, kernelVars, historyVars
  <2>3. CASE size > fd[t]
    <3>1. ctx' = [ctx EXCEPT ![t] = Slot(fd[t])] /\ pc' = [pc EXCEPT ![t] = "add"]
      BY <1>7, <2>3 DEF AddLookup, Goto
    <3>2. Slot(fd[t]) # None /\ Slot(fd[t])[1] = fd[t] /\ Live(Slot(fd[t]))
      BY <2>1, <2>3, SlotOf
    <3> QED
      BY <2>1, <2>2, <3>1, <3>2
  <2>4. CASE ~(size > fd[t])
    <3>1. ctx' = ctx /\ pc' = [pc EXCEPT ![t] = "grow"] /\ fd[t] >= 2
      BY <1>7, <2>1, <2>4 DEF AddLookup, Goto
    <3>2. pc[t] = "own"
      BY <1>7 DEF AddLookup
    <3> QED
      BY <2>1, <2>2, <3>1, <3>2
  <2> QED
    BY <2>3, <2>4
<1>8. ASSUME NEW t \in Threads, Grow(t) PROVE TablesGrow' /\ LookedUp'
  <2>1. /\ size' \in Nat /\ size' >= 2 /\ fd[t] < size' /\ fd[t] \in Fds
        /\ \A d \in Fds : made[d] \in Nat /\ made'[d] \in Nat /\ made'[d] >= made[d]
        /\ \A d \in Fds : d < size => made'[d] = made[d]
        /\ \A d \in Fds : d < size' => made'[d] >= 1
        /\ \A d \in Fds : ~(d < size) /\ d < size' => made'[d] = made[d] + 1
        /\ ctx' = [ctx EXCEPT ![t] = <<fd[t], made'[fd[t]]>>]
    BY <1>8, Grew
  <2>2. /\ pc[t] = "grow" /\ pc' = [pc EXCEPT ![t] = "add"] /\ fd' = fd
        /\ socket' = socket /\ adding' = adding /\ dataSize' = dataSize
    BY <1>8 DEF Grow, Goto, dataVars, kernelVars
  <2>3. ASSUME NEW x \in cut'
        PROVE  x[1][2] \in 1 .. made'[x[1][1]] /\ ~Live(x[1])'
    <3>1. CASE x \in cut
      <4>1. x[1][1] \in Fds /\ x[1] = <<x[1][1], x[1][2]>> /\ x[1][2] \in 1 .. made[x[1][1]]
        BY <3>1, Named
      <4>2. x[1][2] \in 1 .. made'[x[1][1]]
        BY <2>1, <4>1
      <4>3. CASE x[1][1] < size
        BY <2>1, <3>1, <4>1, <4>3
      <4>4. CASE ~(x[1][1] < size)
        BY <2>1, <4>1, <4>4
      <4> QED
        BY <4>2, <4>3, <4>4
    <3>2. CASE x \notin cut
      <4>1. PICK d \in Fds : x = <<Slot(d), socket[d]>> /\ d < size /\ ~(d < size')
        BY <1>8, <3>2, Cut
      <4>2. x[1] = <<d, made[d]>> /\ made[d] >= 1 /\ made'[d] = made[d]
        BY <2>1, <4>1
      <4> QED
        BY <2>1, <4>1, <4>2
    <3> QED
      BY <3>1, <3>2
  <2>4. TablesGrow'
    BY <2>1, <2>2, <2>3
  <2>5. ASSUME NEW u \in Threads, ctx'[u] # None
        PROVE  /\ ctx'[u][1] = fd[u]
               /\ \/ fd[u] < size' /\ ctx'[u] = <<fd[u], made'[fd[u]]>>
                  \/ <<ctx'[u], socket[fd[u]]>> \in cut'
    <3>1. CASE u = t
      BY <2>1, <3>1
    <3>2. CASE u # t
      <4>1. ctx'[u] = ctx[u] /\ ctx[u][1] = fd[u] /\ fd[u] \in Fds /\ cut \subseteq cut'
        BY <1>8, <2>1, <2>5, <3>2, Named, Cut
      <4>2. CASE <<ctx[u], socket[fd[u]]>> \in cut
        BY <4>1, <4>2
      <4>3. CASE fd[u] < size /\ ctx[u] = Slot(fd[u]) /\ fd[u] < size'
        BY <2>1, <4>1, <4>3
      <4>4. CASE fd[u] < size /\ ctx[u] = Slot(fd[u]) /\ ~(fd[u] < size')
        <5>1. InUse(Slot(fd[u]))
          BY <4>4 DEF InUse
        <5> QED
          BY <1>8, <4>1, <4>4, <5>1, Cut
      <4> QED
        BY <2>5, <4>1, <4>2, <4>3, <4>4
    <3> QED
      BY <3>1, <3>2
  <2>6. ASSUME NEW u \in Threads
        PROVE  /\ ctx'[u] # None <=> pc'[u] \in {"add", "cancel"}
               /\ pc'[u] \in {"grow", "add"} => adding'[u] \in Events
    <3>1. <<fd[t], made'[fd[t]]>> \in Contexts
      BY <2>1 DEF Contexts
    <3>2. <<fd[t], made'[fd[t]]>> # None
      BY <3>1
    <3> QED
      BY <2>1, <2>2, <3>2
  <2> QED
    BY <2>2, <2>4, <2>5, <2>6
<1>9. ASSUME NEW t \in Threads, AddLocked(t) PROVE TablesGrow' /\ LookedUp'
  BY <1>9 DEF AddLocked, Goto, dataVars, tableVars
<1>10. ASSUME NEW d \in Fds, NEW E \in SUBSET Events, Deliver(d, E)
       PROVE  TablesGrow' /\ LookedUp'
  BY <1>10 DEF Deliver, EventsOf, dataVars, tableVars, kernelVars, wishVars, historyVars
<1>11. ASSUME NEW t \in Threads, CloseLookup(t) PROVE TablesGrow' /\ LookedUp'
  <2>1. fd[t] \in Fds /\ fd[t] \in Nat /\ size \in Nat
    BY <1>11, Owner DEF CloseLookup
  <2>2. /\ size' = size /\ made' = made /\ cut' = cut /\ socket' = socket /\ fd' = fd
        /\ dataSize' = dataSize /\ adding' = adding /\ pc[t] = "own"
    BY <1>11 DEF CloseLookup, dataVars, tableVars, kernelVars, historyVars
  <2>3. CASE size > fd[t]
    <3>1. ctx' = [ctx EXCEPT ![t] = Slot(fd[t])] /\ pc' = [pc EXCEPT ![t] = "cancel"]
      BY <1>11, <2>1, <2>3 DEF CloseLookup, Goto
    <3>2. Slot(fd[t]) # None /\ Slot(fd[t])[1] = fd[t] /\ Live(Slot(fd[t]))
      BY <2>1, <2>3, SlotOf
    <3> QED
      BY <2>1, <2>2, <3>1, <3>2
  <2>4. CASE ~(size > fd[t])
    <3>1. ctx' = ctx /\ pc' = [pc EXCEPT ![t] = "del"]
      BY <1>11, <2>4 DEF CloseLookup, Goto
    <3> QED
      BY <2>1, <2>2, <3>1
  <2> QED
    BY <2>3, <2>4
<1>12. ASSUME NEW t \in Threads, CancelAllLocked(t) PROVE TablesGrow' /\ LookedUp'
  BY <1>12 DEF CancelAllLocked, Goto, Cancelled, EventsOf, dataVars, tableVars,
       kernelVars, wishVars, historyVars
<1>13. ASSUME NEW t \in Threads, Del(t) PROVE TablesGrow' /\ LookedUp'
  BY <1>13 DEF Del, Goto, DelSlot, dataVars, tableVars, kernelVars, wishVars, historyVars
<1>14. ASSUME NEW t \in Threads, CloseF(t) PROVE TablesGrow' /\ LookedUp'
  <2>1. TablesGrow'
    BY <1>14 DEF CloseF, Goto, dataVars, tableVars, historyVars
  <2>2. ASSUME NEW u \in Threads, u # t
        PROVE  /\ pc'[u] = pc[u] /\ fd'[u] = fd[u]
               /\ ctx[u] # None => socket'[fd[u]] = socket[fd[u]]
    <3>1. ctx[u] # None => fd[u] \in Fds /\ fd[u] # fd[t]
      BY <2>2, Named
    <3> QED
      BY <1>14, <2>2, <3>1 DEF CloseF, Goto
  <2>3. pc[t] = "close_f" /\ pc' = [pc EXCEPT ![t] = "free"] /\ ctx' = ctx
        /\ size' = size /\ made' = made /\ cut' = cut /\ adding' = adding
    BY <1>14 DEF CloseF, Goto, tableVars, historyVars
  <2>4. LookedUp'
    BY <2>2, <2>3
  <2> QED
    BY <2>1, <2>4
<1>15. CASE UNCHANGED vars
  BY <1>15 DEF vars, dataVars, tableVars, kernelVars, wishVars, historyVars
<1> HIDE DEF TypeOK, OneOwner, TablesGrow, LookedUp, Live, Slot
<1> QED
  BY <1>1, <1>2, <1>3, <1>4, <1>5, <1>6, <1>7, <1>8, <1>9, <1>10, <1>11, <1>12, <1>13,
       <1>14, <1>15 DEF Next

\* An event stays with its context while the tables stay and its owner does.
LEMMA EventsKept ==
  ASSUME IInv, events' \subseteq events, UNCHANGED <<size, made, cut>>,
         \A u \in Threads, p \in events' :
           fd[u] = p[1][1] /\ pc[u] \in HasEvents /\ (pc[u] = "cancel" => ctx[u] = p[1])
             => /\ fd'[u] = fd[u] /\ pc'[u] \in HasEvents
                /\ pc'[u] = "cancel" => ctx'[u] = p[1]
  PROVE  EventsOwned'
<1> SUFFICES ASSUME NEW p \in events'
             PROVE  /\ p[1][2] \in 1 .. made[p[1][1]]
                    /\ WasCut(p[1]) \/ (Live(p[1]) /\ HasOwner(p[1])')
  BY DEF EventsOwned, WasCut, Live, Slot
<1>1. /\ p[1][2] \in 1 .. made[p[1][1]]
      /\ WasCut(p[1]) \/ (Live(p[1]) /\ HasOwner(p[1]))
  BY DEF IInv, EventsOwned
<1>2. ASSUME HasOwner(p[1]) PROVE HasOwner(p[1])'
  <2>1. PICK u \in Threads : /\ fd[u] = p[1][1] /\ pc[u] \in HasEvents
                             /\ pc[u] = "cancel" => ctx[u] = p[1]
    BY <1>2 DEF HasOwner
  <2>2. fd'[u] = fd[u] /\ pc'[u] \in HasEvents /\ (pc'[u] = "cancel" => ctx'[u] = p[1])
    BY <2>1
  <2> QED
    BY <2>1, <2>2 DEF HasOwner
<1> QED
  BY <1>1, <1>2

\* Events are registered by the owner and gone, or cut off, before it closes.
LEMMA StepEvents == IInv /\ [Next]_vars => EventsOwned'
<1> SUFFICES ASSUME IInv, [Next]_vars
             PROVE  EventsOwned'
  OBVIOUS
<1>0. TypeOK /\ OneOwner /\ TablesGrow /\ LookedUp /\ EventsOwned
  BY DEF IInv
<1> USE DescriptorsAssumption, <1>0 DEF TypeOK, OneOwner, HasEvents
<1>1. ASSUME NEW t \in Threads, SocketF(t) PROVE EventsOwned'
  BY <1>1, EventsKept DEF SocketF, Goto, tableVars, historyVars
<1>2. ASSUME NEW t \in Threads, GetLookup(t) PROVE EventsOwned'
  BY <1>2, EventsKept DEF GetLookup, Goto, tableVars, historyVars
<1>3. ASSUME NEW t \in Threads, GetCreate(t) PROVE EventsOwned'
  BY <1>3, EventsKept DEF GetCreate, Goto, tableVars, historyVars
<1>4. ASSUME NEW t \in Threads, NEW nb \in BOOLEAN, Fcntl(t, nb) PROVE EventsOwned'
  BY <1>4, EventsKept DEF Fcntl, tableVars, historyVars
<1>5. ASSUME NEW t \in Threads, NEW nb \in BOOLEAN, Ioctl(t, nb) PROVE EventsOwned'
  BY <1>5, EventsKept DEF Ioctl, tableVars, historyVars
<1>6. ASSUME NEW t \in Threads, NEW v \in Timeouts, SetTimeout(t, v) PROVE EventsOwned'
  BY <1>6, EventsKept DEF SetTimeout, tableVars, historyVars
<1>7. ASSUME NEW t \in Threads, NEW e \in Events, AddLookup(t, e) PROVE EventsOwned'
  <2>1. /\ pc' = [pc EXCEPT ![t] = "add"] \/ pc' = [pc EXCEPT ![t] = "grow"]
        /\ fd' = fd /\ events' = events /\ UNCHANGED <<size, made, cut>>
        /\ \A u \in Threads : u # t => ctx'[u] = ctx[u]
    BY <1>7 DEF AddLookup, Goto, tableVars, historyVars
  <2> QED
    BY <2>1, EventsKept
<1>8. ASSUME NEW t \in Threads, Grow(t) PROVE EventsOwned'
  <2>1. /\ size' \in Nat /\ fd[t] < size' /\ fd[t] \in Fds
        /\ \A d \in Fds : made[d] \in Nat /\ made'[d] \in Nat /\ made'[d] >= made[d]
        /\ \A d \in Fds : d < size => made'[d] = made[d]
        /\ ctx' = [ctx EXCEPT ![t] = <<fd[t], made'[fd[t]]>>]
    BY <1>8, Grew
  <2>2. /\ pc[t] = "grow" /\ pc' = [pc EXCEPT ![t] = "add"] /\ fd' = fd
        /\ socket' = socket /\ events' = events
    BY <1>8 DEF Grow, Goto, kernelVars
  <2>3. ASSUME NEW p \in events'
        PROVE  /\ p[1][2] \in 1 .. made'[p[1][1]]
               /\ WasCut(p[1])' \/ (Live(p[1])' /\ HasOwner(p[1])')
    <3>1. /\ p = <<p[1], p[2]>> /\ p[2] \in Events /\ p[1][1] \in Fds
          /\ p[1][2] \in 1 .. made[p[1][1]]
      BY <2>2, <2>3, Named
    <3>2. p[1][2] \in 1 .. made'[p[1][1]]
      BY <2>1, <3>1
    <3>3. CASE WasCut(p[1])
      BY <1>8, <3>2, <3>3, Cut DEF WasCut
    <3>4. CASE Live(p[1]) /\ HasOwner(p[1]) /\ p[1][1] < size'
      <4>1. Live(p[1])'
        BY <2>1, <3>1, <3>4 DEF Live, Slot
      <4>2. HasOwner(p[1])'
        BY <2>1, <2>2, <3>4 DEF HasOwner
      <4> QED
        BY <3>2, <4>1, <4>2
    <3>5. CASE Live(p[1]) /\ ~(p[1][1] < size')
      <4>1. p[1] = Slot(p[1][1]) /\ p[1][1] < size
        BY <3>5 DEF Live
      <4>2. InUse(Slot(p[1][1]))
        BY <2>2, <2>3, <3>1, <4>1 DEF InUse, EventsOf
      <4>3. <<Slot(p[1][1]), socket[p[1][1]]>> \in cut'
        BY <1>8, <3>1, <3>5, <4>1, <4>2, Cut
      <4> QED
        BY <3>2, <4>1, <4>3 DEF WasCut
    <3> QED
      BY <2>2, <2>3, <3>3, <3>4, <3>5 DEF EventsOwned
  <2> QED
    BY <2>3 DEF EventsOwned
<1>9. ASSUME NEW t \in Threads, AddLocked(t) PROVE EventsOwned'
  <2>1. /\ pc[t] = "add" /\ pc' = [pc EXCEPT ![t] = "own"] /\ fd' = fd
        /\ UNCHANGED <<size, made, cut>> /\ ctx' = [ctx EXCEPT ![t] = None]
        /\ events' = events \/ events' = events \cup {<<ctx[t], adding[t]>>}
    BY <1>9 DEF AddLocked, Goto, tableVars
  <2>2. /\ ctx[t] # None /\ ctx[t][1] = fd[t] /\ ctx[t][2] \in 1 .. made[ctx[t][1]]
        /\ WasCut(ctx[t]) \/ Live(ctx[t])
    BY <2>1, Named DEF LookedUp, WasCut
  <2>3. ASSUME NEW p \in events'
        PROVE  /\ p[1][2] \in 1 .. made[p[1][1]]
               /\ WasCut(p[1]) \/ (Live(p[1]) /\ HasOwner(p[1])')
    <3>1. CASE p \in events
      <4>1. HasOwner(p[1]) => HasOwner(p[1])'
        BY <2>1 DEF HasOwner
      <4> QED
        BY <3>1, <4>1 DEF EventsOwned
    <3>2. CASE p = <<ctx[t], adding[t]>>
      <4>1. HasOwner(p[1])'
        BY <2>1, <2>2, <3>2 DEF HasOwner
      <4> QED
        BY <2>2, <3>2, <4>1
    <3> QED
      BY <2>1, <3>1, <3>2
  <2> QED
    BY <2>1, <2>3 DEF EventsOwned, WasCut, Live, Slot
<1>10. ASSUME NEW d \in Fds, NEW E \in SUBSET Events, Deliver(d, E) PROVE EventsOwned'
  BY <1>10, EventsKept DEF Deliver, tableVars, historyVars
<1>11. ASSUME NEW t \in Threads, CloseLookup(t) PROVE EventsOwned'
  <2>1. /\ pc[t] = "own" /\ fd' = fd /\ events' = events /\ size' = size /\ made' = made
        /\ cut' = cut /\ \A u \in Threads : u # t => ctx'[u] = ctx[u] /\ pc'[u] = pc[u]
    BY <1>11 DEF CloseLookup, Goto, tableVars, historyVars
  <2>2. \/ ~(fd[t] < size) /\ pc'[t] = "del"
        \/ pc'[t] = "cancel" /\ ctx'[t] = Slot(fd[t])
    <3>1. fd[t] \in Nat /\ size \in Nat
      BY <2>1, Owner
    <3> QED
      BY <1>11, <3>1 DEF CloseLookup, Goto
  <2>3. ASSUME NEW p \in events'
        PROVE  /\ p[1][2] \in 1 .. made[p[1][1]]
               /\ WasCut(p[1]) \/ (Live(p[1]) /\ HasOwner(p[1])')
    <3>1. ASSUME Live(p[1]), HasOwner(p[1]) PROVE HasOwner(p[1])'
      <4>1. PICK u \in Threads : /\ fd[u] = p[1][1] /\ pc[u] \in HasEvents
                                 /\ pc[u] = "cancel" => ctx[u] = p[1]
        BY <3>1 DEF HasOwner
      <4>2. p[1][1] < size /\ p[1] = Slot(p[1][1])
        BY <3>1 DEF Live
      <4>3. CASE u = t
        BY <2>1, <2>2, <4>1, <4>2, <4>3 DEF HasOwner
      <4>4. CASE u # t
        BY <2>1, <4>1, <4>4 DEF HasOwner
      <4> QED
        BY <4>3, <4>4
    <3> QED
      BY <2>1, <3>1 DEF EventsOwned
  <2> QED
    BY <2>1, <2>3 DEF EventsOwned, WasCut, Live, Slot
<1>12. ASSUME NEW t \in Threads, CancelAllLocked(t) PROVE EventsOwned'
  <2>1. /\ pc[t] = "cancel" /\ pc' = [pc EXCEPT ![t] = "del"] /\ fd' = fd
        /\ ctx' = [ctx EXCEPT ![t] = None] /\ UNCHANGED <<size, made, cut>>
        /\ events' = events \ Cancelled(ctx[t])
    BY <1>12 DEF CancelAllLocked, Goto, tableVars, historyVars
  <2>2. \A p \in events' : p[1] # ctx[t]
    <3> SUFFICES ASSUME NEW p \in events', p[1] = ctx[t] PROVE FALSE
      OBVIOUS
    <3>1. p \in events /\ p = <<p[1], p[2]>> /\ p[2] \in Events
      BY <2>1, Named
    <3>2. p \in Cancelled(ctx[t])
      BY <3>1 DEF Cancelled, EventsOf
    <3> QED
      BY <2>1, <3>2
  <2> QED
    BY <2>1, <2>2, EventsKept
<1>13. ASSUME NEW t \in Threads, Del(t) PROVE EventsOwned'
  BY <1>13, EventsKept DEF Del, Goto, tableVars, historyVars
<1>14. ASSUME NEW t \in Threads, CloseF(t) PROVE EventsOwned'
  <2>1. /\ pc[t] = "close_f" /\ pc' = [pc EXCEPT ![t] = "free"] /\ ctx' = ctx
        /\ fd' = [fd EXCEPT ![t] = None] /\ events' = events
        /\ UNCHANGED <<size, made, cut>>
    BY <1>14 DEF CloseF, Goto, tableVars, historyVars
  <2> QED
    BY <2>1, EventsKept
<1>15. CASE UNCHANGED vars
  BY <1>15, EventsKept DEF vars
<1> HIDE DEF TypeOK, OneOwner, HasEvents
<1> QED
  BY <1>1, <1>2, <1>3, <1>4, <1>5, <1>6, <1>7, <1>8, <1>9, <1>10, <1>11, <1>12, <1>13,
       <1>14, <1>15 DEF Next

\* The events of a live context have an owner.
LEMMA WaitingOwned ==
  ASSUME IInv, NEW d \in Fds, Waiting(d) # {}
  PROVE  \E u \in Threads : fd[u] = d /\ pc[u] \in HasEvents
<1>1. PICK e \in Events : d < size /\ <<Slot(d), e>> \in events
  BY DEF Waiting, EventsOf
<1>2. WasCut(Slot(d)) \/ HasOwner(Slot(d))
  BY <1>1 DEF IInv, EventsOwned
<1> QED
  BY <1>1, <1>2, SlotOf DEF HasOwner

\* epoll follows the registrations of every socket that was not spoilt.
LEMMA StepEpoll == IInv /\ [Next]_vars => EpollExact' /\ RefusedSpoilt'
<1> SUFFICES ASSUME IInv, [Next]_vars
             PROVE  EpollExact' /\ RefusedSpoilt'
  OBVIOUS
<1>0. /\ TypeOK /\ OneOwner /\ TablesGrow /\ LookedUp /\ EventsOwned
      /\ EpollExact /\ RefusedSpoilt
  BY DEF IInv
<1> USE DescriptorsAssumption, <1>0
<1> DEFINE Same == UNCHANGED <<size, made, cut, events, epoll, refused>>
<1>20. ASSUME Same, socket' = socket PROVE EpollExact' /\ RefusedSpoilt'
  BY <1>20 DEF EpollExact, RefusedSpoilt, Spoilt, EntryExact, Waiting, EventsOf, Slot
<1>1. ASSUME NEW t \in Threads, SocketF(t) PROVE EpollExact' /\ RefusedSpoilt'
  <2>1. PICK d \in Fds : socket[d] = None /\ socket' = [socket EXCEPT ![d] = opened + 1]
    BY <1>1 DEF SocketF
  <2>2. Same
    BY <1>1 DEF SocketF, tableVars, historyVars
  <2>3. ASSUME NEW x \in Fds
        PROVE  /\ epoll[x] # None => epoll[x][1] = x
               /\ socket'[x] = None => epoll[x] = None
               /\ socket'[x] # None => Spoilt(socket'[x]) \/ EntryExact(x)
    <3>1. CASE x = d
      <4>1. epoll[d] = None
        BY <2>1 DEF EpollExact
      <4>2. Waiting(d) = {}
        <5> SUFFICES ASSUME Waiting(d) # {} PROVE FALSE
          OBVIOUS
        <5>1. PICK u \in Threads : fd[u] = d /\ pc[u] \in HasEvents
          BY WaitingOwned
        <5> QED
          BY <2>1, <5>1 DEF OneOwner, HasEvents
      <4> QED
        BY <3>1, <4>1, <4>2 DEF EntryExact
    <3>2. CASE x # d
      BY <2>1, <3>2 DEF TypeOK, EpollExact
    <3> QED
      BY <3>1, <3>2
  <2> QED
    BY <2>2, <2>3 DEF EpollExact, RefusedSpoilt, Spoilt, EntryExact, Waiting, EventsOf,
         Slot
<1>2. ASSUME NEW t \in Threads, GetLookup(t) PROVE EpollExact' /\ RefusedSpoilt'
  BY <1>2, <1>20 DEF GetLookup, tableVars, kernelVars, historyVars
<1>3. ASSUME NEW t \in Threads, GetCreate(t) PROVE EpollExact' /\ RefusedSpoilt'
  BY <1>3, <1>20 DEF GetCreate, tableVars, historyVars
<1>4. ASSUME NEW t \in Threads, NEW nb \in BOOLEAN, Fcntl(t, nb)
      PROVE  EpollExact' /\ RefusedSpoilt'
  BY <1>4, <1>20 DEF Fcntl, tableVars, historyVars
<1>5. ASSUME NEW t \in Threads, NEW nb \in BOOLEAN, Ioctl(t, nb)
      PROVE  EpollExact' /\ RefusedSpoilt'
  BY <1>5, <1>20 DEF Ioctl, tableVars, historyVars
<1>6. ASSUME NEW t \in Threads, NEW v \in Timeouts, SetTimeout(t, v)
      PROVE  EpollExact' /\ RefusedSpoilt'
  BY <1>6, <1>20 DEF SetTimeout, tableVars, kernelVars, historyVars
<1>7. ASSUME NEW t \in Threads, NEW e \in Events, AddLookup(t, e)
      PROVE  EpollExact' /\ RefusedSpoilt'
  BY <1>7, <1>20 DEF AddLookup, tableVars, kernelVars, historyVars
<1>8. ASSUME NEW t \in Threads, Grow(t) PROVE EpollExact' /\ RefusedSpoilt'
  <2>1. /\ size' \in Nat /\ \A d \in Fds : made[d] \in Nat
        /\ \A d \in Fds : d < size => made'[d] = made[d]
        /\ \A d \in Fds : ~(d < size) /\ d < size' => made'[d] = made[d] + 1
    BY <1>8, Grew
  <2>2. events' = events /\ epoll' = epoll /\ socket' = socket /\ refused' = refused
    BY <1>8 DEF Grow, kernelVars
  <2>3. cut \subseteq cut'
    BY <1>8, Cut
  <2>4. RefusedSpoilt'
    BY <2>2, <2>3 DEF RefusedSpoilt, Spoilt
  <2>5. ASSUME NEW d \in Fds, socket[d] # None, EntryExact(d), ~Spoilt(socket[d])'
        PROVE  EntryExact(d)'
    <3>1. CASE d < size /\ d < size'
      <4>1. Slot(d)' = Slot(d)
        BY <2>1, <3>1 DEF Slot
      <4>2. Waiting(d)' = Waiting(d)
        BY <2>2, <3>1, <4>1 DEF Waiting, EventsOf
      <4> QED
        BY <2>2, <2>5, <4>1, <4>2 DEF EntryExact
    <3>2. CASE d < size /\ ~(d < size')
      <4>1. EventsOf(Slot(d)) = {}
        BY <1>8, <2>2, <2>5, <3>2, Cut DEF InUse, Spoilt
      <4> QED
        BY <2>2, <2>5, <3>2, <4>1 DEF EntryExact, Waiting
    <3>3. CASE ~(d < size)
      <4>1. epoll[d] = None
        BY <2>5, <3>3 DEF EntryExact, Waiting
      <4>2. Waiting(d)' = {}
        <5> SUFFICES ASSUME NEW e \in Events, d < size', <<<<d, made'[d]>>, e>> \in events
                     PROVE  FALSE
          BY <2>2 DEF Waiting, EventsOf, Slot
        <5>1. made'[d] \in 1 .. made[d]
          BY DEF EventsOwned
        <5> QED
          BY <2>1, <3>3, <5>1
      <4> QED
        BY <2>2, <4>1, <4>2 DEF EntryExact
    <3> QED
      BY <3>1, <3>2, <3>3
  <2>6. EpollExact'
    <3> SUFFICES ASSUME NEW d \in Fds
                 PROVE  /\ epoll[d] # None => epoll[d][1] = d
                        /\ socket[d] = None => epoll[d] = None
                        /\ socket[d] # None => Spoilt(socket[d])' \/ EntryExact(d)'
      BY <2>2 DEF EpollExact
    <3>1. Spoilt(socket[d]) => Spoilt(socket[d])'
      BY <2>2, <2>3 DEF Spoilt
    <3> QED
      BY <2>5, <3>1 DEF EpollExact
  <2> QED
    BY <2>4, <2>6
<1>9. ASSUME NEW t \in Threads, AddLocked(t) PROVE EpollExact' /\ RefusedSpoilt'
  <2> DEFINE d == fd[t]
  <2>1. /\ pc[t] = "add" /\ d \in Fds /\ socket[d] # None /\ ctx[t] # None /\ ctx[t][1] = d
        /\ adding[t] \in Events
    BY <1>9, Owner DEF AddLocked, LookedUp, OneOwner
  <2>2. UNCHANGED <<size, made, cut, socket>>
    BY <1>9 DEF AddLocked, tableVars
  <2>3. \/ /\ epoll' = [epoll EXCEPT ![d] = ctx[t]] /\ refused' = refused
           /\ events' = events \cup {<<ctx[t], adding[t]>>}
           /\ CtlAccepts(d, CtlOp(ctx[t]))
        \/ /\ refused' = refused \cup {socket[d]} /\ epoll' = epoll /\ events' = events
           /\ ~CtlAccepts(d, CtlOp(ctx[t]))
    BY <1>9 DEF AddLocked
  <2>4. ASSUME ~Spoilt(socket[d])
        PROVE  ctx[t] = Slot(d) /\ d < size /\ CtlAccepts(d, CtlOp(ctx[t]))
    <3>1. ctx[t] = Slot(d) /\ d < size
      BY <2>1, <2>4 DEF LookedUp, Spoilt, Live
    <3>2. EntryExact(d) /\ Waiting(d) = EventsOf(ctx[t])
      BY <2>1, <2>4, <3>1 DEF EpollExact, Waiting
    <3> QED
      BY <3>1, <3>2 DEF CtlAccepts, CtlOp, EntryExact
  <2>5. RefusedSpoilt'
    BY <2>2, <2>3, <2>4 DEF RefusedSpoilt, Spoilt
  <2>6. EpollExact'
    <3> SUFFICES ASSUME NEW x \in Fds
                 PROVE  /\ epoll'[x] # None => epoll'[x][1] = x
                        /\ socket[x] = None => epoll'[x] = None
                        /\ socket[x] # None => Spoilt(socket[x]) \/ EntryExact(x)'
      BY <2>2 DEF EpollExact, Spoilt
    <3>1. CASE events' = events /\ epoll' = epoll
      BY <2>2, <3>1 DEF EpollExact, EntryExact, Waiting, EventsOf, Slot
    <3>2. CASE /\ epoll' = [epoll EXCEPT ![d] = ctx[t]]
               /\ events' = events \cup {<<ctx[t], adding[t]>>}
      <4>1. CASE x = d
        <5>1. epoll'[x] = ctx[t]
          BY <2>1, <3>2, <4>1 DEF TypeOK
        <5>2. ASSUME ~Spoilt(socket[d]) PROVE EntryExact(x)'
          <6>1. ctx[t] = Slot(d) /\ d < size
            BY <2>4, <5>2
          <6>2. adding[t] \in Waiting(x)'
            BY <2>1, <2>2, <3>2, <4>1, <6>1 DEF Waiting, EventsOf, Slot
          <6> QED
            BY <2>1, <2>2, <4>1, <5>1, <6>1, <6>2 DEF EntryExact, Slot
        <5> QED
          BY <2>1, <4>1, <5>1, <5>2
      <4>2. CASE x # d
        <5>1. epoll'[x] = epoll[x]
          BY <2>1, <3>2, <4>2 DEF TypeOK
        <5>2. Waiting(x)' = Waiting(x) /\ Slot(x)' = Slot(x)
          <6>1. ctx[t] # Slot(x)
            BY <2>1, <4>2 DEF Slot
          <6>2. Slot(x)' = Slot(x)
            BY <2>2 DEF Slot
          <6>3. EventsOf(Slot(x))' = EventsOf(Slot(x))
            BY <3>2, <6>1, <6>2 DEF EventsOf
          <6> QED
            BY <2>2, <6>2, <6>3 DEF Waiting
        <5> QED
          BY <5>1, <5>2 DEF EpollExact, EntryExact
      <4> QED
        BY <4>1, <4>2
    <3> QED
      BY <2>3, <3>1, <3>2
  <2> QED
    BY <2>5, <2>6
<1>10. ASSUME NEW d \in Fds, NEW E \in SUBSET Events, Deliver(d, E)
       PROVE  EpollExact' /\ RefusedSpoilt'
  <2>0. PICK c \in Contexts : c = epoll[d] /\ c # None /\ c[1] = d
    BY <1>10 DEF Deliver, EpollExact, TypeOK
  <2>1. /\ E \subseteq EventsOf(c) /\ events' = events \ ({c} \X E)
        /\ epoll' = [epoll EXCEPT ![d] = IF EventsOf(c) = E THEN None ELSE c]
        /\ UNCHANGED <<size, made, cut, socket, refused>>
    BY <1>10, <2>0 DEF Deliver, tableVars, historyVars
  <2>2. RefusedSpoilt'
    BY <2>1 DEF RefusedSpoilt, Spoilt
  <2>3. /\ EventsOf(c)' = EventsOf(c) \ E
        /\ \A x \in Fds : Slot(x) # c => EventsOf(Slot(x))' = EventsOf(Slot(x))
    BY <2>1 DEF EventsOf, Slot
  <2>4. ASSUME NEW x \in Fds, EntryExact(x), x # d \/ c = Slot(d) PROVE EntryExact(x)'
    <3>1. Slot(x)' = Slot(x)
      BY <2>1 DEF Slot
    <3>2. CASE x # d
      <4>1. Slot(x) # c
        BY <2>0, <3>2 DEF Slot
      <4>2. Waiting(x)' = Waiting(x)
        BY <2>1, <2>3, <4>1 DEF Waiting
      <4>3. epoll'[x] = epoll[x]
        BY <2>1, <3>2 DEF TypeOK
      <4> QED
        BY <2>4, <3>1, <4>2, <4>3 DEF EntryExact
    <3>3. CASE x = d /\ c = Slot(d)
      <4>1. epoll'[x] = IF EventsOf(c) = E THEN None ELSE c
        BY <2>1, <3>3 DEF TypeOK
      <4>2. Waiting(x) = EventsOf(c) /\ Waiting(x) # {} /\ x < size
        BY <2>0, <2>4, <3>3 DEF EntryExact, Waiting
      <4>3. Waiting(x)' = EventsOf(c) \ E
        BY <2>1, <2>3, <3>1, <3>3, <4>2 DEF Waiting
      <4>4. EventsOf(c) \ E = {} <=> EventsOf(c) = E
        BY <2>1
      <4> QED
        BY <2>0, <3>1, <3>3, <4>1, <4>3, <4>4 DEF EntryExact
    <3> QED
      BY <2>4, <3>2, <3>3
  <2>5. ASSUME NEW x \in Fds
        PROVE  /\ epoll'[x] # None => epoll'[x][1] = x
               /\ socket[x] = None => epoll'[x] = None
               /\ socket[x] # None => Spoilt(socket[x]) \/ EntryExact(x)'
    <3>1. epoll'[x] = None \/ epoll'[x] = epoll[x]
      BY <2>0, <2>1 DEF TypeOK
    <3>2. EntryExact(x) => x # d \/ c = Slot(d)
      BY <2>0 DEF EntryExact
    <3> QED
      BY <2>4, <3>1, <3>2 DEF EpollExact
  <2>6. EpollExact'
    BY <2>1, <2>5 DEF EpollExact, Spoilt
  <2> QED
    BY <2>2, <2>6
<1>11. ASSUME NEW t \in Threads, CloseLookup(t) PROVE EpollExact' /\ RefusedSpoilt'
  BY <1>11, <1>20 DEF CloseLookup, tableVars, kernelVars, historyVars
<1>12. ASSUME NEW t \in Threads, CancelAllLocked(t)
       PROVE  EpollExact' /\ RefusedSpoilt'
  <2> DEFINE d == fd[t]
  <2>0. PICK c \in Contexts : c = ctx[t] /\ c[1] = fd[t]
    BY <1>12 DEF CancelAllLocked, LookedUp, TypeOK
  <2>1. /\ pc[t] = "cancel" /\ d \in Fds /\ socket[d] # None
        /\ Live(c) \/ <<c, socket[d]>> \in cut
    BY <1>12, <2>0, Owner DEF CancelAllLocked, LookedUp
  <2>2. /\ events' = events \ Cancelled(c)
        /\ epoll' = IF Cancelled(c) = {} THEN epoll ELSE [epoll EXCEPT ![d] = None]
        /\ UNCHANGED <<size, made, cut, socket, refused, fd>>
    BY <1>12, <2>0 DEF CancelAllLocked, tableVars, historyVars
  <2>3. RefusedSpoilt'
    BY <2>2 DEF RefusedSpoilt, Spoilt
  <2>4. /\ EventsOf(c)' = {}
        /\ \A x \in Fds : Slot(x) # c => EventsOf(Slot(x))' = EventsOf(Slot(x))
        /\ Cancelled(c) = {} <=> EventsOf(c) = {}
    <3>1. \A e \in Events : <<c, e>> \in Cancelled(c) <=> <<c, e>> \in events
      BY DEF Cancelled, EventsOf
    <3>2. EventsOf(c)' = {}
      BY <2>2, <3>1 DEF EventsOf
    <3>3. ASSUME NEW x \in Fds, Slot(x) # c
          PROVE  EventsOf(Slot(x))' = EventsOf(Slot(x))
      <4>1. Slot(x)' = Slot(x)
        BY <2>2 DEF Slot
      <4>2. \A e \in Events : <<Slot(x), e>> \notin Cancelled(c)
        BY <3>3 DEF Cancelled
      <4> QED
        BY <2>2, <4>1, <4>2 DEF EventsOf
    <3>4. Cancelled(c) = {} <=> EventsOf(c) = {}
      <4>1. ASSUME NEW e \in EventsOf(c) PROVE Cancelled(c) # {}
        BY <3>1, <4>1 DEF EventsOf
      <4>2. ASSUME NEW p \in Cancelled(c) PROVE EventsOf(c) # {}
        BY <4>2 DEF Cancelled
      <4> QED
        BY <4>1, <4>2
    <3> QED
      BY <3>2, <3>3, <3>4
  <2>5. ASSUME NEW x \in Fds
        PROVE  /\ epoll'[x] # None => epoll'[x][1] = x
               /\ socket[x] = None => epoll'[x] = None
               /\ socket[x] # None => Spoilt(socket[x]) \/ EntryExact(x)'
    <3>1. epoll'[x] = None \/ epoll'[x] = epoll[x]
      BY <2>1, <2>2 DEF TypeOK
    <3>2. ASSUME EntryExact(x), x # d PROVE EntryExact(x)'
      <4>1. Slot(x) # c /\ Slot(x)' = Slot(x) /\ epoll'[x] = epoll[x]
        BY <2>0, <2>1, <2>2, <3>2 DEF Slot, TypeOK
      <4>2. Waiting(x)' = Waiting(x)
        BY <2>2, <2>4, <4>1 DEF Waiting
      <4> QED
        BY <3>2, <4>1, <4>2 DEF EntryExact
    <3>3. ASSUME x = d, EntryExact(x), ~Spoilt(socket[x]) PROVE EntryExact(x)'
      <4>1. c = Slot(x) /\ x < size
        BY <2>0, <2>1, <3>3 DEF Live, Spoilt
      <4>2. Waiting(x) = EventsOf(c)
        BY <4>1 DEF Waiting
      <4>3. epoll'[x] = None
        BY <2>1, <2>2, <2>4, <3>3, <4>2 DEF EntryExact, TypeOK
      <4>4. Slot(x)' = c
        BY <2>2, <4>1 DEF Slot
      <4>5. Waiting(x)' = EventsOf(c)'
        BY <2>2, <4>1, <4>4 DEF Waiting, EventsOf
      <4>6. Waiting(x)' = {}
        BY <2>4, <4>5
      <4> QED
        BY <4>3, <4>6 DEF EntryExact
    <3> QED
      BY <3>1, <3>2, <3>3 DEF EpollExact
  <2>6. EpollExact'
    BY <2>2, <2>5 DEF EpollExact, Spoilt
  <2> QED
    BY <2>3, <2>6
<1>13. ASSUME NEW t \in Threads, Del(t) PROVE EpollExact' /\ RefusedSpoilt'
  BY <1>13, <1>20 DEF Del, tableVars, kernelVars, historyVars
<1>14. ASSUME NEW t \in Threads, CloseF(t) PROVE EpollExact' /\ RefusedSpoilt'
  <2>1. /\ fd[t] \in Fds /\ UNCHANGED <<size, made, cut, events, refused>>
        /\ socket' = [socket EXCEPT ![fd[t]] = None]
        /\ epoll' = [epoll EXCEPT ![fd[t]] = None]
    BY <1>14, Owner DEF CloseF, tableVars, historyVars
  <2>2. ASSUME NEW x \in Fds
        PROVE  /\ epoll'[x] # None => epoll'[x][1] = x
               /\ socket'[x] = None => epoll'[x] = None
               /\ socket'[x] # None => Spoilt(socket'[x]) \/ EntryExact(x)'
    <3>1. CASE x = fd[t]
      BY <2>1, <3>1 DEF TypeOK
    <3>2. CASE x # fd[t]
      <4>1. epoll'[x] = epoll[x] /\ socket'[x] = socket[x]
        BY <2>1, <3>2 DEF TypeOK
      <4>2. EntryExact(x) => EntryExact(x)'
        BY <2>1, <4>1 DEF EntryExact, Waiting, EventsOf, Slot
      <4> QED
        BY <4>1, <4>2 DEF EpollExact
    <3> QED
      BY <3>1, <3>2
  <2> QED
    BY <2>1, <2>2 DEF EpollExact, RefusedSpoilt, Spoilt
<1>15. CASE UNCHANGED vars
  BY <1>15, <1>20 DEF vars
<1> QED
  BY <1>1, <1>2, <1>3, <1>4, <1>5, <1>6, <1>7, <1>8, <1>9, <1>10, <1>11, <1>12, <1>13,
       <1>14, <1>15 DEF Next

\* The initial state, every step and the properties follow from the parts.
LEMMA InitIInv == Init => IInv
<1> SUFFICES ASSUME Init PROVE IInv
  OBVIOUS
<1> USE DescriptorsAssumption DEF Init
<1>1. /\ made \in [Fds -> Nat] /\ opened \in 0 .. MaxSockets
      /\ timeout \in [Threads -> Timeouts]
  BY DEF Timeouts
<1>2. TypeOK
  BY <1>1 DEF TypeOK
<1>3. OneOwner /\ CtxsOwned /\ CtxsExact
  BY DEF OneOwner, CtxsOwned, CtxsExact, HasCtx
<1>4. TablesGrow /\ LookedUp
  BY DEF TablesGrow, LookedUp
<1>5. EventsOwned /\ EpollExact /\ RefusedSpoilt
  BY DEF EventsOwned, EpollExact, RefusedSpoilt
<1> QED
  BY <1>2, <1>3, <1>4, <1>5 DEF IInv

\* The inductive invariant holds of every behaviour.
THEOREM Invariance == Spec => []IInv
<1>1. IInv /\ [Next]_vars => IInv'
  BY StepTypes, StepOwners, StepCtxs, StepTables, StepEvents, StepEpoll DEF IInv
<1> QED
  BY <1>1, InitIInv, PTL DEF Spec

\* No index of m_datas or m_fdContexts is past its end, in any interleaving
\* of socket, get, fcntl, addEvent, idle and close.
THEOREM TypeCorrect == Spec => []TypeOK
<1>1. IInv => TypeOK
  BY DEF IInv
<1> QED
  BY <1>1, Invariance, PTL

\* A socket's FdCtx is its own and the flags in it, in the kernel and in the
\* owner's mind agree, however often the number was used before.
THEOREM FlagsCorrect == Spec => []FlagsKept
<1>1. IInv => FlagsKept
  <2> SUFFICES ASSUME IInv, NEW t \in Threads, pc[t] = "own"
               PROVE  /\ Get(fd[t]) # None /\ Get(fd[t]).of = socket[fd[t]]
                      /\ UserView(fd[t]) = asked[t]
                      /\ Get(fd[t]).m_recvTimeout = timeout[t]
                      /\ ~viaIoctl[t] /\ Get(fd[t]).m_sysNonblock => nonblock[fd[t]]
    BY DEF FlagsKept, OwnCtx, WishesKept, SysNonblockTrue
  <2>1. Get(fd[t]) = datas[fd[t]] /\ Get(fd[t]) # None /\ CtxOf(t)
    BY Found DEF HasCtx
  <2>2. viaIoctl[t] \in BOOLEAN /\ nonblock[fd[t]] \in BOOLEAN
    BY Found DEF IInv, TypeOK, HasCtx
  <2> QED
    BY <2>1, <2>2 DEF CtxOf, UserView
<1> QED
  BY <1>1, Invariance, PTL

\* Whoever waits for a descriptor is in the context the table holds for it
\* and the descriptor is open, and epoll_ctl is never refused, except for the
\* contexts that a resize of contextResize has cut off and for their sockets.
THEOREM ContextsCorrect == Spec => []ContextsFound
<1>1. IInv => ContextsFound
  <2> SUFFICES ASSUME IInv, NEW p \in events
               PROVE  FoundAgain(p[1]) \/ WasCut(p[1])
    BY DEF ContextsFound, IInv, RefusedSpoilt, Spoilt, WasCut
  <2>1. CASE Live(p[1]) /\ HasOwner(p[1])
    <3>1. PICK t \in Threads : fd[t] = p[1][1] /\ pc[t] \in HasEvents
      BY <2>1 DEF HasOwner
    <3>2. socket[p[1][1]] # None
      BY <3>1, Owner, DescriptorsAssumption DEF HasEvents
    <3> QED
      BY <2>1, <3>2 DEF Live, FoundAgain
  <2> QED
    BY <2>1 DEF IInv, EventsOwned
<1> QED
  BY <1>1, Invariance, PTL
=============================================================================
