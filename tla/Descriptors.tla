---------------------------- MODULE Descriptors ----------------------------
(***************************************************************************)
(* The two tables indexed by descriptor, through the life of sockets whose *)
(* numbers the kernel reuses: FdManager::m_datas (common/fd_manager.cpp)   *)
(* and IOManager::m_fdContexts (common/iomanager.cpp).  A thread opens a   *)
(* socket, changes its flags and timeout, adds events and closes it with   *)
(* the hooked calls of common/hook.cpp.  Sections under a lock and system  *)
(* calls are steps of their own.  An FdContext is named by its descriptor  *)
(* and by how often a context was allocated for that slot.                 *)
(***************************************************************************)
EXTENDS Integers, FiniteSets

CONSTANTS
  Threads,
  None,
  Fds,           \* descriptor numbers the kernel may give out
  DataSize,      \* m_datas.resize(64)
  ContextSize,   \* contextResize(32)
  MaxSockets     \* bound on the sockets ever opened

Events == {"READ", "WRITE"}
Timeouts == {-1, 0}   \* SO_RCVTIMEO: never set, or set
FdCtxs == [of : 1 .. MaxSockets, m_userNonblock : BOOLEAN, m_sysNonblock : BOOLEAN,
           m_recvTimeout : Timeouts]
Contexts == Fds \X Nat

ASSUME DescriptorsAssumption ==
  /\ Fds \subseteq Nat /\ DataSize \in Nat /\ DataSize >= 2
  /\ ContextSize \in Nat /\ ContextSize >= 2
  /\ MaxSockets \in Nat /\ None \notin Int \cup FdCtxs \cup Contexts

VARIABLES
  dataSize, datas,  \* m_datas: its length, the FdCtx or None of each slot
  size, made,       \* m_fdContexts: its length, contexts made for each slot
  events,           \* registered events, as <<context, event>>
  epoll,            \* kernel: data.ptr of the entry of a descriptor, or None
  socket,           \* kernel: the socket behind a descriptor, or None
  nonblock,         \* kernel: O_NONBLOCK of a descriptor
  opened,           \* sockets opened so far
  pc, fd,           \* each thread's step and its descriptor
  adding, ctx,      \* the event and the fd_ctx of its addEvent or cancelAll
  asked, timeout,   \* what it asked for: non-blocking, a receive timeout
  viaIoctl,         \* it has used ioctl(FIONBIO)
  refused,          \* history: sockets for which an addEvent returned -1
  cut               \* history: contexts cut off the table in use, with the socket

dataVars == <<dataSize, datas>>
tableVars == <<size, made>>
kernelVars == <<epoll, socket, nonblock, opened>>
historyVars == <<refused, cut>>
wishVars == <<asked, timeout, viaIoctl>>
vars == <<dataSize, datas, size, made, events, epoll, socket, nonblock, opened,
          pc, fd, adding, ctx, asked, timeout, viaIoctl, refused, cut>>

\* FdCtx::FdCtx and init() for a socket; of names the socket it was made for.
NewFdCtx(s) ==
  [of |-> s, m_userNonblock |-> FALSE, m_sysNonblock |-> TRUE, m_recvTimeout |-> -1]

Init ==
  /\ dataSize = DataSize /\ datas = [d \in Fds |-> None]
  /\ size = ContextSize /\ made = [d \in Fds |-> IF d < ContextSize THEN 1 ELSE 0]
  /\ events = {} /\ epoll = [d \in Fds |-> None]
  /\ socket = [d \in Fds |-> None] /\ nonblock = [d \in Fds |-> FALSE]
  /\ opened = 0
  /\ pc = [t \in Threads |-> "free"] /\ fd = [t \in Threads |-> None]
  /\ adding = [t \in Threads |-> None] /\ ctx = [t \in Threads |-> None]
  /\ asked = [t \in Threads |-> FALSE] /\ timeout = [t \in Threads |-> -1]
  /\ viaIoctl = [t \in Threads |-> FALSE]
  /\ refused = {} /\ cut = {}

Goto(t, where) == pc' = [pc EXCEPT ![t] = where]

-----------------------------------------------------------------------------
(* socket() and accept(): the descriptor, then FdManager::get(fd, true). *)

\* socket_f or accept_f: the lowest free descriptor, blocking.
SocketF(t) ==
  /\ pc[t] = "free" /\ opened < MaxSockets
  /\ \E d \in Fds :
       /\ socket[d] = None /\ \A x \in Fds : x < d => socket[x] # None
       /\ socket' = [socket EXCEPT ![d] = opened + 1]
       /\ nonblock' = [nonblock EXCEPT ![d] = FALSE]
       /\ fd' = [fd EXCEPT ![t] = d]
  /\ opened' = opened + 1
  /\ asked' = [asked EXCEPT ![t] = FALSE] /\ timeout' = [timeout EXCEPT ![t] = -1]
  /\ viaIoctl' = [viaIoctl EXCEPT ![t] = FALSE]
  /\ Goto(t, "get")
  /\ UNCHANGED <<dataVars, tableVars, events, epoll, adding, ctx, historyVars>>

\* get(fd): the slot, or null when the vector is too short.
Get(d) == IF d < dataSize THEN datas[d] ELSE None

\* get(fd, true), under the read lock ...
GetLookup(t) ==
  /\ pc[t] = "get"
  /\ Goto(t, IF Get(fd[t]) = None THEN "create" ELSE "own")
  /\ UNCHANGED <<dataVars, tableVars, events, kernelVars, fd, adding, ctx, wishVars,
                 historyVars>>

\* Both tables grow to fd * 1.5, converted to an integer.
GrownTooLittle(d) == d
Grown(d) == (d * 3) \div 2

\* ... and under the write lock: construct (which makes the descriptor
\* non-blocking), grow if needed, store.
GetCreate(t) ==
  /\ pc[t] = "create"
  /\ dataSize' = IF fd[t] >= dataSize THEN Grown(fd[t]) ELSE dataSize
  /\ datas' = [datas EXCEPT ![fd[t]] = NewFdCtx(socket[fd[t]])]
  /\ nonblock' = [nonblock EXCEPT ![fd[t]] = TRUE]
  /\ Goto(t, "own")
  /\ UNCHANGED <<tableVars, events, epoll, socket, opened, fd, adding, ctx, wishVars,
                 historyVars>>

-----------------------------------------------------------------------------
(* fcntl, ioctl, setsockopt *)

Update(d, field, v) ==
  datas' = IF Get(d) = None THEN datas ELSE [datas EXCEPT ![d][field] = v]

\* setUserNonblock
Wish(d, nb) == Update(d, "m_userNonblock", nb)

\* fcntl(F_SETFL): the kernel keeps m_sysNonblock.
SetFlRaw(d, nb) == nonblock' = [nonblock EXCEPT ![d] = nb]
SetFl(d, nb) ==
  nonblock' = [nonblock EXCEPT ![d] = IF Get(d) = None THEN nb ELSE Get(d).m_sysNonblock]

Fcntl(t, nb) ==
  /\ pc[t] = "own"
  /\ Wish(fd[t], nb) /\ SetFl(fd[t], nb)
  /\ asked' = [asked EXCEPT ![t] = nb]
  /\ UNCHANGED <<dataSize, tableVars, events, epoll, socket, opened, pc, fd, adding,
                 ctx, timeout, viaIoctl, historyVars>>

\* ioctl(FIONBIO): the wish is noted and handed to the kernel as it is.
Ioctl(t, nb) ==
  /\ pc[t] = "own"
  /\ Wish(fd[t], nb) /\ nonblock' = [nonblock EXCEPT ![fd[t]] = nb]
  /\ asked' = [asked EXCEPT ![t] = nb] /\ viaIoctl' = [viaIoctl EXCEPT ![t] = TRUE]
  /\ UNCHANGED <<dataSize, tableVars, events, epoll, socket, opened, pc, fd, adding,
                 ctx, timeout, historyVars>>

\* fcntl(F_GETFL) as the user sees it.
UserView(d) == IF Get(d) = None THEN nonblock[d] ELSE Get(d).m_userNonblock

\* setsockopt(SO_RCVTIMEO)
SetTimeout(t, v) ==
  /\ pc[t] = "own" /\ v # -1
  /\ Update(fd[t], "m_recvTimeout", v)
  /\ timeout' = [timeout EXCEPT ![t] = v]
  /\ UNCHANGED <<dataSize, tableVars, events, kernelVars, pc, fd, adding, ctx, asked,
                 viaIoctl, historyVars>>

-----------------------------------------------------------------------------
(* IOManager::addEvent, cancelAll and delivery *)

\* m_fdContexts[fd], for fd < size
Slot(d) == <<d, made[d]>>
EventsOf(c) == {e \in Events : <<c, e>> \in events}
Waiting(d) == IF d < size THEN EventsOf(Slot(d)) ELSE {}

\* The owner (or another fiber it told the descriptor) adds an event that the
\* context does not have: the code asserts that.  Then the lookup, read lock.
AddLookup(t, e) ==
  /\ pc[t] = "own" /\ e \notin Waiting(fd[t])
  /\ adding' = [adding EXCEPT ![t] = e]
  /\ IF size > fd[t]
       THEN ctx' = [ctx EXCEPT ![t] = Slot(fd[t])] /\ Goto(t, "add")
       ELSE Goto(t, "grow") /\ UNCHANGED ctx
  /\ UNCHANGED <<dataVars, tableVars, events, kernelVars, fd, wishVars, historyVars>>

\* contextResize(n), write lock: the vector is cut or extended, then every
\* empty slot gets a context.
AllocatedAll(n) == [d \in Fds |-> IF d < n THEN made[d] + 1 ELSE made[d]]
Allocated(n) == [d \in Fds |-> IF size <= d /\ d < n THEN made[d] + 1 ELSE made[d]]

\* Another thread may have grown it meanwhile for a larger descriptor: then
\* the vector is cut, and contexts with events or looked up already are lost.
InUse(c) == EventsOf(c) # {} \/ \E t \in Threads : ctx[t] = c
CutOff(n) ==
  {<<Slot(d), socket[d]>> : d \in {x \in Fds : n <= x /\ x < size /\ InUse(Slot(x))}}

Grow(t) ==
  /\ pc[t] = "grow"
  /\ size' = Grown(fd[t]) /\ made' = Allocated(Grown(fd[t]))
  /\ ctx' = [ctx EXCEPT ![t] = <<fd[t], made'[fd[t]]>>]
  /\ cut' = cut \cup CutOff(Grown(fd[t]))
  /\ Goto(t, "add")
  /\ UNCHANGED <<dataVars, events, kernelVars, fd, adding, wishVars, refused>>

\* EPOLL_CTL_ADD when the context has no event, EPOLL_CTL_MOD otherwise.
CtlOpAlwaysAdd(c) == "ADD"
CtlOp(c) == IF EventsOf(c) = {} THEN "ADD" ELSE "MOD"

\* The kernel refuses to add a descriptor twice or to modify a missing one.
CtlAccepts(d, op) == (op = "ADD") <=> (epoll[d] = None)

AddLocked(t) ==
  /\ pc[t] = "add"
  /\ IF CtlAccepts(fd[t], CtlOp(ctx[t]))
       THEN /\ epoll' = [epoll EXCEPT ![fd[t]] = ctx[t]]
            /\ events' = events \cup {<<ctx[t], adding[t]>>}
            /\ UNCHANGED refused
       ELSE refused' = refused \cup {socket[fd[t]]} /\ UNCHANGED <<epoll, events>>
  /\ adding' = [adding EXCEPT ![t] = None] /\ ctx' = [ctx EXCEPT ![t] = None]
  /\ Goto(t, "own")
  /\ UNCHANGED <<dataVars, tableVars, socket, nonblock, opened, fd, wishVars, cut>>

\* idle() handles a report through data.ptr, for one of the events or both.
Deliver(d, E) ==
  /\ epoll[d] # None /\ E # {} /\ E \subseteq EventsOf(epoll[d])
  /\ events' = events \ ({epoll[d]} \X E)
  /\ epoll' = [epoll EXCEPT ![d] = IF EventsOf(@) = E THEN None ELSE @]
  /\ UNCHANGED <<dataVars, tableVars, socket, nonblock, opened, pc, fd, adding, ctx,
                 wishVars, historyVars>>

-----------------------------------------------------------------------------
(* close(): the FdCtx is there (OwnCtx); cancelAll, by a lookup and then  *)
(* under fd_ctx->mutex; del; close_f.                                      *)

CloseLookup(t) ==
  /\ pc[t] = "own"
  /\ \/ size <= fd[t] /\ Goto(t, "del") /\ UNCHANGED ctx
     \/ size > fd[t] /\ Goto(t, "cancel") /\ ctx' = [ctx EXCEPT ![t] = Slot(fd[t])]
  /\ UNCHANGED <<dataVars, tableVars, events, kernelVars, fd, adding, wishVars,
                 historyVars>>

\* All events are triggered and the entry leaves epoll.
Cancelled(c) == {c} \X EventsOf(c)

CancelAllLocked(t) ==
  /\ pc[t] = "cancel" /\ Goto(t, "del")
  /\ events' = events \ Cancelled(ctx[t])
  /\ epoll' = IF Cancelled(ctx[t]) = {} THEN epoll ELSE [epoll EXCEPT ![fd[t]] = None]
  /\ ctx' = [ctx EXCEPT ![t] = None]
  /\ UNCHANGED <<dataVars, tableVars, socket, nonblock, opened, fd, adding, wishVars,
                 historyVars>>

DelForgotten(d) == UNCHANGED datas
DelSlot(d) == datas' = IF d < dataSize THEN [datas EXCEPT ![d] = None] ELSE datas

Del(t) ==
  /\ pc[t] = "del" /\ Goto(t, "close_f")
  /\ DelSlot(fd[t])
  /\ UNCHANGED <<dataSize, tableVars, events, kernelVars, fd, adding, ctx, wishVars,
                 historyVars>>

\* The kernel drops the descriptor, and its epoll entry with it.
CloseF(t) ==
  /\ pc[t] = "close_f" /\ Goto(t, "free")
  /\ socket' = [socket EXCEPT ![fd[t]] = None]
  /\ epoll' = [epoll EXCEPT ![fd[t]] = None]
  /\ fd' = [fd EXCEPT ![t] = None]
  /\ UNCHANGED <<dataVars, tableVars, events, nonblock, opened, adding, ctx, wishVars,
                 historyVars>>

-----------------------------------------------------------------------------
Next ==
  \/ \E t \in Threads :
       \/ SocketF(t) \/ GetLookup(t) \/ GetCreate(t)
       \/ Grow(t) \/ AddLocked(t)
       \/ CloseLookup(t) \/ CancelAllLocked(t) \/ Del(t) \/ CloseF(t)
       \/ \E nb \in BOOLEAN : Fcntl(t, nb) \/ Ioctl(t, nb)
       \/ \E v \in Timeouts : SetTimeout(t, v)
       \/ \E e \in Events : AddLookup(t, e)
  \/ \E d \in Fds, E \in SUBSET Events : Deliver(d, E)

Spec == Init /\ [][Next]_vars

-----------------------------------------------------------------------------
(* Properties *)

\* The two tables and the threads.  A stored FdCtx lies inside its vector,
\* and an fd_ctx in use was allocated: no index is past the end.
TypeOK ==
  /\ dataSize \in Nat /\ datas \in [Fds -> FdCtxs \cup {None}]
  /\ \A d \in Fds : datas[d] # None => d < dataSize
  /\ size \in Nat /\ made \in [Fds -> Nat]
  /\ events \subseteq Contexts \X Events /\ epoll \in [Fds -> Contexts \cup {None}]
  /\ socket \in [Fds -> (1 .. MaxSockets) \cup {None}]
  /\ nonblock \in [Fds -> BOOLEAN] /\ opened \in 0 .. MaxSockets
  /\ pc \in [Threads -> {"free", "get", "create", "own", "grow", "add", "cancel", "del",
                         "close_f"}]
  /\ fd \in [Threads -> Fds \cup {None}]
  /\ adding \in [Threads -> Events \cup {None}] /\ ctx \in [Threads -> Contexts \cup {None}]
  /\ \A t \in Threads : ctx[t] # None => ctx[t][2] \in 1 .. made[ctx[t][1]]
  /\ asked \in [Threads -> BOOLEAN] /\ timeout \in [Threads -> Timeouts]
  /\ viaIoctl \in [Threads -> BOOLEAN]
  /\ refused \subseteq 1 .. MaxSockets /\ cut \subseteq Contexts \X (1 .. MaxSockets)

\* The FdCtx a thread finds for its socket is the one made for that socket,
\* never that of an earlier socket with the same number, and it is not
\* deleted by the close() of another thread.
OwnCtx ==
  \A t \in Threads : pc[t] = "own" =>
    Get(fd[t]) # None /\ Get(fd[t]).of = socket[fd[t]]

\* fcntl(F_GETFL) and do_io see what the owner asked for, not what the
\* hooks made of it or what an earlier owner of the number set.
WishesKept ==
  \A t \in Threads : pc[t] = "own" =>
    UserView(fd[t]) = asked[t] /\ Get(fd[t]).m_recvTimeout = timeout[t]

\* A socket the manager takes for non-blocking is so in the kernel, and a
\* hooked call never blocks its thread, as long as ioctl is not used.
SysNonblockTrue ==
  \A t \in Threads :
    pc[t] = "own" /\ ~viaIoctl[t] /\ Get(fd[t]).m_sysNonblock => nonblock[fd[t]]

\* A socket has a descriptor record of its own, and its flags stay what its
\* owner and the hooks made them.
FlagsKept == OwnCtx /\ WishesKept /\ SysNonblockTrue

\* A context is the one the table gives for its descriptor, and the descriptor
\* is open.
FoundAgain(c) == c[1] < size /\ c = Slot(c[1]) /\ socket[c[1]] # None

\* The table of contexts and epoll lead to each other's registrations, whoever
\* reuses the number meanwhile: close() reaches every waiter and addEvent is
\* never refused.  Growth spoils this for the contexts it cuts off and for the
\* sockets open then, but never for a later socket of the same number.
ContextsFound ==
  /\ \A p \in events : FoundAgain(p[1]) \/ \E c \in cut : c[1] = p[1]
  /\ \A s \in refused : \E c \in cut : c[2] = s
=============================================================================
