# Verification of radixun

radixun is a C++ network library: coroutines ("fibers") scheduled on a pool of
threads, an epoll event loop and timers that wake them, system calls hooked so
that blocking code yields instead, and on top of that sockets, byte buffers,
TCP and HTTP servers, an HTTP client with a connection pool, configuration and
logging.  This directory holds TLA+ modules of its core, the TLC
configurations that check them on small instances, and TLAPS proofs for any
size of the instance.  The scheduler, timers, event loop, hooks, descriptors
and byte arrays come first; the HTTP automata, client, pool and servers, the
configuration and the loggers stand on them.

`PROJECT.json` lists the runs, the theorems, for each
definition the source lines it models, and for each property a mutation of
the code that it detects.

    tlc -workers 2 -config Scheduler.cfg MCScheduler.tla
    tlapm SchedulerProofs.tla

Paths below are relative to `src/radixun/` unless they begin with `docs/`.


## 1. Inventory

### The parts and how they interact

    TcpServer  HttpServer  HttpSession  HttpConnectionPool     net/, http/
         \         |           |           /
          Socket   Stream   ByteArray                          net/, common/
               \     |
             hook.cpp  (read, write, accept, connect, close, sleep, fcntl ...)
              /      |          \
      FdManager   IOManager    TimerManager                    common/
                     | is a       | IOManager is also a TimerManager
                 Scheduler -------+
                     |
                   Fiber  (ucontext)      Thread, Mutex
     used by all:  Config, Log, util

A hooked call tries the system call, and on EAGAIN stores a timeout timer
(TimerManager), registers the running fiber for an event of the descriptor
(IOManager::addEvent) and yields.  A worker thread with nothing to run
executes IOManager::idle: it waits in epoll for the first timer's deadline or
for an event, then puts the expired callbacks and the waiting fibers on the
list of the Scheduler, from which any worker resumes them.  The state all
threads share is the list and its counters, the set of timers, the table of
descriptor contexts, the table of FdCtx, and each fiber's state word, which
no lock protects.

### Component by component

| component (files) | state | operations | what makes it correct | hard to test |
|---|---|---|---|---|
| Scheduler (`common/scheduler`) | task list, active and idle counts, stopping flags, thread pool, root fiber | schedule, start, stop, run, idle, tickle | a task is run by one thread at a time and not lost; counters exact; stop() drains and returns | unlocked reads of fiber states, a task between two lists, tasks pinned to a thread, the caller's own thread as worker |
| Fiber (`common/fiber`) | m_state, saved context, callback | swapIn, swapOut, YieldToReady, YieldToHold, reset, MainFunc | only a saved context is resumed; assertions on m_state | wake-up between the HOLD mark and the switch; endings by exception |
| Thread (`common/thread`) | pthread handle, semaphore | constructor, run, join | joined once, started before the constructor returns | - |
| Timer, TimerManager (`common/timer`) | ordered set of timers, m_tickled, per timer start, period and callback | addTimer, addConditionTimer, cancel, refresh, reset, getNextTimer, listExpiredCb | never early, one-shots once, no thread sleeps past a deadline it could know | clock read outside the lock, a front insertion that wakes nobody |
| IOManager (`common/iomanager`) | registered events and waiting tasks per descriptor, pending count, wake-up pipe | addEvent, delEvent, cancelEvent, cancelAll, idle, stopping, tickle | one wake-up per wait, exact counter, complete stop | epoll's report is handled after other threads changed the registrations |
| hook (`common/hook`) | tinfo->cancelled per call, timer of the wait | do_io family, connect_with_timeout, accept, close, sleep, fcntl, ioctl, setsockopt | timed calls return; ETIMEDOUT only for one's own timer; nobody waits on a closed descriptor | readiness, timeout and close in any order |
| FdManager, FdCtx (`common/fd_manager`) | table of FdCtx by descriptor, flags and timeouts | get, del, setters | the entry belongs to the socket that now has the number | reuse of numbers, growth of the tables |
| ByteArray (`common/bytearray`) | linked nodes, position, size, capacity | write/read of ints, varints, strings; setPosition, addCapacity, getReadBuffers, files | what was written is read; no access outside a node | growth and positions at node boundaries |
| Stream, SocketStream (`common/stream`, `net/socket_stream`) | - | readFixSize, writeFixSize | all bytes or an error | -1 kept in an unsigned length |
| Socket, Address (`net/`; not modelled) | handle, connected flag, addresses | connect, accept, send, recv, close, resolver calls, masks | flag follows the handle | - |
| TcpServer (`net/tcp_server`) | listening sockets, m_isStop | bind, start, startAccept, stop | one accept loop per socket; after stop() every loop ends | stop()'s task against a parking accept, start() right after stop(), a failed bind() |
| HttpServer, HttpSession (`http/`) | connection buffer, parser, the request's close flag | handleClient, recvRequest, sendResponse | one response per request, in order, to the request the client sent | what a read leaves in the buffer between two requests, timeouts inside a body |
| HttpConnection, HttpConnectionPool (`http/http_connection`) | list of idle connections, m_total, requests per connection | recvResponse, doRequest, getConnection, ReleasePtr | a connection has one user; an answer belongs to its request; bodies are whole | where a read ends, concurrent get and release, expiry, closed peers |
| Uri, HttpRequestParser, HttpResponseParser and their automata (`http/*.rl`, `http/*.rl.cc`, `http/uri`, `http/http_parser`) | automaton state, marks into the text, error | Uri::Create, execute, isFinished, hasError | a callback gets the text of its token; the end is noticed | a token cut by the end of a read; one mark for several parts of a URI |
| Servlets, HTTP messages (`http/servlet`, `http/http`; not modelled) | tables of servlets, header maps | getMatchedServlet, dump | exact before glob before default | - |
| Config (`common/config`) | table of variables, value and listeners of each | Lookup, setValue, addListener, LoadFromYaml | a listener has the variable's value | notification and assignment under different locks; a listener that throws or sets |
| Log (`common/log`) | loggers, appenders, level | log, addAppender, getLogger, reload listener | loggers as the last file says; a message reaches its appenders | reload while logging; entries that a reload keeps |
| Mutexes, util, MySQL client, tests | - | - | - | thin wrappers, system calls |

`PROJECT.json` lists under "hazards" each of these difficulties at its line,
with the properties aimed at it or the reason none exists.


## 2. Plan

The order follows what the rest relies on: first the scheduler, then what
wakes its fibers, then who uses them.

| step | modules | state |
|---|---|---|
| 1 | `Scheduler` (with Fiber), `MCScheduler`, `SchedulerProofs` | done |
| 2 | `TimerManager`, `MCTimerManager`, `TimerManagerProofs` | done |
| 3 | `IOManager`, `MCIOManager` (over the list and the timers, coarsely), `IOManagerProofs` | done |
| 4 | `Hook`, `MCHook`, `HookProofs`, `Descriptors` (FdManager and the context table), `DescriptorsProofs` | done |
| 5 | `ByteFile`, `ByteArray`, `MCByteArray`, `ByteArrayProofs`: nodes, position, growth, codecs against reference definitions, SocketStream's calls; the abstract file of bytes implemented by the node list | done |
| 6 | `Ragel`, `IPLiteral`, `UriGrammar`, `RequestGrammar`, `ResponseGrammar`: the automata; `UriParser`, `RequestParser`, `ResponseParser`, `MCParsers`: what the C++ side does on them | done |
| 7 | `Stream`, `HttpConnection`, `HttpConnectionPool`, `HttpServer`, `Http` (which joins them), `HttpProofs` | done |
| 8 | `TcpServer`, `Config`, `Log`, `Services` (which composes the modules of 7 and 8), `MCServices`, `ServicesProofs` | done |

Abstract specifications worth stating: a file of bytes for ByteArray
(`ByteFile`, done), a timer service for TimerManager (each callback at most
once, not early), a task pool for Scheduler.

Every safety property that a passing run checks is a theorem, except those of the
parsers, whose run explores the whole automaton (section 6).

One run asks the safety and liveness questions of a component; where a
constructor argument matters (numbers of threads, use_caller, node size) Init
chooses it, so that one run covers the choices.  The three parsers share a run,
and so do the client, the pool, the servers, the configuration and the loggers:
there Init chooses whose behaviour it is (`which`), and the rest stands still.


## 3. Modules

Each module keeps the names of the code.  A section under a lock is one
action, because every module takes the mutual exclusion of `common/mutex.h`
for granted; every access to shared state outside a lock, every system call
and every switch of fibers is an action of its own.  A definition whose name
ends in Forgotten, Unchecked, Early and the like is a variant of the
definition that follows it with one mistake in it.  It is not part of the
specification and only serves to show that the properties notice the mistake.

### Scheduler (`common/scheduler.{h,cpp}`, `common/fiber.cpp`)

A worker is a thread in `Scheduler::run`; `pc[t]` is its place in the loop or
in the fiber it has switched to, `ft[t]` the FiberAndThread it took.

| code | actions |
|---|---|
| run(): scan under m_mutex, 136-157 | `Fetch`, of `Take` and `TakeNothing` |
| the tests before swapIn, 162 and 172; the fiber finished meanwhile, 191-195 | `Test`, `Skip` |
| swapIn: assertion, write of EXEC, switch | `NotRunning`, `Mark`, `SwapIn` |
| body: schedule, hook-like parking, end | `Spawn`, `Arm`, `Finish` |
| YieldToReady, YieldToHold: assertion, write | `YieldToReady`, `YieldToHold`, `SetReady`, `SetHold` |
| swapOut and the store of the context | `SwapOut` |
| `--m_activeThreadCount`, 165 and 181 | `CountDown` |
| the reads of m_state at 166 and 168 (182, 185) and the write at 169 (188) | `AskReady`, `Requeue`, `AskOver`, `Hold` |
| reset(nullptr) of a callback's fiber | `ResetCheck`, `Recycle` |
| the idle fiber | `IdleEnter`, `IdleRound`, `IdleLeave`, `Exit` |
| start(); schedule() by the owner | `Start`, `MainSchedule` |
| stop(): flags, call of the root fiber, return, join | `Stop`, `StopCallRoot`, `RootReturned`, `Join` |
| whoever wakes a parked fiber (timer, event) | `Wake` |

`m_state` and `saved` are kept apart: the code sets the state before `swapcontext`
stores the context, and this gap is what the properties about several workers are
about.  No lock protects `m_state`: each read and each write of it outside m_mutex
is an action, so another worker may change it between the assertion and the write
of swapIn, between those of the yields, and between the two reads and the write
behind swapIn.  Only where two reads decide what one of them decides alone (162
and 172, or the two operands of a comparison with TERM and EXCEPT) are they one
action. `overwritten` is a history variable: the tasks whose READY a `Hold` has
replaced.  A failed RADIXUN_ASSERT, and a switch to a context that was not saved,
set `fault`, after which nothing moves.

The base class is modelled, whose tickle() does nothing; the batch form of
schedule() is a sequence of single ones.  Fiber names, ids, stacks and
`SetThis` bookkeeping are left out.

### TimerManager (`common/timer.{h,cpp}`)

`m_timers` is a set ordered by `m_next`; the clock `now` advances in `Tick`.
`Construct` reads the clock before the lock is taken, `AddTimer` inserts under the
lock, `Notify` and `Write` are `onTimerInsertedAtFront` after it, which is
IOManager's tickle(): it returns while any thread is idle, and writes a byte to
the pipe otherwise.  `Cancel`, `Refresh`, `Reset` may be called on a timer once
addTimer has returned it.  A waiter is a worker thread: `EnterIdle` and
`LeaveIdle` count it in and out of m_idleThreadCount; between them `GetNextTimer`
computes its epoll timeout, never more than `MaxTimeout` (MAX_TIMEOUT, 3 seconds
in idle()), `WakeUp` ends the wait and reads the clock for listExpiredCb,
`ListExpiredCb` collects under the write lock.  `taken` counts how often a
callback was collected; `readAt` and `late` are history: when a waiting thread
read the first deadline, and what addTimer has stored since. `MCTimerManager` adds
the symmetry of the waiters. The weak pointer of a condition timer belongs to its
callback and is modelled in `Hook`.

### IOManager (`common/iomanager.{h,cpp}`)

`events` and `context` are the FdContexts, `queue` the scheduler's list,
`timers`/`due` the timers.  `AddEventAndPark`, `AddEventCb`, `DelEvent`,
`CancelEvent`, `CancelAll` are the operations a task calls; `Trigger` is
triggerEvent with its count.  idle() is spelled out: the three separate reads of
stopping(timeout) (`NoTimer`, `StoppingRead`), `EpollWait`, `ListExpired`, the
batch `ScheduleExpired`, one `HandleEvent` per reported event, `HandleTickle`,
`LeaveIdle`.  A thread that has seen stopping() has ended its idle fiber
(`idleTerm`); it takes tasks as before, but at the next empty list it leaves
(`Exit`) and does not ask stopping() again.  `stranded` is a history variable: the
tasks last parked by such a thread.  `signal` are edges the kernel has not
reported, `report` what epoll_wait returned to a thread and that thread has not
handled: registrations change in between.  A report may name READ, WRITE, both or
a hang-up.  Scheduling is coarse here (a yield is atomic) since module Scheduler
covers it.

### Hook (`common/hook.cpp`)

One descriptor and the fibers that call on it.  do_io is
`Begin`, `Fun` (the system call), `AddConditionTimer`, `AddEvent` with the yield,
`Resume`, `Woken` (which cancels the timer), `Check` (the test of
tinfo->cancelled and the retry); connect differs in `ConnectFun` and
`GetSockError`.  A timer's expiry (`Expire`), its callback's test of the weak
pointer (`RunCallback`) and its cancelEvent (`CallbackCancels`) are separate,
so a callback may run late, in another call.  close() is `CloseCancelAll`,
`CloseDel`, `CloseFd`.  `workers` bounds how many fibers and callbacks are
between two steps at a time: with one worker a fiber runs from switch to
switch undisturbed.  The peer sends a bounded number of units (`Peer`),
connections succeed or fail (`Answer`), `Report` is idle() delivering an event.
Timers and registrations are reduced to whether they exist.

### Descriptors (`common/fd_manager.cpp`, parts of `hook.cpp`, `iomanager.cpp`)

The two tables indexed by descriptor number, while threads open, use and close
sockets and the kernel hands a number out again as soon as it is closed.
`SocketF`, `GetLookup`, `GetCreate` are the hooked socket() and FdManager::get(fd,
true) with its lock gap; `Fcntl`, `Ioctl`, `SetTimeout` the flags; `AddLookup`,
`Grow`, `AddLocked` the three locked sections of addEvent; `CloseLookup`,
`CancelAllLocked`, `Del`, `CloseF` the hooked close(); `epoll` is the kernel's
entry with the FdContext it points to.  `Grow` sets the size of m_fdContexts to
1.5 times its own descriptor whatever it has become since `AddLookup`: a vector
that another thread has grown further is cut.  A context is named by its slot and
the number of contexts made for that slot, so one that was cut off differs from
the one that replaces it.  `cut` (which contexts in use were cut off, and the
socket that was open on the descriptor) and `refused` (sockets for which an
addEvent returned -1) are history variables.

### ByteArray, ByteFile (`common/bytearray.{h,cpp}`, `net/socket_stream.cpp`)

`ByteFile` is what a ByteArray promises: a content and a position, where bytes
are written, read, moved over or cleared.  `ByteArray` has the members of the
class as one record `b`, so that a method is an operator from record to record
and a call that makes several (a length and a string, pieces of a file) is
their composition.  A copying loop is described by the cells it visits: `Cell` is
the node and offset of the k-th byte from a position on.  `m_cur` is the number
of a node, or `Null` (0); a method that would follow it when it is null
ends the process, which is `fault`.  `Junk` is a byte of `new char[]` that was
never written.  `io` holds the bytes the last call moved, in either direction:

| code | actions |
|---|---|
| writeFint8 ... writeDouble, writeStringWithoutLength | `Write` |
| writeStringF16 ... writeStringVint | `WriteString` |
| writeInt32, writeUint32, writeInt64, writeUint64 | `WriteInt` |
| readFint8 ... readDouble; readStringF16 ... | `Read`; `ReadString` |
| readInt32 ... readUint64, throwing on missing bytes | `ReadInt` |
| setPosition, clear, readFromFile | `SetPosition`, `Clear`, `ReadFromFile` |
| SocketStream::read and write of a ByteArray | `StreamRead`, `StreamWrite` |
| toString, getReadBuffers, writeToFile, which change nothing | operators that `ViewsAgree`, a part of `ReadsExact`, compares |

The refinement mapping of `IsFile` takes the first m_size bytes of the nodes
as content, m_position and io.  The zigzag and varint codecs are functions on
integers of `Width` bits in groups of `Group`, compared with each other in
`CodecExact`, the other part of `ReadsExact`.  The byte order
flag is left out: a fixed-size number is the
bytes it has in the array.

### Ragel, IPLiteral and the three grammars (`http/*.rl`, `http/*.rl.cc`)

The generated parsers are deterministic automata, one `case` per state with a
switch over characters; their 20 961 lines are most of the repository.  A
grammar module gives the same automaton as a set of arcs between *places* of the
grammar, each with the characters it moves on and the actions it runs.  A state
of the generated code is the set of places the text so far may be in:
`Goes` and `Does` of module `Ragel` are its transition and the actions it
executes, and `Table` is the switch, computed once.  The arcs are those of the
generated code, which in places is not what its grammar seems to say
(section 7).  A rule that the grammar uses twice has two copies of its places
("abs" and "rel" in URIs, "http" and "json" in requests), because the actions
of each differ.  Characters are the classes the grammar tells apart, each named
by a member.  `IPLiteral` is the bracketed host that URIs and requests share.

### UriParser, RequestParser, ResponseParser (`http/uri.cpp`, `http/http_parser.cpp`, actions of `http/*.rl.cc`)

One character is one step, `Feed`.  A pointer into the text is the name of the
token at whose first character it was set, so "the callback gets the right
text" is a statement about names.  `past` is a history variable: what a reader of
the text sees.  `UriParser` has one mark for all parts of a URI, set when a part
may begin.  The HTTP parsers may run out of bytes at any character: execute() has
then moved what it parsed out of the buffer, and `Resume` starts the next call
with the marks at the new buffer's start (`Reset`) or at an offset into the
old one (`Stale`); `NextChunk` is execute(..., true), which starts the response
parser again for the line of a chunk.  uri_relaxed and query_start are used
before they are set: Init takes both values of the first, and the second is stale.

### Stream, HttpConnection, HttpServer (`common/stream.cpp`, `http/http_connection.cpp`, `http/http_session.cpp`, `http/http_server.cpp`)

A message is a sequence of symbols: a head is two (where a read may fall into its
length header), a chunk's size has a symbol per digit, then CR, LF and each
byte.  Every read takes any number of symbols that are there and fit, so each way
the network can cut a message is a behaviour; reads time out, and the peer
closes anywhere.  `Stream` is readFixSize with its unsigned length: `Missed` is
what read()'s -1 does to offset and left.

| code | actions |
|---|---|
| recvResponse: head | `HttpConnection!ReadHead` |
| the line of a chunk and what is buffered of it; `len -= 2` | `ReadLine` with `ChunkBuffered`, `ChunkCut`, `Behind` |
| the rest of a chunk | `ReadRaw` |
| body of a declared length; its timeout | `ReadFix`, `MissFix` |
| close() and return nullptr | `Fail` |
| recvRequest: head, body | `HttpServer!ReadHead` with `Headed`, `ReadFix`, `MissFix`, `Fail` |
| handleClient: response and servlet; sendResponse and the loop | `Handle`, `Respond` |
| the other end | `PeerCloses`, `ClientCloses` |

### HttpConnectionPool (`http/http_connection.{h,cpp}`)

Several threads in doRequest.  The list is changed under m_mutex
(`GetConnection`, `Release`); the connections it drops are deleted and
subtracted from m_total later (`Drop`, `Uncount`), a new one is connected and then
added to it (`Connect`, `Count`).  The receiver is what `HttpConnection` shows it to be:
it returns a response, with or without its body, fails and closes, or never
returns.  The peer answers in order and keeps connections or closes behind each
answer (`keeps`), as this repository's HttpServer does.  A response names the
request it answers, which is what `PoolExact` compares.

### TcpServer (`net/tcp_server.{h,cpp}`)

One thread calls `Bind`, `Start` and `Stop` in any order and number (`MaxStarts`
bounds the starts and the stops whose task has not run), stop() before start() or
twice included; each socket's accept loop is a fiber (`Test` of m_isStop,
`Accept`, `Park` in addEvent); stop() leaves a task (`StopTask`) that cancels the
events of each socket and closes it: `StopCancel`, then the two steps of the
hooked close(), `CloseCancel` and `CloseFd`.  A client may `Connect` at any time.
`loop` holds the sockets the fibers' closures hold: a socket that nobody holds any
more is closed.

### Config, Log (`common/config.h`, `common/log.cpp`)

`Config` is one ConfigVar and the threads that use it.  setValue is `Compare`
and one `Notify` per listener under the read lock, `Unlock`, and `Assign`
under the write lock; `stack` holds the calls under way, since a listener may
call setValue itself.  Three kinds of listener stand for what users write: one
that keeps a copy, one that corrects a bad value, one that throws on it.
Following a variable is `GetValue`, then `AddListener`.

`Log` is the listener of the variable "logs", one call on a logger per step
(`Load`, `Apply`, `RemoveLevel`, `RemoveAppenders`, `Assign`), because other
threads log between them; `Sinks` is where Logger::log sends a message then.

### MCParsers, Http, Services, MCServices

`MCParsers` and `Services` compose the modules above, with one another's variables
renamed where two have the same name, and choose in Init which of them runs
(`which`).  A property of theirs is the conjunction of the modules' properties of that
kind, each for its own behaviours.  `Http` extends the pool's module and instantiates
the receiver and the session, with constants for the data of each; `Services` extends
`Http` and instantiates the server, the configuration and the loggers.  So the
composite has parameters only, and its properties are proved as they are checked:
`MCServices` adds nothing but the values that `Services.cfg` gives them.


## 4. Runs

| run | asks | bounds |
|---|---|---|
| `scheduler` | type invariant; counters exact; no task twice; none lost but in one way; no assertion with one worker; stop() drains and returns | see below |
| `scheduler_yield_race` | does the assertion of the Yield functions hold with two workers? It does not | one task that parks, two yields |
| `timer` | a callback exactly as long as it may run, start in the past, no wait past a deadline but for a timer stored during it, never early | two timers, two threads, periods 0 and 2, MAX_TIMEOUT 1, clock to 1 |
| `iomanager` | counter and contexts exact, one waker, no assertion but in one way, nobody left behind but in one way, stop() returns, queued and due work is run | two threads, two tasks, a reader and a writer of one descriptor, reports of either event and of both, each task run twice |
| `iomanager_hangup` | does triggerEvent's assertion hold when a hang-up is reported? It does not | one thread, a reader and a writer of one descriptor |
| `hook` | registration, parked fiber and timer paired; honest time-outs and connects; timed and served calls return | pools of one and two threads, two calls of a reader, one connect, one unit per direction, one spurious report |
| `hook_close_window` | can a fiber wait on a closed descriptor? It can | two threads, a reader and a writer |
| `descriptors` | entries belong to the socket, flags kept, contexts found again unless a resize cut them off, addEvent refused only for sockets open then | two threads, descriptors 2 and 3, both tables of 2 slots at first, three sockets |
| `bytearray` | cursor exact, no crash but the known ones, all ways of reading agree, integers survive their encoding, the array is a file of bytes | nodes of 1, 2 and 3 bytes, 4 bytes written, strings of 0 to 2 bytes, a file of 3, 5-bit integers in 2-bit groups |
| `bytearray_growth` | does addCapacity make room? It does not | nodes of 3 bytes |
| `parsers` | URI fields and HTTP tokens start where they should, whatever the text and however it is cut; the end of a head or chunk line is seen | none: all texts over the character classes, all cuts |
| `services` | bodies and answers are those sent; a pooled connection has one user and an answer its request; one accept loop per socket, which ends after stop(); listeners and loggers have the configured values; all calls return but the named ones | below |

Why these bounds are enough to meet the interesting cases:

* scheduler: Init chooses between one worker, two workers, and two workers of
  which one is the caller's thread.  Task a is a callback pinned to t1 that spawns
  c while it runs; b parks, may be woken before or after it has switched out, and
  may end by an unknown exception with its wake-up still registered, which leaves
  a finished fiber on the list.  `MaxYields` is a number per task: a yields once,
  and b twice, so that it can park and, resumed by the other worker meanwhile,
  yield READY: that is the case in which a task is lost (section 7).  Two workers
  are the fewest that can hold the same fiber.
* timer: period 0 makes timers due at once and in the same instant, 2 is beyond
  `MaxTimeout` 1, so a wait can end before the first deadline; `MaxTime` 1 makes
  one step of the clock between any two other steps, two timers give a new first
  deadline, two threads give a wait whose sleeper is not the one that clears
  m_tickled, and a tickle that is dropped because the other is idle.  Only one
  timer may recur (`MayRecur`), which halves the states, as does the symmetry of
  the threads; a one-shot beside it is still there.  `IntMax` is INT_MAX itself:
  periods beyond it are excluded, see section 7.
* iomanager: a reader and a writer of one descriptor and two threads give a report
  of one event or of both that is handled by one thread while the other cancels,
  deletes or registers again; a task run twice (`MaxRuns`) registers again after
  its first wait, and can be the last task of a thread whose idle fiber has ended.
  `Signals` leaves hang-ups to `iomanager_hangup` and to the theorems.
* hook: the second call of the reader meets callbacks and registrations left
  by the first; the single unit makes the second call wait; one spurious report
  (`MaxSpurious`) makes a call retry and wait twice.
* descriptors: 2 and 3 are both beyond the first two slots of both tables, and the
  smallest numbers for which 1.5 times the number makes room.  Two threads can
  therefore both be about to grow a table, for different descriptors and in either
  order, and the table grown for 3 is cut by the one that grows it for 2.  Three
  sockets (`MaxSockets`) reuse a number while the other is open.

* bytearray: with 4 bytes (`MaxSize`) an array of 1-byte nodes has four nodes,
  one of 2-byte nodes two, and one of 3-byte nodes has a second that is not full;
  positions fall on every edge, and every call happens before, at and across
  one.  5 bits in groups of 2 leave a shorter last group, as 32 and 64 bits in
  groups of 7 do, and all 32 integers are tried.
* parsers: the automata are finite and what is remembered of a text is a set of
  facts, so there is nothing to bound.
* services, connection: bodies of no and three bytes with a declared length,
  one chunk, and two chunks whose sizes have one and two digits; with a buffer of
  eight symbols a read may end at, before and behind every boundary of a chunk,
  and hold parts of two.  One timeout inside a body (`MaxTimeouts`) is enough for
  the loop to leave its course.
* services, pool: two threads with two requests each meet a connection that the
  other has just released; `m_maxRequest` 2 makes a connection reused once and
  then dropped; the peer keeps connections or not, closes or breaks them at any
  time.  m_maxSize, which nothing reads, is less than the number of threads.
* services, session: conversations of three requests and of two, with and
  without bodies, a buffer of five symbols that holds two small requests or
  a part of one.
* services, server: two sockets, two starts, so that a loop of the first
  start can meet one of the second; one client.
* services, config and log: two threads and four calls reach two sets that
  overlap, a set beside a registration and a set of a set; three reloads of two
  loggers reach a kept, a changed, a new and a removed entry, in either order.

`CHECK_DEADLOCK FALSE` stands where the program may really come to rest:
the scheduler and the IOManager after stop(), the hook model when all calls
are made, the descriptors when the last socket is closed, the byte array when
its process has crashed, the parsers when the text has ended, the services when
the bounded requests, calls and reloads are done.

### What the violations show

* `scheduler_yield_race`.  YieldToHold marks the running fiber HOLD
  (`common/fiber.cpp:161-168`), then swapOut stores its context.  Once its
  wake-up is registered, another worker may resume the fiber, which then runs
  as EXEC; the first worker, back from swapIn, writes HOLD over it
  (`common/scheduler.cpp:169`), and the fiber's next yield fails the assertion
  `cur->m_state == EXEC`.  `OneWorkerNoFault` of
  the passing run shows that one worker is free of it.
* `iomanager_hangup`.  EPOLLHUP turns into EPOLLIN and EPOLLOUT without being
  masked by what is registered (`common/iomanager.cpp:316-318`); idle() then
  triggers an event nobody registered and `RADIXUN_ASSERT(events & event)`
  fails.  It needs no second thread.
* `hook_close_window`.  Between cancelAll and close_f a woken or new reader
  passes the isClose() test, because nothing ever sets m_isClosed, and
  registers again; closing the descriptor then removes the epoll entry
  without waking the fiber.
* `bytearray_growth`.  addCapacity adds the node for the remainder only if the
  remainder exceeds the old free capacity (`common/bytearray.cpp:337`), where
  any remainder needs one.  A write of 4 bytes to an empty array of 3-byte nodes
  gets none and follows the null m_cur.  `KnownCrashes`, a part of `CursorExact` in the
  passing run, shows that nodes of one byte, which the tests use, always get enough.


## 5. Fairness

Safety is checked without relying on fairness.  The liveness properties use
`FairSpec`:

* Threads are scheduled by the kernel: weak fairness of each worker's steps.
  A body ends after its bounded yields; this is an assumption on the user's
  code, without which no scheduler makes progress.
* Scheduler: the owner goes through with start() and stop() once begun
  (`WF(Start)`, `WF(StopStep)`), and a registered wake-up arrives.  It says
  nothing of the order in which threads win the list's mutex.
* TimerManager: none; its run checks safety.  That a due timer is collected although
  nobody is woken for it is part of `QueuedRuns` of the IOManager.
* IOManager: timers come due and the kernel signals a descriptor with a
  registered event.  Without this stop() waits for ever, by design: a pending
  event keeps it alive.  epoll_wait always returns sooner or later, by MAX_TIMEOUT.
* Hook: workers run what is scheduled, collect expired timers and handle
  reported events; nothing is assumed of the peer, so `TimedCallReturns` rests on
  the timer alone.  It is conditional on a pool of one thread, see section 7.
* Parsers: none; their properties are invariants.
* Services: a read returns, with data, the end of the stream or its timeout
  (the hooked read of module `Hook` has one); threads in doRequest and setValue
  run on; the accept worker runs its tasks and its fibers; a reload runs on.
  Nothing is assumed of peers and clients, nor that anybody calls stop().

`AllReturn` of the services names the calls that do not return: a read that timed out
inside a body of declared length; a send on a broken connection, which
writeFixSize repeats; an accept loop that began to wait again inside close() or whose
socket a failed bind() has dropped, and any loop after a start() that came too
early; a set by a listener of the same variable, with everybody behind its
lock; a reload that dereferences null.

The liveness properties of the scheduler and the IOManager end with "or a fault": the
process has been aborted then, and the safety properties say when that cannot happen.
`QueuedRuns` excepts a timer stored by a thread whose idle fiber had ended (section 7).


## 6. Proofs

The theorems hold for any finite set of threads, tasks, timers and waiters
and any constructor arguments that satisfy the assumptions of the modules
(finite and non-empty thread sets, distinct names, each constructor's threads
among them and not none, the root thread among its pool).  TLC evaluates the
assumptions on each instance; `ServicesAssumption` is the conjunction of those of the
six modules that `Services` composes.  Where a theorem has a hypothesis of
its own it is named below, with what in the code justifies it.

| module | theorems: property | hypothesis |
|---|---|---|
| `SchedulerProofs` | `TypeCorrect`: `TypeOK`; `CountersCorrect`: `CountersExact`; `RunByOneThread`: `NoDuplicate`; `NothingLeftBehind`: `StopDrains`; `LostOneWay`: `NeverLost` | - |
| | `OneWorkerSafe`: `OneWorkerNoFault` | `Tidy` |
| `TimerManagerProofs` | `TypeCorrect`: `TypeOK`; `CallbacksCorrect`: `CallbacksExact`; `StartsInPast`: `StartInPast`; `FirstDeadlineCovered`: `FrontCovered`; `NeverEarly`: `NoEarlyFire` | - |
| `IOManagerProofs` | `TypeCorrect`: `TypeOK`; `RegistrationsCorrect`: `RegistrationsExact`; `WakersCorrect`: `OneWaker`; `StopCorrect`: `StopComplete` | `SharedNothing` |
| `HookProofs` | `TypeCorrect`: `TypeOK`; `WaitsCorrect`: `WaitsExact`; `ResultsCorrect`: `ResultsHonest` | - |
| `DescriptorsProofs` | `TypeCorrect`: `TypeOK`; `FlagsCorrect`: `FlagsKept`; `ContextsCorrect`: `ContextsFound` | - |
| `HttpProofs` | `TypeCorrect`: `TypeOK` of the pool; `PoolCorrect`: `PoolExact`; `ConnectionCorrect`: `BodyExact` with `TypeOK`; `SessionCorrect`: `AnswersExact` with `TypeOK` | the assumptions of the module concerned |
| `ServicesProofs` | `AllTypesCorrect`: `AllTypeOK`; `MessagesCorrect`: `MessagesExact`; `PoolsCorrect`: `PoolExact`; `AcceptCorrect`: `AcceptExact`; `ConfigCorrect`: `ConfigExact` | - |
| `ByteArrayProofs` | `TypeCorrect`: `TypeOK`; `CursorCorrect`: `CursorExact`; `ReadsCorrect`: `ReadsExact`; `Refines`: `IsFile` | - |

In every module the properties follow from one inductive invariant, `IInv`
(`ConnectionInv`, `PoolInv`, `SessionInv`, `ServerInv`, `ConfigInv` and `LogInv`
where a module treats several parts), whose parts are named; there is a lemma for
each part or group of parts that says the steps keep it, with a step of the proof
per action.

### SchedulerProofs

`NoDuplicate`, `StopDrains`, `NeverLost` and `OneWorkerNoFault` are not inductive.
The invariant `IInv` has these parts:

* `TypeOK`, and `Phases`: how far start() and stop() have come and which threads
  can therefore be unborn, in run() or gone; in particular the caller's thread
  is in run() only while stop() has called it, and nobody leaves before stop().
* `CountersExact`: each step moves one thread across the places that count,
  so the counters change by the difference of two cardinalities (the lemmas on
  counting threads state this once).
* `InOnePlace(w)` for each task that does not park: it is unborn, or once on
  the list, or in one thread's hands, or ended, and its state agrees with the
  place.  `NoDuplicate` follows.
* `Pins`: an entry is for any thread or for the one its task was scheduled for,
  and once a thread may leave none of the owner's tasks is pinned any more: a
  thread sees stopping() true only over an empty list, and a rescheduled fiber
  is for any thread.
* `Attended`: while a task of `StopDrains` is on the list, some thread will scan
  the list again, or stop() has yet to run the caller's thread.  A thread that
  has seen stopping() takes one more look before it leaves; what it finds then
  it takes, because by `Pins` it may.  This is the step that fails for a task
  that another task pins to a thread, see section 7.
* `Tracked(w)` for every task: one that is not over is on the list, in a thread's
  hands, has its wake-up registered, or is `overwritten`.  Stale wake-ups make
  this hard: a task may be held by several threads, of which only one executes it,
  and each reads and writes its state at times of its own.  `Resumable` and
  `ParksSafely`, its parts, say that a thread that is about to mark the task HOLD
  leaves somebody else with it who can resume it: the one whose READY it replaces,
  or else a thread that has not read the state yet, a wake-up or an entry of the
  list.

`StopDrains` follows from `Phases` (after stop() every worker is gone),
`Attended` (so the list holds nothing) and `InOnePlace` (so each task has
ended); `NeverLost` from `Tracked`.

`OneWorkerNoFault` has an invariant of its own on top, `OneWorkerInv`: with one
worker no fiber is between two threads, and at each of the worker's places it is
known which of "running", "its context saved", "finished" a task is.  It
needs `Tidy`: no body lets a std::exception out (`common/fiber.cpp:178`, see section 7)
and no plain callback ends with its wake-up registered.  TLC shows that neither
can be left out: an instance with such a body or callback reaches a fault.
The tasks of the `scheduler` run are tidy.

### TimerManagerProofs

`FrontCovered` is inductive.  Between getNextTimer and the end of a wait, what a
step can do to a stored timer is postpone it (refresh, a recurrence, with
`StartInPast`), store it again (reset, an insertion, then it is `late`) or take it
away: `StaysInTime` is the step all cases share.  No notification is needed, and
none reaches a sleeping thread anyway. `NoEarlyFire` needs that the instant a
waiter read is not later than the clock, since the lock is taken after the read.

### IOManagerProofs

The invariant has the types; `Pending`, the counter as the number of registered
events; `PlacesExact`, that list, workers and tasks agree; `EventWakes`,
`TimerWakes`, `ParkedKnown`, that a parked task has one of an event, a timer and
an expired callback in some thread's batch, and nobody else any; `CountsExact`,
the active and idle counts; `IdleEnds`, that idle fibers end after stop() only and
a thread leaves only when its own has; and `Attended`: for each of the three
things stopping() reads one after the other, some worker whose idle fiber has not
ended is at a place from which it will look again - unless a thread whose idle
fiber has ended put the thing there (`stranded`). `StopComplete` follows from the
last: when all workers have gone the list is empty, and a timer or an event that
is left belongs to a stranded task.

`SharedNothing` says that no two tasks wait for one event of one descriptor, which
addEvent asserts and its callers have to see to (`common/iomanager.cpp:102-106`).
It is the only hypothesis; reports name any events and hang-ups.
`RegistrationsCorrect` says that addEvent's assertions never fail then, and
triggerEvent's only for a report one of whose two events is registered when it is
handled: `StepExplained` is the step in which that happens.  Nothing is said of
the state after a failed assertion, since the process has ended.

### HookProofs

`WaitsExact` is nearly inductive.  `ResultsHonest` needs `CallbacksPast`: a timer
callback under way belongs to the fiber's present call, whose timer has then
expired, or to one that is over, so that a late callback cannot cancel in the name of
a call that did not time out; and `ConnectsOnce` and `ConnectAnswered`, since only one
of all calls of connect waits and it goes on for one of two reasons.

### DescriptorsProofs

A number belongs to one thread between open and close (`OneOwner`).  What is
stored under it is that thread's: the FdCtx with the flags it set (`CtxsExact`),
the FdContext it looked up, wherever in addEvent, growth or close the other
threads are (`LookedUp`), and the kernel's entry (`EventsOwned`, `EpollExact`).
The invariant is told apart by what a resize has done: a context is `Live`, the
one the table gives for its slot, or it `WasCut`; a socket is `Spoilt` if it was
open when its context was cut off.  `TablesGrow` is the arithmetic of 1.5 times a
descriptor, and that a context cut off is never found again.  For a socket that is
not spoilt the kernel's entry exists exactly while events are registered
(`EntryExact`), so addEvent's choice of ADD or MOD is right (`RefusedSpoilt`), and
a later socket of the same number begins unspoilt because close_f drops the entry.
There is no hypothesis on the descriptors or on who grows a table.

### HttpProofs

*The pool.*  A connection is listed once or in one thread's hands (`Distinct`,
`Located`). That an answer is the one to its request needs to know all that is
under way on a connection: nothing on a listed one (`Clean`), and on a held one,
place by place of doRequest, the request of its thread or the answer to it
(`Served`). m_total is late by the threads between getConnection and its update
(`Counted`). That there are never more connections than threads is `Bounded`: a
thread connects only when it has found the list empty.  `ClockAssumption` says
that m_maxAliveTime's 32 bits of milliseconds are less than the time since 1970,
which is what makes the comparison with the unset m_createTime never true.

*The receiver.*  `BodyExact` compares the body with the peer's only when recvResponse
has returned.  The invariant `ConnectionInv` says what is true on the way there:

* `Heading`: in the head nothing else was read, and a length may have been lost.
* `Declared`, with `Fixed`: of a body of declared length the first bytes are those
  sent, and what is left to read is what is left on the wire plus one for each
  timeout.  With a timeout behind it the loop therefore never reaches "ok".
* `Chunked`: as long as each read ended behind a chunk's CRLF the receiver is
  `Aligned`: the body is that of the chunks read so far and the buffer is the wire
  behind the last of them.  After any other read (`reads = -1`) it is `Doomed`.

`Doomed` is the hard part: that no sequence of later reads repairs a wrong split,
so that "the body is the peer's iff the reads ended where they should" holds in
both directions.  It is a disjunction of the ways to be lost, each of which leads
to itself or another: bytes of a line in the body (`Polluted`), a line that does
not begin with a digit (`Stuck`), one that begins with the second digit of a size
(`Late`), a chunk that runs into its CRLF or stops in front of one (`Cut`), the
end (`Wrong`).

*The session.*  `SessionInv` places what handleClient has in hand on the wire: a head
whose end was not read yet (`Halved`), a request begun (`Begun`), its body as
far as it is there (`Filling`) and whole (`Complete`); between two requests, if nothing
went past the end of one, the place is the end of the last one answered (`Between`).

Both rest on facts about sequences, folds and recursive functions: the wire is a
fold of the pieces of a message, and its position after i pieces is a sum.  They are
shown by induction over Nat stated as membership in a set, and a recursive
definition is first shown to have a value (`Recursion`).  `ConnectionAssumption` allows
chunks of one to three bytes, for which `Size` writes the sizes, in any number and
order; `SessionAssumption` that a head can be told from what else is sent.

### ServicesProofs

*The server.*  The listed sockets are all open until stop()'s task takes them over, and
from then on closed from the front (`SocketsTaken`); a server that was not started too
early has no such task while it runs (`ServerRunning`), so a loop that passes the test
of m_isStop has an open socket, and each socket has a single loop (`SocketsSingle`).
`ServerClients` bounds the clients waiting and handled, a sum over the sockets.

*The configuration.*  `Following` says what a listener has while somebody sets the
variable: those that were told the new value have it, those that are still to be
told have the old one, unless a check threw behind them.  It needs that nobody else sets
or registers meanwhile without an overlap being noted (`Alone`), that a call
inside another is the only one there and sets the good value (`Stacked`), and that a
listener being added is not called yet (`Registering`).

*The loggers.*  Between reloads the loggers are as in the variable, which differs
from the last file only where operator== does not look (`LogIdle`).  During one,
those the listener has been through are as in the new file, those in front of it
as before, and the one it is at is on its way, an appender at a time
(`LogApplying`, `LogPartly`); then those that are gone lose their level and their
appenders (`LogRemoving`).

*The composite.*  `AllInv` is the conjunction of the six invariants, also those of
the parts that do not run: they keep theirs because their variables do not change.
So each step of `NextAll` is a step of one module, and its lemma is all that is
needed. The theorems have no hypothesis beyond `ServicesAssumption`.

### ByteArrayProofs

The invariant says that the array is `Good`: its members have their types, and
position, size, capacity and node pointer are in order (`InOrder`); and that the
process has ended in the known ways only (`KnownCrashes`).  The bytes themselves are
`Byte(a, p)`, the cell that quotient and remainder of p by the node size name.
`PositionCell` says that the copying loops, which count within a node, name the same
cell.  With it each method has a lemma that gives its effect on a Good array: the
bytes of a string written at the position (`Wrote`), the position moved
(`Moved`), an empty array, or the end of the process.  Every call has one of
five such effects; each keeps the invariant (`EffectKeeps`) and is, for the first
m_size bytes, a step of `ByteFile` or none (`EffectMaps`).

Reading and writing files and numbers is recursive: a fold, and recursive
functions whose value is a CHOOSE until it is shown that a function with that
equation exists. `Recursion` shows it once for every definition that asks for
values of smaller measure only.  Induction is by the least number of a set, so
that no lemma takes a predicate as a parameter.  The codec then holds for every
`Width` and `Group`: `Zigzag` undoes itself; what writeUint writes `Encodes` the
number, in at most as many bytes as readUint looks at; and the decoder's fold over
exactly these bytes, whatever follows them, is the number.

The two ways in which a null node is followed are in the model and in the theorem:
`CursorCorrect` excludes every other one.

### What is model-checked only

Liveness (`StopReturns`, `QueuedRuns`, `TimedCallReturns`,
`ServedCallReturns`, `AllReturn`) and everything that needs ENABLED, deadlock among
them, is outside the proof system's reach and rests on TLC.

So do the invariants of the parsers (`TypeOK`, `TokensExact`, `FinishSeen`).  Their
modules have no parameters: an automaton is a fixed set of arcs, and the run explores
all of its states with every text over the classes of characters that the arcs tell
apart.  A proof would go through the same arcs once more and say nothing about a
larger instance, for there is none.

The runs that expect a violation show one behaviour each, which needs no proof.


## 7. Where the code departs from what one would expect

These were met while modelling and shape the properties.

* A task that another task schedules for one thread can be left on the list
  by stop().  Its parent, having yielded, is on no list between
  `--m_activeThreadCount` and `schedule()` (`common/scheduler.cpp:165-167`);
  stopping() is true for a moment, and the pinned thread may leave.  The other
  workers then pass the task over (line 140) while it keeps the list from being
  empty for them or they have left too.  `docs/协程调度.md:49` says the pool
  stops once all tasks are done.  `StopDrains` excepts these tasks.
* With two or more threads a time-out timer can expire between
  addConditionTimer and addEvent (`common/hook.cpp:118-128`): its cancelEvent
  finds nothing and the call then waits without a time-out.
  `TimedCallReturns` is therefore stated for a pool of one.
* run() reads m_state at lines 166 and 168 and writes it at 169 of
  `common/scheduler.cpp` without a lock.  The trace of `scheduler_yield_race` has
  a second ending: the fiber yields READY at the second worker, and then the first
  writes HOLD over it.  The second worker, back from swapIn, reads HOLD at line
  166 and does not schedule the fiber; the first has nothing to do with it any
  more.  It is on no list, in no thread's hands and nobody is to wake it: nothing
  fails, and the pool goes idle with a task that is not done. TLC finds this trace
  in the instance of `SchedulerYield.cfg` when asked for `\A w \in Works :
  ~Lost(w)`.  `NeverLost` says that it is the only way to lose a task, and that a
  task that does not park is never lost.
* A thread whose idle fiber has ended takes tasks as before, but leaves at the
  next empty list without asking stopping() again
  (`common/scheduler.cpp:198-201`).  t1 has seen no timer, no event and an empty
  list while an expired callback was in t2's hands (`ListExpired`); t2 schedules
  it, and t1 takes it.  While it runs, t2 reads that there are no timers and no
  events; then the task stores a timer or registers an event and parks, and t2
  finds the list empty and nobody active.  Both leave, and the task stays parked
  for ever. TLC finds the trace when asked for no parked task in `StopComplete`,
  which excepts the tasks last parked by such a thread (`stranded`) and no others.
* addEvent reads the size of m_fdContexts under a read lock and resizes to 1.5
  times its own descriptor under a later write lock
  (`common/iomanager.cpp:89-98`).  Two threads that grow it for different
  descriptors can shrink it, leaving the larger one outside.  With tables of two
  slots: the one for 3 makes four slots and registers its event; the one for 2,
  which has read the size before, resizes to three, and the context of 3 is gone
  from the table.  close() does not find its waiters any more, and the next
  addEvent for 3 makes another context, which epoll refuses to ADD.
  `ContextsFound` says that only contexts so cut off are not found, that only
  sockets open then are refused, and that a later socket of the same number is not
  concerned; without the exception TLC finds the trace. For descriptors below 2
  the size would not grow at all; the assumption that both tables have two slots
  at first excludes them.
* tickle() writes to the pipe when no thread is idle and returns when one is
  (`common/iomanager.cpp:255`), the reverse of what `docs/协程调度.md:349` says.
  onTimerInsertedAtFront is nothing but tickle(), so a timer stored in front of
  the others wakes nobody while a thread sleeps in epoll for a later deadline,
  where line 358 of the document says that an idle thread is woken.  Idle threads
  notice work and new first deadlines by their own timeout only, at most
  MAX_TIMEOUT or 3 seconds later: `FrontCovered` says that no wait is longer, and
  `QueuedRuns` holds thanks to it.  The mutants without the bound fail.
* idle() tests `(int)next_timeout` against MAX_TIMEOUT
  (`common/iomanager.cpp:289`): a first deadline more than INT_MAX milliseconds
  away is negative then and epoll waits for ever.  `TimerAssumption` keeps periods
  within INT_MAX.
* idle() handles a report of both events, or a hang-up, although only one is
  registered by then: a hang-up counts as both events (`iomanager_hangup`), and a
  report of both is dropped only when neither is left
  (`common/iomanager.cpp:326`), so a cancel or delete of one of them by another
  thread in between makes triggerEvent's assertion fail without any hang-up.
  `FaultExplained`, a part of `RegistrationsExact`, says that no assertion fails
  otherwise.
* ioctl(FIONBIO) hands the user's value to the kernel unchanged
  (`common/hook.cpp:452`), where fcntl keeps O_NONBLOCK on; `FlagsKept`
  excepts sockets on which ioctl was used.
* close() on a thread without hooks leaves the FdCtx in the table
  (`common/hook.cpp:336`).  The model's threads all use hooks.
* A callback that ends by a std::exception leaves its fiber EXEC
  (`common/fiber.cpp:178`); run() then treats it as parked for ever.  `Finish` has
  this ending; the instance's `Outcomes` leave it out.
* read() of no bytes looks at the current node all the same
  (`common/bytearray.cpp:195-197`): an empty string that was written last, with
  the capacity exactly used up, cannot be read back.  `KnownCrashes`, in `CursorExact`,
  excepts it (`empty read`).
* writeToFile subtracts the offset in the first node after it has limited the
  length to what is left (`common/bytearray.cpp:299-300`): a short rest that
  starts inside a node is cut.  `ViewsAgree`, in `ReadsExact`, excepts it.
* read(buf, size, position) takes the offset of its position but starts in the
  node of m_position (`common/bytearray.cpp:229-231`).  Only toString uses it,
  with m_position.
* readFixSize keeps read()'s -1 in a size_t (`common/stream.cpp:8-12`): the loop
  goes on, wanting one byte more and one place earlier.  It then never
  returns, or returns a body that is shifted.  writeFixSize repeats a failing
  write for ever.

HTTP messages and URIs:

* The request parser's callbacks get offsets into the buffer of the current
  execute() call.  A token cut by the end of a read is reported with its
  rest only, and a header cut at or behind its name's end is dropped: a request
  in two packets may lose its Content-Length.  `RequestTokens` and
  `ResponseTokens` say exactly when.  A version cut off at its end is empty and
  taken for 1.1.
* The end of a response's head is not reported when its last header is a keyword
  (Content-Length, Transfer-Encoding, Connection) with an empty value.
* Uri::Create has one mark: a userinfo whose first ":" is followed by a digit
  loses what stood before the digit, and an absolute URI with ":" and no port
  makes it throw std::logic_error.  A path is kept only when the URI has
  both a scheme and an authority.
* The grammars use "-" between strings for a range, which is a difference, and
  digits in front of a parenthesis for a repetition, which is a byte:
  `("1"-"9")` is "1", `0 - 31` excludes NUL alone, `6( h16 ":" )` is the byte 6
  and one group.  So inside a bracketed host octets such as 23, and IPv6
  addresses with all groups written out, are refused.
* recvResponse takes two bytes off what it has buffered behind a chunk's line
  (`len -= 2`), for the CRLF behind the chunk: right only if each read ends
  exactly there.  Otherwise the body is wrong, the parser fails, or
  std::length_error leaves recvResponse (`BodyExact`).
* What a read takes of the next request is thrown away with the buffer of
  recvRequest; `AnswersExact` says what a client that sends requests one behind
  the other can rely on.
* HttpRequest::m_close is TRUE from the constructor and nothing looks at the
  request's Connection header, so every response says "close", and so the server
  does unless a servlet calls setClose(false).  A pooled connection that is used
  again always fails with TIMEOUT against such a server.
* The pool never reads m_maxSize; m_createTime is never set, and 32 bits of a
  maximum age are never more than the milliseconds since 1970: no connection is
  dropped for its age.

Servers, configuration, loggers:

* start() right after stop() may give a socket two accept loops, which addEvent's
  assertion forbids, or a loop that spins on a closed socket.  A bind() that
  fails empties m_socks: the next stop() does not close the sockets of loops that
  run.
* A check that throws leaves the listeners before it with the refused value, and
  fromString drops the exception.  A listener that sets the variable it listens to
  waits for the read lock its own caller holds, unless it sets the present value.
* LogDefine::operator== compares `appenders == appenders`: a file that
  changes appenders alone is ignored.  A reload that keeps an entry and changes
  another dereferences a null pointer at the entry it keeps.  Removed loggers log
  everything, to root.  delAppender's `MutexType::Lock lock(Mutex)` declares a
  function and locks nothing.


## 8. Not modelled

What is left out, besides what section 3 names at each module:

* Servlets and HTTP messages: which servlet a path selects, header maps, status
  and method tables, formatting.  Data without protocol; the one flag that the
  loops look at, close, is in `HttpServer`.
* What callbacks of the parsers do with a token beyond the version and the
  response's own fields: which method names the table of recvRequest knows, how
  header lines become a map.
* Socket: wrappers of hooked calls with an is-connected flag.  Address: pure
  functions on sockaddr and the resolver.  The MySQL client, util, fsutil:
  wrappers of libraries and system calls.
* Config's table of names (Lookup, which replaces an entry of another type, and
  LoadFromYaml), YAML conversions, and the listeners' key counter, which all
  variables of a type share under different locks; two equal keys would need two
  registrations in the same instant.
* Log's formatters and appenders' output; a record is what reaches an appender.
* TcpServer's destructor, which cannot run while a loop or a task holds the server.
* Mutexes, semaphores: mutual exclusion is assumed.  The start-up semaphore and
  name of Thread.
* Memory: allocation failure, the life of shared_ptr objects beyond sockets and
  connections, stacks, and the C++ memory model.  Accesses to m_state and to
  atomics are sequentially consistent here.
* 64-bit overflow of times and counters, which no run of the program reaches.
