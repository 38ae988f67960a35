------------------------------ MODULE Services ------------------------------
(***************************************************************************)
(* The two sides of HTTP (module Http), the TCP server, the configuration  *)
(* and the loggers in one specification: `which' says whose behaviour it   *)
(* is.                                                                     *)
(***************************************************************************)
EXTENDS Http

CONSTANTS
  Socks, MaxStarts, MaxClients,                              \* TcpServer
  Callers, Values, Bad, Good, Listeners, Clamps, Checks, MaxCalls, \* Config
  Names, Levels, Appenders, MaxLoads                         \* Log

VARIABLES
  which,
  m_isStop, m_socks, sock, loop, tasks, closing, waiting, handled, starts, fault,
  history,
  m_val, m_cbs, stack, adding, copy, calls, mishaps,
  g_log_defines, m_loggers, file, todo, at, state, loads, before, ignored
server  == <<m_isStop, m_socks, sock, loop, tasks, closing, waiting, handled, starts,
             fault, history>>
config  == <<m_val, m_cbs, stack, adding, copy, calls, mishaps>>
log     == <<g_log_defines, m_loggers, file, todo, at, state, loads, before, ignored>>
all     == <<which, connection, vars, session, server, config, log>>

Server  == INSTANCE TcpServer
Config  == INSTANCE Config
Log     == INSTANCE Log

ASSUME ServicesAssumption ==
  /\ PoolAssumption /\ ClockAssumption
  /\ Connection!ConnectionAssumption /\ Session!SessionAssumption
  /\ Server!ServerAssumption /\ Config!ConfigAssumption /\ Log!LogAssumption

(* The others stay in an initial state, always the same.                   *)
InitAll ==
  /\ which \in {"connection", "pool", "session", "server", "config", "log"}
  /\ Connection!Init /\ (which # "connection" => rsp = Connection!OnWire(CHOOSE r \in Responses : TRUE))
  /\ Init            /\ (which # "pool" => keeps)
  /\ Session!Init    /\ (which # "session" => requests = (CHOOSE q \in Conversations : TRUE) /\ m_isKeepalive)
  /\ Server!Init /\ Config!Init /\ Log!Init
Only(who) ==
  /\ UNCHANGED which
  /\ who # "connection" => UNCHANGED connection
  /\ who # "pool" => UNCHANGED vars
  /\ who # "session" => UNCHANGED session
  /\ who # "server" => UNCHANGED server
  /\ who # "config" => UNCHANGED config
  /\ who # "log" => UNCHANGED log
NextAll ==
  \/ which = "connection" /\ Connection!Next /\ Only(which)
  \/ which = "pool" /\ Next /\ Only(which)
  \/ which = "session" /\ Session!Next /\ Only(which)
  \/ which = "server" /\ Server!Next /\ Only(which)
  \/ which = "config" /\ Config!Next /\ Only(which)
  \/ which = "log" /\ Log!Next /\ Only(which)

(* The fairness of each module, for the one that runs.                     *)
AllFair ==
  /\ WF_connection(which = "connection" /\ Connection!Receive)
  /\ \A t \in Threads : WF_vars(which = "pool" /\ Step(t))
  /\ WF_session(which = "session" /\ Session!Serve)
  /\ WF_server(which = "server" /\ Server!Task)
  /\ \A l \in Server!Loops : WF_server(which = "server" /\ Server!Run(l))
  /\ \A t \in Callers : WF_config(which = "config" /\ Config!Run(t))
  /\ WF_log(which = "log" /\ Log!Reload)
SpecAll == InitAll /\ [][NextAll]_all /\ AllFair

(* AllTypeOK: the variables of every module have their types.              *)
AllTypeOK ==
  CASE which = "connection" -> Connection!TypeOK
    [] which = "pool" -> TypeOK
    [] which = "session" -> Session!TypeOK
    [] which = "server" -> Server!TypeOK
    [] which = "config" -> Config!TypeOK
    [] OTHER -> Log!TypeOK

(* MessagesExact: what recvResponse gives its caller and what handleClient *)
(* gives a servlet and answers is what was sent, or fails as it can; see   *)
(* HttpConnection and HttpServer.                                          *)
MessagesExact ==
  /\ which = "connection" => Connection!BodyExact
  /\ which = "session" => Session!AnswersExact

(* AcceptExact: each socket has its accept loop, from start() to stop();   *)
(* see TcpServer.                                                          *)
AcceptExact == which = "server" => Server!AcceptExact

(* ConfigExact: a variable's listeners have its value, and the loggers are *)
(* as the last file says; see Config and Log.                              *)
ConfigExact ==
  /\ which = "config" => Config!FollowersExact
  /\ which = "log" => Log!LoggersExact

(* AllReturn: receiving, requesting, serving, accepting after stop(),      *)
(* setting and reloading end, but for the cases that each module names.    *)
AllReturn ==
  /\ which = "connection" => Connection!Returns
  /\ Returns
  /\ which = "session" => Session!Returns
  /\ Server!Returns /\ Config!Returns /\ Log!Returns
=============================================================================
