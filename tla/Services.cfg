SPECIFICATION SpecAll
\* The pool: m_maxSize is less than the number of threads, a connection is
\* used twice, and the clock has moved on since 1970.
CONSTANTS
  Threads = {t1, t2}
  MaxRequests = 2
  m_maxSize = 1
  m_maxRequest = 2
  m_maxAliveTime = 1
  CurrentMS = 2
\* The client's and the server's end of HTTP.
  Responses <- SomeResponses
  c_buff_size = 8
  Symbols <- SomeSymbols
  Conversations <- SomeConversations
  s_buff_size = 5
  MaxTimeouts = 1
\* The server.
  Socks = {"s1", "s2"}
  MaxStarts = 2
  MaxClients = 1
\* A plain listener, one that corrects, one that refuses.
  Callers = {t1, t2}
  Values = {1, 2, 3}
  Bad = {3}
  Good = 1
  Listeners = {"plain", "clamp", "check"}
  Clamps = {"clamp"}
  Checks = {"check"}
  MaxCalls = 4
\* The loggers.
  Names <- SomeNames
  Levels = {4}
  Appenders <- SomeAppenders
  MaxLoads = 3
\* The bounded requests, calls and reloads end.
CHECK_DEADLOCK FALSE
INVARIANTS AllTypeOK MessagesExact PoolExact AcceptExact ConfigExact
PROPERTIES AllReturn
