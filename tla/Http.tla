-------------------------------- MODULE Http --------------------------------
(***************************************************************************)
(* The two sides of HTTP: the client's receiver beside the pool of its     *)
(* connections, and the server's session, each with a buffer of its own.   *)
(* The pool's module is extended, the others are instantiated.             *)
(***************************************************************************)
EXTENDS HttpConnectionPool

CONSTANTS
  Responses, c_buff_size,              \* HttpConnection
  Symbols, Conversations, s_buff_size, \* HttpServer
  MaxTimeouts                          \* both

VARIABLES
  rsp, c_pos, c_sent, c_peer, c_pc, buf, got, result, c_misses, reads,
  requests, m_isKeepalive, pos, sent, client, s_pc, half, req, isClose, answers,
  misses, clean
connection == <<rsp, c_pos, c_sent, c_peer, c_pc, buf, got, result, c_misses, reads>>
session == <<requests, m_isKeepalive, pos, sent, client, s_pc, half, req, isClose,
             answers, misses, clean>>

Connection == INSTANCE HttpConnection WITH
  buff_size <- c_buff_size, pos <- c_pos, sent <- c_sent, peer <- c_peer, pc <- c_pc,
  misses <- c_misses
Session == INSTANCE HttpServer WITH buff_size <- s_buff_size, pc <- s_pc
=============================================================================
