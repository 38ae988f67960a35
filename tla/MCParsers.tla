----------------------------- MODULE MCParsers -----------------------------
(***************************************************************************)
(* The three generated parsers in one run: each is a run of its own        *)
(* automaton over every text, with the state named in the same variables.  *)
(***************************************************************************)
EXTENDS Ragel

U  == INSTANCE UriGrammar
Rq == INSTANCE RequestGrammar
Rs == INSTANCE ResponseGrammar
UriTable      == Table(U!Arcs)
RequestTable  == Table(Rq!Arcs)
ResponseTable == Table(Rs!Arcs)

VARIABLES which, cs, ptr, fields, past
vars == <<which, cs, ptr, fields, past>>

Uri      == INSTANCE UriParser WITH Switch <- UriTable
Request  == INSTANCE RequestParser WITH Switch <- RequestTable
Response == INSTANCE ResponseParser WITH Switch <- ResponseTable

Init ==
  \/ which = "uri" /\ Uri!Init
  \/ which = "request" /\ Request!Init
  \/ which = "response" /\ Response!Init
Next ==
  /\ UNCHANGED which
  /\ \/ which = "uri" /\ Uri!Next
     \/ which = "request" /\ Request!Next
     \/ which = "response" /\ Response!Next
Spec == Init /\ [][Next]_vars

(* TypeOK: every parser's pointers and fields have their types.            *)
TypeOK ==
  CASE which = "uri" -> Uri!TypeOK
    [] which = "request" -> Request!TypeOK
    [] OTHER -> Response!TypeOK

(* TokensExact: the fields that Uri::Create cuts out of a text, and what   *)
(* the two HTTP parsers hand to their callbacks when a message arrives in  *)
(* pieces; see UriParser, RequestParser and ResponseParser.                *)
TokensExact ==
  CASE which = "uri" -> Uri!UriFields
    [] which = "request" -> Request!RequestTokens
    [] OTHER -> Response!ResponseTokens

(* FinishSeen: the end of a response's head or chunk line is noticed; see  *)
(* ResponseParser.                                                         *)
FinishSeen == which = "response" => Response!FinishSeen
=============================================================================
