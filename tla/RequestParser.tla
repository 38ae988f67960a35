--------------------------- MODULE RequestParser ---------------------------
(***************************************************************************)
(* HttpRequestParser over http_parser_execute: the head of a request that  *)
(* arrives in any pieces.  Every call starts with a new buffer, because    *)
(* execute() moves the bytes it has parsed out of the old one: a pointer   *)
(* is the name of the token it points at, or "buffer" once it was reset.   *)
(***************************************************************************)
EXTENDS RequestGrammar

CONSTANT Switch \* the generated automaton: Table(Arcs) of RequestGrammar

VARIABLES
  cs,     \* parser->cs
  ptr,    \* [mark, field_start, query_start, field_len, fresh, relaxed]
  fields, \* [out |-> what the last character reported, m_error, m_version]
  past    \* history: the tokens whose first character this call has read,
          \* ":" after a header's name, and "1.0" in a text of that version
vars == <<cs, ptr, fields, past>>

Tokens == {"message", "target", "hier", "query", "fragment", "version", "name",
           "value", "data"}
Reset  == "buffer"  \* the start of this call's buffer
Stale  == "stale"   \* an offset into an earlier buffer

(* cs >= http_parser_first_final; a line's CR and LF also start a name, so *)
(* the final state is not the place Final alone.                           *)
is_finished == {Final, Socket} \cap cs # {}
has_error   == cs = {} \/ fields.m_error # 0

(* http_parser_init leaves query_start and uri_relaxed as `new' left them. *)
Init ==
  /\ cs = {Start}
  /\ ptr \in [mark: {Reset}, field_start: {Reset}, query_start: {Stale},
              field_len: {"0"}, fresh: {TRUE}, relaxed: BOOLEAN]
  /\ fields = [out |-> {}, m_error |-> 0, m_version |-> "1.1"]
  /\ past = {}

(* With uri_relaxed set, the widened characters take the arcs of `more'    *)
(* besides their own.                                                      *)
Moves(c) ==
  Fired(Switch, cs, c)
  \cup IF ptr.relaxed /\ c \in Relaxed THEN Fired(Switch, cs, "more") ELSE {}
Do(c) == UNION {a.do : a \in Moves(c)}

(* The token whose mark is set in front of the character.                  *)
Token0 ==
  CASE Start \in cs -> "message"
    [] Target \in cs -> "target"
    [] Hier \in cs -> "hier"
    [] Frag0 \in cs -> "fragment"
    [] Version(0) \in cs -> "version"
    [] Json(0) \in cs -> "data"
    [] OTHER -> "value"
Mark(do) ==
  IF {"mark", "start_value"} \cap do = {} THEN ptr.mark ELSE Token0
QueryStart(do) == IF "start_query" \in do THEN "query" ELSE ptr.query_start

(* LEN(mark) is 0 when the token ends where it starts.                     *)
Empty(m) == m = Reset /\ ptr.fresh

(* The callbacks, and where the text each is given starts.                 *)
Report(tok, from, empty) == [tok |-> tok, from |-> from, empty |-> empty]
Plain == [request_method |-> "method", request_path |-> "path",
          fragment |-> "fragment", http_version |-> "version"]
Reports(do) ==
  {Report(Plain[a], Mark(do), Empty(Mark(do))) : a \in do \cap DOMAIN Plain}
  \cup (IF "query_string" \in do
        THEN {Report("query", QueryStart(do), FALSE)} ELSE {})
  \cup (IF "write_value" \notin do THEN {}
        ELSE IF ptr.field_len = "0" THEN {Report("dropped", Reset, TRUE)}
        ELSE {Report("name", ptr.field_start, FALSE),
              Report("value", Mark(do), FALSE)})

(* on_request_method and on_request_version refuse what they do not know.  *)
(* The method is looked up by its beginning, the version by strncmp over   *)
(* its length: nothing at all counts as HTTP/1.1.                          *)
Errors(do) ==
  CASE "request_method" \in do -> {0, 1000}
    [] "http_version" \in do /\ Mark(do) # "version" /\ ~ Empty(Mark(do)) -> {1001}
    [] OTHER -> {fields.m_error}

Version1(do) ==
  CASE "http_version" \notin do \/ 1001 \in Errors(do) -> fields.m_version
    [] Empty(Mark(do)) -> "1.1"
    [] OTHER -> IF "1.0" \in past THEN "1.0" ELSE "1.1"

(* The first characters of tokens, as a reader of the text sees them.      *)
Begun(c) ==
  {t \in Tokens :
     CASE t = "message" -> Start \in cs
       [] t = "target"  -> Target \in cs
       [] t = "hier"    -> Hier \in cs
       [] t = "query"   -> Query0 \in cs
       [] t = "fragment" -> Frag0 \in cs
       [] t = "version" -> Version(0) \in cs
       [] t = "name"    -> Line \in cs
       [] t = "value"   -> Value0 \in cs
       [] t = "data"    -> Json(0) \in cs
       [] OTHER         -> FALSE}

(* One character of the call's buffer.                                     *)
Feed(c) ==
  LET do == Do(c) IN
  /\ cs # {} /\ ~ is_finished
  /\ cs' = {a.to : a \in Moves(c)}
  /\ ptr' = [ptr EXCEPT
       !.mark = Mark(do), !.query_start = QueryStart(do), !.fresh = FALSE,
       !.field_start = IF "start_field" \in do THEN "name" ELSE @,
       !.field_len = IF "write_field" \notin do THEN @
                     ELSE IF Empty(ptr.field_start) THEN "0" ELSE "name"]
  /\ \E e \in Errors(do) :
       fields' = [out |-> Reports(do), m_error |-> e, m_version |-> Version1(do)]
  /\ past' = (past \ (IF Line \in cs THEN {"name", "value", ":"} ELSE {}))
             \cup Begun(c) \cup (IF "write_field" \in do THEN {":"} ELSE {})
             \cup (IF Version(7) \in cs /\ c = "0" THEN {"1.0"} ELSE {})

(* Mutant of Resume: the offsets survive although the bytes were moved.    *)
ResumeKeepsOffsets ==
  /\ ~ has_error /\ ~ is_finished /\ ~ ptr.fresh
  /\ ptr' = [ptr EXCEPT !.query_start = Stale, !.fresh = TRUE]
  /\ fields' = [fields EXCEPT !.out = {}]
  /\ past' = past \cap {"1.0"} /\ UNCHANGED cs

(* The buffer is used up: recvRequest reads on and calls execute() again,  *)
(* unless hasError() or isFinished().                                      *)
Resume ==
  /\ ~ has_error /\ ~ is_finished /\ ~ ptr.fresh
  /\ ptr' = [ptr EXCEPT !.mark = Reset, !.field_start = Reset,
                        !.field_len = "0", !.query_start = Stale, !.fresh = TRUE]
  /\ fields' = [fields EXCEPT !.out = {}]
  /\ past' = past \cap {"1.0"} /\ UNCHANGED cs

Next == Resume \/ \E c \in Chars : Feed(c)
Spec == Init /\ [][Next]_vars
-----------------------------------------------------------------------------
(* Pointers name tokens; the errors are those of http_parser.h.            *)
TypeOK ==
  /\ ptr.mark \in Tokens \cup {Reset} /\ ptr.query_start \in {"query", Stale}
  /\ ptr.field_start \in {"name", Reset} /\ ptr.field_len \in {"0", "name"}
  /\ fields.m_error \in {0, 1000, 1001} /\ fields.m_version \in {"1.0", "1.1"}
  /\ past \subseteq Tokens \cup {":", "1.0"}

(* Where a callback's text should start: at the first character of what is *)
(* reported if this call of execute() read it, else at the call's buffer   *)
(* (the query: at an offset into a buffer that is gone).                   *)
First(tok) ==
  LET t == IF tok \in {"method", "path"} THEN "message" ELSE tok IN
  CASE tok = "path" /\ "hier" \in past -> "hier"
    [] tok = "path" /\ "target" \in past -> "target"
    [] t \in past -> t
    [] OTHER -> IF tok = "query" THEN Stale ELSE Reset

(* RequestTokens: a request cut in two inside a token is reported with the *)
(* rest of that token, and only then; a header's value is never cut: the   *)
(* header is dropped instead, when a cut falls at or behind its name's     *)
(* end; the version is what the text says unless the cut is at its end.    *)
RequestTokens ==
  /\ \A o \in fields.out :
       IF o.tok = "dropped" THEN ~ {"name", ":"} \subseteq past
       ELSE o.from = First(o.tok) /\ (o.tok = "value" => "value" \in past)
  /\ \A o \in fields.out :
       o.tok = "version" /\ fields.m_error = 0 =>
         \/ o.empty
         \/ fields.m_version = IF "1.0" \in past THEN "1.0" ELSE "1.1"
=============================================================================
