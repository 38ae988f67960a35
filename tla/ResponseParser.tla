--------------------------- MODULE ResponseParser --------------------------
(***************************************************************************)
(* HttpResponseParser over httpclient_parser_execute: the head of a        *)
(* response, and the line before each chunk of its body, in any pieces.    *)
(* Pointers are named as in RequestParser.  A call for a chunk starts the  *)
(* parser anew; a call for the head goes on where the last one stopped.    *)
(***************************************************************************)
EXTENDS ResponseGrammar

CONSTANT Switch \* the generated automaton: Table(Arcs) of ResponseGrammar

VARIABLES
  cs,     \* parser->cs
  ptr,    \* [mark, field_start, field_len, fresh]
  fields, \* [out, m_error, content_len, chunked, chunks_done, close, done, chunk]
  past    \* history: the tokens whose first character this call has read,
          \* and of a chunk's line: "nonzero" digits, "cut" by a read
vars == <<cs, ptr, fields, past>>

Tokens == {"version", "status", "reason", "name", "value", "size"}
Reset  == "buffer"

(* httpclient_parser_init, which leaves the data of the callbacks alone.   *)
Cleared == [content_len |-> "-1", chunked |-> FALSE, chunks_done |-> FALSE,
            close |-> FALSE]
Begin(fresh) == [mark |-> Reset, field_start |-> Reset, field_len |-> "0",
                 fresh |-> fresh]
Init ==
  /\ cs = {Start} /\ ptr = Begin(TRUE) /\ past = {}
  /\ fields = [parser |-> Cleared, out |-> {}, m_error |-> 0,
               done |-> FALSE, chunk |-> FALSE]

(* The token whose mark is set in front of the character.                  *)
Token0(c) ==
  CASE Start \in cs -> IF c = "H" THEN "version" ELSE "size"
    [] Status(9) \in cs -> "status"
    [] Status(11) \in cs -> "reason"
    [] OTHER -> "value"
Marks == {"mark", "start_value"}
Mark(do, c) == IF Marks \cap do = {} THEN ptr.mark ELSE Token0(c)
Empty(m) == m = Reset /\ ptr.fresh

Report(tok, from) == [tok |-> tok, from |-> from]
Plain == [http_version |-> "version", status_code |-> "status",
          reason_phrase |-> "reason"]
FieldLen(do, c) ==
  CASE "write_field" \notin do -> ptr.field_len
    [] Empty(ptr.field_start) -> "0"
    [] OTHER -> ptr.field_start
Reports(do, c) ==
  {Report(Plain[a], Mark(do, c)) : a \in do \cap DOMAIN Plain}
  \cup (IF "write_value" \notin do THEN {}
        ELSE IF FieldLen(do, c) = "0" THEN {Report("dropped", Reset)}
        ELSE {Report("name", ptr.field_start), Report("value", Mark(do, c))})

(* on_response_version: any digits match the grammar, 1.0 and 1.1 are      *)
(* taken, and so is what is left of a version that was cut at its end.     *)
\* Mutant: the request's error number for an unknown version.
ErrorsOfRequest(do, c) ==
  IF "http_version" \in do THEN {0, 1000} ELSE {fields.m_error}
Errors(do, c) ==
  CASE "http_version" \notin do -> {fields.m_error}
    [] Mark(do, c) = "version" -> {0, 1001}
    [] OTHER -> IF Empty(Mark(do, c)) THEN {0} ELSE {1001}

(* The parser's own fields.  A number cut inside is the rest of its digits *)
(* and one cut at its end is whatever strtol finds behind it.              *)
Number0(m) == IF Empty(m) THEN "other" ELSE m
\* Mutant: chunks_done is never set, as if the last chunk were like any other.
SizesNeverLast(m) == {<<IF Empty(m) THEN "other" ELSE m, FALSE>>}
Sizes(m) ==
  CASE Empty(m) -> {<<"other", FALSE>>, <<"0", TRUE>>}
    [] "nonzero here" \in past -> {<<m, FALSE>>}
    [] OTHER -> {<<"0", TRUE>>}
Parsed(do, c) ==
  LET p == fields.parser
      m == Mark(do, c) IN
  CASE "chunk_size" \in do ->
         {[p EXCEPT !.chunked = TRUE, !.content_len = z[1], !.chunks_done = z[2]]
            : z \in Sizes(m)}
    [] "write_content_len" \in do -> {[p EXCEPT !.content_len = Number0(m)]}
    [] "trans_chunked" \in do -> {[p EXCEPT !.chunked = TRUE]}
    [] "write_connection_close" \in do -> {[p EXCEPT !.close = TRUE]}
    [] OTHER -> {p}

Begun(c) ==
  {t \in Tokens :
     CASE t \in {"version", "size"} -> Start \in cs
       [] t = "status" -> Status(9) \in cs
       [] t = "reason" -> Status(11) \in cs
       [] t = "name"   -> {Line, Closing, Ext(0)} \cap cs # {} /\ c \in Token
       [] OTHER -> {Value0, Blank("content_length"), Blank("transfer_encoding"),
                    Ext(2)} \cap cs # {} \/ (Ext(1) \in cs /\ c # "=")}
Digits(c) ==
  IF {Start, Size} \cap cs # {} /\ c \in HexDigit \ {"0"}
  THEN {"nonzero", "nonzero here"} ELSE {}

(* One character of the call's buffer.                                     *)
Feed(c) ==
  LET do == Does(Switch, cs, c) IN
  /\ cs # {} /\ ~ fields.done
  /\ cs' = Goes(Switch, cs, c)
  /\ ptr' = [mark |-> Mark(do, c), fresh |-> FALSE,
             field_start |-> IF "start_field" \in do THEN "name"
                             ELSE ptr.field_start,
             field_len |-> FieldLen(do, c)]
  /\ \E e \in Errors(do, c), p \in Parsed(do, c) :
       fields' = [fields EXCEPT !.parser = p, !.m_error = e,
                                !.out = Reports(do, c), !.done = "done" \in do]
  /\ past' = (past \ (IF "name" \in Begun(c) THEN {"value", ":"} ELSE {}))
             \cup Begun(c) \cup Digits(c)
             \cup (IF "write_field" \in do THEN {":"} ELSE {})

is_finished == cs = {Final}
has_error   == fields.m_error # 0 \/ cs = {}

(* The buffer of the head is used up before the head's end, or before what *)
(* isFinished() takes for it: recvResponse calls execute() again.          *)
Resume ==
  /\ ~ fields.chunk /\ ~ has_error /\ ~ is_finished /\ ~ ptr.fresh
  /\ ptr' = Begin(TRUE) /\ past' = past \cap {"nonzero"}
  /\ fields' = [fields EXCEPT !.out = {}, !.done = FALSE] /\ UNCHANGED cs

(* execute(data, len, true): the next chunk's line, or the rest of this    *)
(* one, is read from the start state.  recvResponse asks for it when the   *)
(* head said "chunked", then until a size is 0 (-1 is fatal to append).    *)
NextChunk ==
  /\ ~ has_error /\ (fields.chunk \/ is_finished) /\ ~ ptr.fresh
  /\ is_finished =>
       IF fields.chunk
       THEN ~ fields.parser.chunks_done /\ fields.parser.content_len # "-1"
       ELSE fields.parser.chunked
  /\ cs' = {Start} /\ ptr' = Begin(TRUE)
  /\ fields' = [fields EXCEPT !.parser = Cleared, !.out = {},
                              !.done = FALSE, !.chunk = TRUE]
  /\ past' = IF is_finished THEN {} ELSE {"cut"} \cup (past \cap {"nonzero"})

Next == Resume \/ NextChunk \/ \E c \in Chars : Feed(c)
Spec == Init /\ [][Next]_vars
-----------------------------------------------------------------------------
(* Pointers and numbers are named; the errors are those of http_parser.h.  *)
TypeOK ==
  /\ ptr \in [mark: Tokens \cup {Reset}, field_start: {"name", Reset},
              field_len: {"0", "name", Reset}, fresh: BOOLEAN]
  /\ fields.parser \in
       [content_len: Tokens \cup {"-1", "0", "other", Reset}, chunked: BOOLEAN,
        chunks_done: BOOLEAN, close: BOOLEAN]
  /\ fields.m_error \in {0, 1001} /\ fields.done \in BOOLEAN
  /\ past \subseteq Tokens \cup {":", "nonzero", "nonzero here", "cut"}

(* ResponseTokens: a token of the head that a read cut in two is reported  *)
(* with its rest only; a header's value is never cut.                      *)
ResponseTokens ==
  \A o \in fields.out :
    IF o.tok = "dropped" THEN ~ {"name", ":"} \subseteq past
    ELSE /\ o.from = IF o.tok \in past THEN o.tok ELSE Reset
         /\ o.tok = "value" => "value" \in past

(* FinishSeen: isFinished() reports the end of a head, or of the line of a *)
(* chunk, exactly when the parser has met it, with one departure: when the *)
(* last header is a keyword's with an empty value, the blank line is also  *)
(* more blanks of that value, the final state is another, and the head's   *)
(* end is never reported.  A whole chunk's line ends the body iff its size *)
(* is zero.                                                                *)
FinishSeen ==
  /\ is_finished => fields.done
  /\ fields.done => is_finished \/ \E w \in DOMAIN Word : Blank(w) \in cs
  /\ is_finished /\ fields.chunk /\ "cut" \notin past
     /\ fields.parser.content_len \in {"0", "size"}
       => (fields.parser.chunks_done <=> "nonzero" \notin past)
=============================================================================
