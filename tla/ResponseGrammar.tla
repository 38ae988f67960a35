-------------------------- MODULE ResponseGrammar --------------------------
(***************************************************************************)
(* The grammar httpclient_parser.rl.cc was generated from: the head of a   *)
(* response, or the line before a chunk.  The headers Connection,          *)
(* Content-Length and Transfer-Encoding are read letter by letter beside   *)
(* the general "name: value", so a place of each may be current at once.   *)
(***************************************************************************)
EXTENDS Ragel, Sequences

(* Letters stand for either case where only keywords tell them apart; "H", *)
(* "T" and "P" are the capitals of "HTTP/".                                *)
Letters == {"a", "b", "c", "d", "e", "f", "g", "h", "i", "k", "l", "n", "o",
            "r", "s", "t", "u", "H", "T", "P"}
HexDigit == {"0", "a", "b", "c", "d", "e", "f"}
Token    == Letters \cup {"0", "-", ".", "!"}
Space    == {"SP", "HT", "CR", "LF"}
Chars    == Token \cup Space \cup {"/", ":", ";", "=", "<"}

Upper(l) == CASE l = "h" -> {"h", "H"} [] l = "t" -> {"t", "T"} [] OTHER -> {l}
Word == [connection |-> <<"c", "o", "n", "n", "e", "c", "t", "i", "o", "n">>,
         content_length |-> <<"c", "o", "n", "t", "e", "n", "t", "-",
                              "l", "e", "n", "g", "t", "h">>,
         transfer_encoding |-> <<"t", "r", "a", "n", "s", "f", "e", "r", "-",
                                 "e", "n", "c", "o", "d", "i", "n", "g">>,
         close |-> <<"c", "l", "o", "s", "e">>,
         chunked |-> <<"c", "h", "u", "n", "k", "e", "d">>]

Start      == At("start", "")
Final      == At("final", "")
Crlf       == At("crlf", "")
Line       == At("line", "")
Name       == At("name", "")
Value0     == At("value0", "")
Value      == At("value", "")
ValueCR    == At("valueCR", "")
Letter(w, i) == Place("letter", w, i, 0)
Blank(w)   == At("blank", w)
WordCR(w)  == At("wordCR", w)
Closing    == At("closing", "")
Number     == At("number", "")
Size       == At("size", "")
Ext(i)     == Place("extension", "", i, 0)
Status(i)  == Place("status", "", i, 0)

(* The end of the head: CR LF or LF; done() remembers where the body starts. *)
Blankline(from, do) ==
  {Arc(from, {"CR"}, Crlf, do), Arc(from, {"LF"}, Final, do \cup {"done"})}
FinalArcs == {Arc(Crlf, {"LF"}, Final, {"done"})}

(* The line before a chunk: its size and its extensions. *)
ChunkArcs ==
  {Arc(Start, HexDigit, Size, {"mark"}), Arc(Size, HexDigit, Size, {}),
   Arc(Size, {";"}, Ext(0), {"chunk_size"})}
  \cup Blankline(Size, {"chunk_size"})
ExtensionArcs ==
  LET bare == {"write_field", "start_value", "write_value"} IN
  {Arc(Ext(0), Token, Ext(1), {"start_field"}), Arc(Ext(1), Token, Ext(1), {}),
   Arc(Ext(1), {";"}, Ext(0), bare),
   Arc(Ext(1), {"="}, Ext(2), {"write_field", "start_value"}),
   Arc(Ext(2), Token, Ext(3), {"start_value"}), Arc(Ext(3), Token, Ext(3), {}),
   Arc(Ext(3), {";"}, Ext(0), {"write_value"})}
  \cup Blankline(Ext(1), bare) \cup Blankline(Ext(3), {"write_value"})

(* HTTP/digits.digits SP digits SP text CRLF *)
VersionArcs ==
  {Arc(Start, {"H"}, Status(1), {"mark"}), Arc(Status(1), {"T"}, Status(2), {}),
   Arc(Status(2), {"T"}, Status(3), {}), Arc(Status(3), {"P"}, Status(4), {}),
   Arc(Status(4), {"/"}, Status(5), {}), Arc(Status(5), {"0"}, Status(6), {}),
   Arc(Status(6), {"0"}, Status(6), {}), Arc(Status(6), {"."}, Status(7), {}),
   Arc(Status(7), {"0"}, Status(8), {}), Arc(Status(8), {"0"}, Status(8), {}),
   Arc(Status(8), {"SP"}, Status(9), {"http_version"})}
ReasonArcs ==
  LET Text == Chars \ {"LF"} IN
  {Arc(Status(9), {"0"}, Status(10), {"mark"}),
   Arc(Status(10), {"0"}, Status(10), {}),
   Arc(Status(10), {"SP"}, Status(11), {"status_code"}),
   Arc(Status(11), Text, Status(12), {"mark"}),
   Arc(Status(12), Text \ {"CR"}, Status(12), {}),
   Arc(Status(12), {"CR"}, ValueCR, {"reason_phrase"}),
   Arc(Status(12), {"LF"}, Line, {"reason_phrase"})}

(* The start of a line: the end of the head, or a header. *)
LineArcs(from, do) ==
  Blankline(from, do)
  \cup {Arc(from, Token, Name, do \cup {"start_field"})}
  \cup UNION {{Arc(from, Upper(Word[w][1]), Letter(w, 1), do)}
                : w \in {"connection", "content_length", "transfer_encoding"}}

(* name: value, with any spaces before the value that do not end the line. *)
FieldArcs ==
  {Arc(Name, Token, Name, {}), Arc(Name, {":"}, Value0, {"write_field"}),
   Arc(Value0, {"SP", "HT"}, Value0, {"start_value"}),
   Arc(Value0, Chars \ Space, Value, {"start_value"}),
   Arc(Value, Chars \ {"CR", "LF"}, Value, {}),
   Arc(Value0, {"LF"}, Line, {"start_value", "write_value"}),
   Arc(Value0, {"CR"}, ValueCR, {"start_value", "write_value"}),
   Arc(Value, {"LF"}, Line, {"write_value"}),
   Arc(Value, {"CR"}, ValueCR, {"write_value"}),
   Arc(ValueCR, {"LF"}, Line, {})}

(* A keyword is read letter by letter, in either case. *)
Spell(w) ==
  {Arc(Letter(w, i), Upper(Word[w][i + 1]), Letter(w, i + 1), {})
     : i \in 1..Len(Word[w]) - 1}
Full(w) == Letter(w, Len(Word[w]))

(* After a keyword's ":" the grammar says space*, which takes the ends of  *)
(* lines too.                                                              *)
Spaces(w) == {Arc(Full(w), {":"}, Blank(w), {}), Arc(Blank(w), Space, Blank(w), {})}

ConnectionArcs == Spell("connection") \cup Spaces("connection")
CloseArcs ==
  {Arc(Blank("connection"), {"c"}, Letter("close", 1), {}),
   Arc(Full("close"), {"CR"}, WordCR("close"), {}),
   Arc(Full("close"), {"LF"}, Closing, {}),
   Arc(WordCR("close"), {"LF"}, Closing, {})}
  \cup Spell("close") \cup LineArcs(Closing, {"write_connection_close"})

EncodingArcs == Spell("transfer_encoding") \cup Spaces("transfer_encoding")
ChunkedArcs ==
  {Arc(Blank("transfer_encoding"), {"c"}, Letter("chunked", 1), {"start_value"}),
   Arc(Full("chunked"), {"CR"}, WordCR("chunked"), {"write_value"}),
   Arc(Full("chunked"), {"LF"}, Line, {"write_value", "trans_chunked"}),
   Arc(WordCR("chunked"), {"LF"}, Line, {"trans_chunked"})}
  \cup Spell("chunked")

LengthArcs == Spell("content_length") \cup Spaces("content_length")
NumberArcs ==
  {Arc(Blank("content_length"), {"0"}, Number, {"start_value"}),
   Arc(Number, {"0"}, Number, {}),
   Arc(Number, {"CR"}, ValueCR, {"write_content_len", "write_value"}),
   Arc(Number, {"LF"}, Line, {"write_content_len", "write_value"})}

Arcs ==
  ChunkArcs \cup ExtensionArcs \cup VersionArcs \cup ReasonArcs \cup FinalArcs
  \cup LineArcs(Line, {}) \cup FieldArcs
  \cup ConnectionArcs \cup CloseArcs \cup EncodingArcs \cup ChunkedArcs
  \cup LengthArcs \cup NumberArcs
=============================================================================
