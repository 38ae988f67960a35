--------------------------- MODULE RequestGrammar --------------------------
(***************************************************************************)
(* The grammar http11_parser.rl.cc was generated from: the head of an      *)
(* HTTP/1.x request, or an XML or JSON message ended by a NUL.  Copy       *)
(* "http" is the target of a request line, copy "json" the path of "@".    *)
(***************************************************************************)
EXTENDS Ragel

Upper      == {"A", "G", "H", "P", "T"}
Alpha      == Upper \cup {"a", "g", "v"}
SubDelims  == {"!", ",", "+", "more"}
Unreserved == Alpha \cup Digit \cup {"-", ".", "_"}
RegName    == Unreserved \cup SubDelims
UserInfo   == RegName \cup {":"}
PChar      == UserInfo \cup {"@", "x80"}

(* HTTP_CTL is written 0 - 31, a difference: only NUL and DEL are excluded. *)
Control    == {"x01", "x02", "x03", "x04", "x05", "x06", "VT", "CR", "LF"}
Separator  == {",", "<", ">", "@", ":", "[", "]", "/", "?", "{", "}", "SP", "HT"}
Chars      == Alpha \cup Digit \cup Control \cup Separator
              \cup {"-", ".", "_", "!", "+", "x80", "#", "%", "^", "NUL", "DEL"}
Token      == Chars \ (Separator \cup {"x80", "NUL", "DEL"})
Content    == Chars \ {"NUL", "DEL", "CR", "LF"}

(* "{", "}" and "^" are delimiters of a URI too when uri_relaxed is set:   *)
(* the generated code widens them to another character, here "more".       *)
Relaxed == {"{", "}", "^"}

(* dec_octet: a digit; ("1"-"9") is "1" without "9", and a digit; "1" and  *)
(* two digits; "2", ("0"-"4") is "0", and a digit; "25" and "0".           *)
OctetArcs ==
  {<<0, Digit, 1>>, <<0, {"1"}, 2>>, <<2, Digit, 1>>,
   <<0, {"1"}, 3>>, <<3, Digit, 2>>, <<0, {"2"}, 4>>, <<4, {"0"}, 2>>,
   <<0, {"2"}, 5>>, <<5, {"5"}, 6>>, <<6, {"0"}, 1>>}

(* 3( h16 ":" ) is the byte 3 and one group, not three groups. *)
Elided(n) == {k \in 0..3 : n = 0 \/ n + k >= 7}
Bytes(n)  == CASE n = 0 -> {"x02", "x03", "x04", "x05"}
               [] n = 1 -> {"x04"}
               [] n = 2 -> {"x03"}
               [] OTHER -> {"x02", "x03"}
IP == INSTANCE IPLiteral
        WITH OctetArcs <- OctetArcs, Whole <- {}, Elided <- Elided,
             MarkedElided <- Bytes, Unbounded <- TRUE, Text <- UserInfo

Start     == At("start", "http")
Method(i) == Place("method", "http", i, 0)
Target    == At("target", "http")
Scheme    == At("scheme", "http")
Hier      == At("hier", "http")
Query     == At("query", "http")
Query0    == At("query0", "http")
Fragment  == At("fragment", "http")
Frag0     == At("fragment0", "http")
Version(i) == Place("version", "http", i, 0)
Line      == At("line", "http")
Crlf      == At("crlf", "http")
Name      == At("name", "http")
Value0    == At("value0", "http")
Value     == At("value", "http")
ValueCR   == At("valueCR", "http")
Final     == At("final", "http")
Segment(s)   == At("segment", s)
Path(s)      == At("path", s)
Slash(s)     == At("slash", s)
Authority(s) == At("authority", s)
User(s)      == At("userinfo", s)
Host0(s)     == At("host0", s)
Reg(s)       == At("reg_name", s)
Port(s)      == At("port", s)
Json(i)      == Place("json", "json", i, 0)
Xml(i)       == Place("xml", "xml", i, 0)
Socket       == At("final", "socket")

MethodArcs ==
  {Arc(Start, Upper \cup Digit, Method(1), {"mark"})}
  \cup {Arc(Method(i), Upper \cup Digit, Method(i + 1), {}) : i \in 1..19}
  \cup {Arc(Method(i), {"SP"}, Target, {"request_method"}) : i \in 1..20}

(* After a path: a query, a fragment or the version; the JSON data.        *)
Ends(s, from, do) ==
  IF s = "json" THEN {Arc(from, {"SP"}, Json(0), do \cup {"request_path"})}
  ELSE {Arc(from, {"?"}, Query0, do \cup {"request_path"}),
        Arc(from, {"#"}, Frag0, do \cup {"request_path", "request_uri"}),
        Arc(from, {"SP"}, Version(0), do \cup {"request_path", "request_uri"})}

QueryArcs ==
  LET done == {"query_string", "request_uri"} IN
  Enter(Query0, PChar \cup {"/", "?"}, Query, {"start_query"})
  \cup Loop(Query, PChar \cup {"/", "?"})
  \cup {Arc(Query0, {"#"}, Frag0, done \cup {"start_query"}),
        Arc(Query0, {"SP"}, Version(0), done \cup {"start_query"}),
        Arc(Query, {"#"}, Frag0, done), Arc(Query, {"SP"}, Version(0), done)}
FragmentArcs ==
  Enter(Frag0, PChar \cup {"/", "?"}, Fragment, {"mark"})
  \cup Loop(Fragment, PChar \cup {"/", "?"})
  \cup {Arc(Frag0, {"SP"}, Version(0), {"mark", "fragment"}),
        Arc(Fragment, {"SP"}, Version(0), {"fragment"})}

(* relative_part: a first segment without ":", then segments.              *)
TargetArcs(s, from, do) ==
  Enter(from, RegName \cup {"@"}, Segment(s), do)
  \cup {Arc(from, {"/"}, Slash(s), do)} \cup Ends(s, from, do)
SegmentArcs(s) ==
  Loop(Segment(s), RegName \cup {"@"}) \cup Ends(s, Segment(s), {})
  \cup {Arc(Segment(s), {"/"}, Path(s), {})}
PathArcs(s) == Loop(Path(s), PChar \cup {"/"}) \cup Ends(s, Path(s), {})
SlashArcs(s) ==
  Enter(Slash(s), PChar, Path(s), {}) \cup Ends(s, Slash(s), {})
  \cup {Arc(Slash(s), {"/"}, Authority(s), {})}

(* scheme ":", whose mark is set behind the colon.                         *)
SchemeArcs ==
  {Arc(Target, Alpha, Scheme, {}),
   Arc(Scheme, Alpha \cup Digit \cup {"+", "-", "."}, Scheme, {}),
   Arc(Scheme, {":"}, Hier, {}), Arc(Hier, {"/"}, Slash("http"), {"mark"})}
  \cup Enter(Hier, PChar, Path("http"), {"mark"}) \cup Ends("http", Hier, {"mark"})

(* What follows a host.                                                    *)
HostFollows(s, from) ==
  {Arc(from, {":"}, Port(s), {}), Arc(from, {"/"}, Path(s), {})}
  \cup Ends(s, from, {})
HostFirst(s, from) ==
  Enter(from, RegName, Reg(s), {}) \cup {Arc(from, {"["}, IP!Open(s), {})}
  \cup HostFollows(s, from)
UserArcs(s) ==
  Enter(Authority(s), UserInfo, User(s), {}) \cup Loop(User(s), UserInfo)
  \cup {Arc(x, {"@"}, Host0(s), {}) : x \in {Authority(s), User(s)}}
HostArcs(s) ==
  HostFirst(s, Authority(s)) \cup HostFirst(s, Host0(s))
  \cup Loop(Reg(s), RegName) \cup HostFollows(s, Reg(s))
PortArcs(s) ==
  {Arc(Port(s), Digit, Port(s), {}), Arc(Port(s), {"/"}, Path(s), {})}
  \cup Ends(s, Port(s), {})
BytesOpening(s) ==
  IP!Opening(s) \cup {Arc(IP!Open(s), {"x06"}, Place("end", s, 3, 0), {})}
JsonGroups  == IP!GroupsBefore("json")
JsonLeft    == IP!GroupsLeft("json")
JsonLast    == IP!LastGroups("json")
JsonTail    == IP!DottedTail("json")
JsonElision == IP!Elision("json")
JsonFuture  == IP!Future("json")
JsonLiteral ==
  JsonGroups \cup JsonLeft \cup JsonLast \cup JsonTail \cup JsonElision
  \cup JsonFuture
HttpLiteral ==
  IP!GroupsBefore("http") \cup IP!GroupsLeft("http") \cup IP!LastGroups("http")
  \cup IP!DottedTail("http") \cup IP!Elision("http") \cup IP!Future("http")
LiteralArcs(s) ==
  BytesOpening(s) \cup HostFollows(s, IP!Closed(s))
  \cup IF s = "json" THEN JsonLiteral ELSE HttpLiteral
RelativeArcs(s) ==
  SegmentArcs(s) \cup PathArcs(s) \cup SlashArcs(s) \cup UserArcs(s)
  \cup HostArcs(s) \cup PortArcs(s) \cup LiteralArcs(s)

(* HTTP/1.0 or HTTP/1.1, and the end of the request line.                  *)
VersionArcs ==
  {Arc(Version(0), {"H"}, Version(1), {"mark"}),
   Arc(Version(1), {"T"}, Version(2), {}), Arc(Version(2), {"T"}, Version(3), {}),
   Arc(Version(3), {"P"}, Version(4), {}), Arc(Version(4), {"/"}, Version(5), {}),
   Arc(Version(5), {"1"}, Version(6), {}), Arc(Version(6), {"."}, Version(7), {}),
   Arc(Version(7), {"0", "1"}, Version(8), {}),
   Arc(Version(8), {"CR"}, ValueCR, {"http_version"}),
   Arc(Version(8), {"LF"}, Line, {"http_version"})}

(* A line is a header, or empty: then the head is complete.                *)
LineArcs ==
  {Arc(Line, Token, Name, {"start_field"}), Arc(Line, {"CR"}, Crlf, {}),
   Arc(Line, {"LF"}, Final, {"done"}), Arc(Crlf, {"LF"}, Final, {"done"})}
NameArcs ==
  {Arc(Name, Token, Name, {}), Arc(Name, {":"}, Value0, {"write_field"})}
ValueArcs ==
  {Arc(Value0, {"SP", "HT"}, Value0, {"start_value"}),
   Arc(Value0, Content \ {"SP", "HT"}, Value, {"start_value"}),
   Arc(Value, Content, Value, {}),
   Arc(Value0, {"CR"}, ValueCR, {"start_value", "write_value"}),
   Arc(Value0, {"LF"}, Line, {"start_value", "write_value"}),
   Arc(Value, {"CR"}, ValueCR, {"write_value"}),
   Arc(Value, {"LF"}, Line, {"write_value"}), Arc(ValueCR, {"LF"}, Line, {})}

(* "<" name ... ">" NUL *)
XmlArcs ==
  LET In == Alpha \cup Digit \cup {"-", "."} IN
  {Arc(Start, {"<"}, Xml(1), {"mark"}), Arc(Xml(1), In, Xml(2), {}),
   Arc(Xml(2), In, Xml(2), {}),
   Arc(Xml(2), {"HT", "LF", "VT", "CR", "SP", "/", ">"}, Xml(3), {"request_path"}),
   Arc(Xml(3), Chars \ {">"}, Xml(3), {}), Arc(Xml(3), {">"}, Xml(4), {}),
   Arc(Xml(4), Chars \ {">", "NUL"}, Xml(3), {}), Arc(Xml(4), {">"}, Xml(4), {}),
   Arc(Xml(4), {"NUL"}, Socket, {"xml", "done"})}

(* "@" relative_part SP "{" ... "}" NUL *)
JsonArcs ==
  {Arc(Start, {"@"}, At("target", "json"), {"mark"}),
   Arc(Json(0), {"{"}, Json(1), {"mark"}),
   Arc(Json(1), Chars \ {"}"}, Json(1), {}), Arc(Json(1), {"}"}, Json(2), {}),
   Arc(Json(2), Chars \ {"}", "NUL"}, Json(1), {}),
   Arc(Json(2), {"}"}, Json(2), {}),
   Arc(Json(2), {"NUL"}, Socket, {"json", "done"})}
  \cup TargetArcs("json", At("target", "json"), {}) \cup RelativeArcs("json")

Arcs ==
  MethodArcs \cup TargetArcs("http", Target, {"mark"}) \cup SchemeArcs
  \cup RelativeArcs("http") \cup QueryArcs \cup FragmentArcs \cup VersionArcs
  \cup LineArcs \cup NameArcs \cup ValueArcs \cup XmlArcs \cup JsonArcs
=============================================================================
