----------------------------- MODULE UriGrammar ----------------------------
(***************************************************************************)
(* The grammar uri.rl.cc was generated from, place by place.  Everything   *)
(* from the host on exists twice in the generated code: in a URI with a    *)
(* scheme, whose path is saved (copy "abs"), and in a relative reference,  *)
(* whose path is not (copy "rel").                                         *)
(***************************************************************************)
EXTENDS Ragel

Alpha      == {"A", "G", "v"}
SubDelims  == {"!", "+"}
Unreserved == Alpha \cup Digit \cup {"-", ".", "_"}
RegName    == Unreserved \cup SubDelims
UserInfo   == RegName \cup {":"}
PChar      == UserInfo \cup {"@", "x80"}
Chars      == PChar \cup {"%", "#", "/", "?", "[", "]", "x02", "<"}

(* dec_octet: a digit; [1-9] and a digit; "1" and two digits; the byte 2   *)
(* (the grammar says 2, not "2"), [0-4] and a digit; "25" and [0-5].       *)
OctetArcs ==
  {<<0, Digit, 1>>, <<0, Digit \ {"0"}, 2>>, <<2, Digit, 1>>,
   <<0, {"1"}, 3>>, <<3, Digit, 2>>,
   <<0, {"x02"}, 4>>, <<4, {"0", "1", "2", "3"}, 2>>,
   <<0, {"2"}, 5>>, <<5, {"5"}, 6>>, <<6, Digit \ {"6"}, 1>>}

(* Before "::" there are no groups, or exactly as many as the groups after *)
(* it leave out of seven.                                                  *)
Elided(n) == IF n = 0 THEN 0..7 ELSE {7 - n}
NoBytes(n) == {}
IP == INSTANCE IPLiteral
        WITH OctetArcs <- OctetArcs, Whole <- {8}, Elided <- Elided,
             MarkedElided <- NoBytes, Unbounded <- FALSE,
             Text <- UserInfo

Start    == At("start", "rel")
Segment  == At("segment", "rel")
Path(s)  == At("path", s)
Query    == At("query", "rel")
Query0   == At("query0", "rel")
Fragment == At("fragment", "rel")
Frag0    == At("fragment0", "rel")
Scheme   == At("scheme", "abs")
Hier     == At("hier", "abs")
Slash(s) == At("slash", s)
Authority(s) == At("authority", s)
User(s)  == At("userinfo", s)
Host0(s) == At("host0", s)
Reg(s)   == At("reg_name", s)
Port0(s) == At("port0", s)
Port(s)  == At("port", s)
Accept   == At("accept", "rel")

(* A complete hierarchical part: a query, a fragment or the end follows.   *)
Ends(from, do) ==
  {Arc(from, {"?"}, Query0, do), Arc(from, {"#"}, Frag0, do),
   Arc(from, {EOF}, Accept, do)}

FragmentArcs ==
  Enter(Frag0, PChar \cup {"/", "?"}, Fragment, {"marku"})
  \cup Loop(Fragment, PChar \cup {"/", "?"})
  \cup {Arc(Frag0, {EOF}, Accept, {"marku", "save_fragment"}),
        Arc(Fragment, {EOF}, Accept, {"save_fragment"})}

QueryArcs ==
  Enter(Query0, PChar \cup {"/", "?"}, Query, {"marku"})
  \cup Loop(Query, PChar \cup {"/", "?"})
  \cup {Arc(Query0, {"#"}, Frag0, {"marku", "save_query"}),
        Arc(Query0, {EOF}, Accept, {"marku", "save_query"}),
        Arc(Query, {"#"}, Frag0, {"save_query"}),
        Arc(Query, {EOF}, Accept, {"save_query"})}

(* A relative reference that starts with a segment, "?", "#" or nothing.   *)
StartArcs ==
  Enter(Start, PChar \ {":"}, Segment, {}) \cup Ends(Start, {})
  \cup {Arc(Start, {"/"}, Slash("rel"), {}),
        Arc(Start, Alpha, Scheme, {"marku"})}
SegmentArcs ==
  Loop(Segment, PChar \ {":"}) \cup Ends(Segment, {})
  \cup {Arc(Segment, {"/"}, Path("rel"), {})}
PathArcs ==
  Loop(Path("rel"), PChar \cup {"/"}) \cup Ends(Path("rel"), {})

(* The first "/" begins an absolute path, the second an authority.         *)
SlashArcs(s) ==
  Enter(Slash(s), PChar, Path("rel"), {}) \cup Ends(Slash(s), {})
  \cup {Arc(Slash(s), {"/"}, Authority(s), {})}

SchemeArcs ==
  {Arc(Scheme, Alpha \cup Digit \cup {"+", "-", "."}, Scheme, {}),
   Arc(Scheme, {":"}, Hier, {"save_scheme"})}
HierArcs ==
  Enter(Hier, PChar, Path("rel"), {}) \cup Ends(Hier, {})
  \cup {Arc(Hier, {"/"}, Slash("abs"), {})}

(* The path of a URI with a scheme and an authority, possibly empty.       *)
AbsPathArcs ==
  Loop(Path("abs"), PChar \cup {"/"}) \cup Ends(Path("abs"), {"save_path"})
PathFollows(s, from, do) ==
  IF s = "rel" THEN {Arc(from, {"/"}, Path("rel"), do)} \cup Ends(from, do)
  ELSE {Arc(from, {"/"}, Path("abs"), do \cup {"markh_path"})}
       \cup Ends(from, do \cup {"markh_path", "save_path"})

(* What follows a host: ":" and a port, or the path. *)
HostFollows(s, from, do) ==
  {Arc(from, {":"}, Port0(s), do)} \cup PathFollows(s, from, do)

HostFirst(s, from) ==
  Enter(from, RegName, Reg(s), {"markh"})
  \cup {Arc(from, {"["}, IP!Open(s), {"markh"})}
  \cup {Arc(from, a[2], Place("ip", s, 1, a[3]), {"markh"})
          : a \in {o \in OctetArcs : o[1] = 0}}
  \cup HostFollows(s, from, {"markh", "save_host"})

(* The authority starts with a user and "@", or with the host itself.      *)
AuthorityFirst(s) ==
  HostFirst(s, Authority(s))
  \cup Enter(Authority(s), UserInfo, User(s), {"markh"})
  \cup {Arc(Authority(s), {"@"}, Host0(s), {"markh", "save_userinfo"})}
UserArcs(s) ==
  Loop(User(s), UserInfo) \cup {Arc(User(s), {"@"}, Host0(s), {"save_userinfo"})}
HostArcs(s) ==
  HostFirst(s, Host0(s)) \cup Loop(Reg(s), RegName)
  \cup HostFollows(s, Reg(s), {"save_host"})
DottedArcs(s) ==
  IP!Dotted("ip", s, HostFollows(s, Place("ip", s, 4, 1), {"save_host"}))
PortArcs(s) ==
  {Arc(Port0(s), Digit, Port(s), {"markh"}), Arc(Port(s), Digit, Port(s), {})}
  \cup PathFollows(s, Port0(s), {"markh", "save_port"})
  \cup PathFollows(s, Port(s), {"save_port"})

(* The two copies: what "//" begins, and "[" address "]" part by part.     *)
RelGroups   == IP!GroupsBefore("rel")
RelLeft     == IP!GroupsLeft("rel")
RelLast     == IP!LastGroups("rel")
RelTail     == IP!DottedTail("rel")
RelElision  == IP!Elision("rel")
RelFuture   == IP!Future("rel")
RelLiteral  ==
  IP!Opening("rel") \cup RelGroups \cup RelLeft \cup RelLast \cup RelTail
  \cup RelElision \cup RelFuture
  \cup HostFollows("rel", IP!Closed("rel"), {"save_host"})
RelUser     == AuthorityFirst("rel") \cup UserArcs("rel")
RelHost     == HostArcs("rel") \cup DottedArcs("rel")
RelAuthority ==
  SlashArcs("rel") \cup RelUser \cup RelHost \cup PortArcs("rel") \cup RelLiteral

AbsGroups   == IP!GroupsBefore("abs")
AbsLeft     == IP!GroupsLeft("abs")
AbsLast     == IP!LastGroups("abs")
AbsTail     == IP!DottedTail("abs")
AbsElision  == IP!Elision("abs")
AbsFuture   == IP!Future("abs")
AbsLiteral  ==
  IP!Opening("abs") \cup AbsGroups \cup AbsLeft \cup AbsLast \cup AbsTail
  \cup AbsElision \cup AbsFuture
  \cup HostFollows("abs", IP!Closed("abs"), {"save_host"})
AbsUser     == AuthorityFirst("abs") \cup UserArcs("abs")
AbsHost     == HostArcs("abs") \cup DottedArcs("abs")
AbsAuthority ==
  SlashArcs("abs") \cup AbsUser \cup AbsHost \cup PortArcs("abs") \cup AbsLiteral

Arcs ==
  StartArcs \cup SegmentArcs \cup PathArcs \cup QueryArcs \cup FragmentArcs
  \cup SchemeArcs \cup HierArcs \cup AbsPathArcs
  \cup RelAuthority \cup AbsAuthority
=============================================================================
