----------------------------- MODULE IPLiteral -----------------------------
(***************************************************************************)
(* Numeric hosts, as both grammars build them: dotted octets, groups of    *)
(* hexadecimal digits with one elision "::", and "v" literals.             *)
(***************************************************************************)
EXTENDS Ragel

CONSTANTS
  OctetArcs,   \* the arcs <<from, on, to>> between the stages of one octet
  Whole,       \* the numbers of groups a literal without "::" may have
  Elided(_),   \* how many groups may follow "::" after n groups
  MarkedElided(_), \* bytes that stand for "k groups", read as characters
  Unbounded,   \* seven groups before "::" stand for any more of them
  Text         \* the characters of a "v" literal

Open(s)   == At("[", s)
Closed(s) == At("]", s)

(* The stages of an octet: 0 nothing read, 1 it may end here, the others   *)
(* wait for more digits.  Octet `n' of four, in the rule `r'.              *)
Octet(r, s, n, end) ==
  {Arc(Place(r, s, n, a[1]), a[2], Place(r, s, n, a[3]), {}) : a \in OctetArcs}
  \cup IF n < 4 THEN {Arc(Place(r, s, n, 1), {"."}, Place(r, s, n + 1, 0), {})}
       ELSE end
Dotted(r, s, end) == UNION {Octet(r, s, n, end) : n \in 1..4}

(* The last octet of a literal is closed by "]". *)
DottedTail(s) ==
  Dotted("ip4", s, {Arc(Place("ip4", s, 4, 1), {"]"}, Closed(s), {})})

(* Groups before "::": `i' are complete, `j' digits of the next are read.  *)
Most == 7
NextCount(n) == IF n < Most THEN {n + 1} ELSE IF Unbounded THEN {n} ELSE {}
GroupsBefore(s) ==
  UNION {{Arc(Place("pre", s, n, d), Hex, Place("pre", s, n, d + 1), {})
            : d \in 0..3}
         \cup {Arc(Place("pre", s, n, d), {":"}, Place("pre", s, m, 0), {})
                 : d \in 1..4, m \in NextCount(n)}
         : n \in 0..Most}

(* Groups that must still end: `i' of them, `j' digits of this one are     *)
(* read.  The last two may be four octets instead.                         *)
GroupsLeft(s) ==
  UNION {{Arc(Place("end", s, k, d), Hex, Place("end", s, k, d + 1), {})
            : d \in 0..3} : k \in 1..8}
  \cup {Arc(Place("end", s, kd[1], kd[2]), {":"},
            Place("end", s, kd[1] - 1, 0), {}) : kd \in (2..8) \X (1..4)}
LastGroups(s) ==
  {Arc(Place("end", s, 1, d), {"]"}, Closed(s), {}) : d \in 1..4}
  \cup {Arc(Place("end", s, 0, 0), {"]"}, Closed(s), {})}
  \cup {Arc(Place("end", s, 2, 0), a[2], Place("ip4", s, 1, a[3]), {})
          : a \in {o \in OctetArcs : o[1] = 0}}

(* What may follow "::" when n groups came before it. *)
AfterElision(s, from, n) ==
  {Arc(from, {":"}, Place("end", s, k, 0), {}) : k \in Elided(n)}
  \cup (IF MarkedElided(n) = {} THEN {}
        ELSE {Arc(from, {":"}, Place("byte", s, n, 0), {})})
Elision(s) ==
  UNION {AfterElision(s, Place("pre", s, n, 0), n) : n \in 1..Most}
  \cup AfterElision(s, At("::", s), 0)
  \cup UNION {{Arc(Place("byte", s, n, 0), MarkedElided(n),
                   Place("end", s, 3, 0), {})} : n \in 0..Most}

(* The opening bracket. *)
Opening(s) ==
  {Arc(Open(s), Hex, Place("pre", s, 0, 1), {}),
   Arc(Open(s), {":"}, At("::", s), {}),
   Arc(Open(s), {"v"}, At("v", s), {})}
  \cup {Arc(Open(s), Hex, Place("end", s, k, 1), {}) : k \in Whole}

(* "v" hex+ "." text+ *)
Future(s) ==
  {Arc(At("v", s), Hex, Place("v", s, 1, 0), {}),
   Arc(Place("v", s, 1, 0), Hex, Place("v", s, 1, 0), {}),
   Arc(Place("v", s, 1, 0), {"."}, Place("v", s, 2, 0), {}),
   Arc(Place("v", s, 2, 0), Text, Place("v", s, 3, 0), {}),
   Arc(Place("v", s, 3, 0), Text, Place("v", s, 3, 0), {}),
   Arc(Place("v", s, 3, 0), {"]"}, Closed(s), {})}
=============================================================================
