----------------------------- MODULE UriParser -----------------------------
(***************************************************************************)
(* Uri::Create: one run of the automaton over a text, and the fields its   *)
(* actions set.  A pointer into the text is the name of the boundary it    *)
(* points at, so a saved field is named by where it starts; it always ends *)
(* at the character being read.                                            *)
(***************************************************************************)
EXTENDS UriGrammar, Sequences

CONSTANT Switch \* the generated automaton: Table(Arcs) of UriGrammar

VARIABLES
  cs,     \* the automaton's state, {} is the error state
  ptr,    \* [mark |-> the local variable `mark']
  fields, \* the Uri under construction: where each field starts
  past    \* history: what the text contained (no part of the program)
vars == <<cs, ptr, fields, past>>

NULL     == "NULL"
Unset    == "unset"
Boundary == {"scheme", "authority", "host", "colon", "path", "query", "fragment"}
Saved    == {"scheme", "userinfo", "host", "port", "path", "query", "fragment"}
Copies   == {"rel", "abs"}
Facts    == {"authority", "user", "digit", "port", "no port"}

(* std::string(NULL, n) throws std::logic_error out of Create. *)
Thrown   == At("logic_error", "rel")

Init ==
  /\ cs = {Start} /\ ptr = [mark |-> NULL]
  /\ fields = [f \in Saved |-> Unset] /\ past = {}

(* The boundary in front of the character being read.                      *)
Here ==
  CASE \E s \in Copies : Authority(s) \in cs -> "authority"
    [] \E s \in Copies : Host0(s) \in cs -> "host"
    [] \E s \in Copies : Port0(s) \in cs -> "colon"
    [] Query0 \in cs -> "query"
    [] Frag0 \in cs -> "fragment"
    [] OTHER -> "scheme"

(* `marku' and `markh' are the first actions of a character.               *)
Marked(do) == IF {"marku", "markh"} \cap do # {} THEN Here ELSE ptr.mark

(* The mark of the path's start; a transition holds `markh' only once, so  *)
(* behind an empty port it is not run again after save_port's reset.       *)
MarkedPath(do) ==
  CASE "markh_path" \in do /\ ~ {"markh", "save_port"} \subseteq do -> "path"
    [] {"save_scheme", "save_userinfo", "save_port"} \cap do # {} -> NULL
    [] OTHER -> Marked(do)

\* Mutant of Cut: a port is cut out without the test that it is not empty.
CutEmptyPort(f, do) ==
  CASE ("save_" \o f) \notin do -> fields[f]
    [] f = "path" -> MarkedPath(do)
    [] OTHER -> IF Marked(do) = NULL THEN fields[f] ELSE Marked(do)

(* scheme, userinfo and host are cut out at `mark', the last two only when *)
(* it is set; port unless it is empty; path, query and fragment last.      *)
Cut(f, do) ==
  LET m == Marked(do) IN
  IF ("save_" \o f) \notin do THEN fields[f]
  ELSE CASE f \in {"userinfo", "host"} -> IF m = NULL THEN fields[f] ELSE m
         [] f = "port" -> IF "markh" \in do THEN fields[f] ELSE m
         [] f = "path" -> MarkedPath(do)
         [] OTHER -> m
Last == {"save_path", "save_query", "save_fragment"}
Crashes(do) == Last \cap do # {} /\ MarkedPath(do) = NULL

(* What the text turned out to contain, told by the characters alone.      *)
UserEnds(c) == c = "@" /\ \E s \in Copies : {Authority(s), User(s)} \cap cs # {}
Learns(c) ==
  UNION {
    IF Goes(Switch, cs, c) \cap {Authority(s) : s \in Copies} # {}
    THEN {"authority"} ELSE {},
    IF UserEnds(c) THEN {"user"} ELSE {},
    IF c \in Digit /\ "user" \notin past /\ Here = "colon" THEN {"digit"} ELSE {},
    IF c \in Digit /\ Here = "colon" THEN {"port"} ELSE {},
    IF c \in {"/", "?", "#", EOF} /\ Here = "colon" THEN {"no port"} ELSE {}}
Forgets(c) == IF UserEnds(c) THEN {"port"} ELSE {}

(* One character, or the end of the text.                                  *)
Feed(c) ==
  LET do == Does(Switch, cs, c) IN
  /\ cs \notin {{}, {Accept}, {Thrown}}
  /\ IF Crashes(do)
     THEN cs' = {Thrown} /\ UNCHANGED <<ptr, fields>>
     ELSE /\ cs' = Goes(Switch, cs, c)
          /\ ptr' = [mark |-> IF Last \cap do # {} THEN NULL ELSE MarkedPath(do)]
          /\ fields' = [f \in Saved |-> Cut(f, do)]
  /\ past' = (past \ Forgets(c)) \cup Learns(c)

Next == \E c \in Chars \cup {EOF} : Feed(c)
Spec == Init /\ [][Next]_vars

(* Pointers and fields name boundaries of the text.                        *)
TypeOK ==
  /\ ptr.mark \in Boundary \cup {NULL}
  /\ fields \in [Saved -> Boundary \cup {Unset}] /\ past \subseteq Facts

(* Where each field of the text starts.  A userinfo whose first ":" is     *)
(* followed by a digit has lost what stood before the digit: the digit may *)
(* begin a port, and marking it moves the only mark.                       *)
Begins(f) ==
  CASE f = "userinfo" -> IF "digit" \in past THEN "colon" ELSE "authority"
    [] f = "host" -> IF "user" \in past THEN "host" ELSE "authority"
    [] f = "port" -> "colon"
    [] OTHER -> f

(* UriFields: every field the parser saves starts where that part of the   *)
(* text does, although one mark serves all of them and several parts are   *)
(* guessed at once (a user is first taken for the host); a returned URI    *)
(* has every part of its text, except the path of one without a scheme or  *)
(* an authority; and Create throws, on a NULL mark, exactly when an        *)
(* absolute URI has ":" but no port behind it.                             *)
UriFields ==
  /\ \A f \in Saved \ {"host"} : fields[f] \in {Begins(f), Unset}
  /\ cs = {Thrown} => "no port" \in past /\ fields["scheme"] # Unset
  /\ cs = {Accept} =>
       /\ fields["userinfo"] # Unset <=> "user" \in past
       /\ fields["port"] # Unset <=> "port" \in past
       /\ fields["path"] # Unset
            <=> fields["scheme"] # Unset /\ "authority" \in past
       /\ fields["host"] = IF "authority" \in past THEN Begins("host") ELSE Unset
       /\ "no port" \in past => fields["scheme"] = Unset
=============================================================================
