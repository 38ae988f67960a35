------------------------------- MODULE Ragel -------------------------------
(***************************************************************************)
(* What the three generated parsers of src/radixun/http share.  Ragel      *)
(* compiles a grammar into one deterministic automaton: a state of the     *)
(* generated code stands for the set of places of the grammar the text     *)
(* read so far may be in, and the actions of one character are those of    *)
(* every place that moves on it.  A grammar is therefore a set of arcs     *)
(* between places, and the automaton's state `cs' is a set of places.      *)
(*                                                                         *)
(* Characters are the classes the grammar tells apart, each named by a     *)
(* member ("3" is 3 or 4 in the host's octets, "x80" any negative char).   *)
(***************************************************************************)
EXTENDS Naturals, FiniteSets

(* A place: the rule, the copy of the rule, and two counters inside it     *)
(* (letters or digits read, groups left).                                  *)
Place(rule, copy, i, j) == [rule |-> rule, copy |-> copy, i |-> i, j |-> j]
At(rule, copy) == Place(rule, copy, 0, 0)

(* Reading a character of `on' in `from' leads to `to' and runs `do'.      *)
Arc(from, on, to, do) == [from |-> from, on |-> on, to |-> to, do |-> do]

(* The pseudo-character of the end of the text, for grammars that act on it. *)
EOF == "eof"

(* The generated switch: the arcs that leave each place. *)
Table(arcs) ==
  [x \in {a.from : a \in arcs} |-> {a \in arcs : a.from = x}]
Fired(table, cs, c) ==
  {a \in UNION {table[x] : x \in cs \cap DOMAIN table} : c \in a.on}

(* The automaton's next state (the empty set is the error state 0) and the *)
(* actions the transition runs.                                            *)
Goes(table, cs, c) == {a.to : a \in Fired(table, cs, c)}
Does(table, cs, c) == UNION {a.do : a \in Fired(table, cs, c)}

(* A loop over the characters of `on', where "%" starts two hexadecimal    *)
(* digits; entering it from `from' runs `do'.                              *)
Digit == {"0", "1", "2", "3", "5", "6"}
Hex   == Digit \cup {"A", "a"}

Escape(x) ==
  {Arc([x EXCEPT !.j = 1], Hex, [x EXCEPT !.j = 2], {}),
   Arc([x EXCEPT !.j = 2], Hex, x, {})}
Enter(from, on, x, do) ==
  {Arc(from, on, x, do), Arc(from, {"%"}, [x EXCEPT !.j = 1], do)}
Loop(x, on) == Enter(x, on, x, {}) \cup Escape(x)
=============================================================================
