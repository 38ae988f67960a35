------------------------------- MODULE Stream -------------------------------
(***************************************************************************)
(* Stream::readFixSize as the two HTTP receivers use it: a body of a       *)
(* declared length takes what its head's buffer holds behind the head, and *)
(* readFixSize reads the rest.  Stream::writeFixSize is the same loop.     *)
(***************************************************************************)
EXTENDS Integers, Sequences

NUL == "nul" \* body.resize(length) fills the body with it

(* body.resize(length) and the memcpy of the bytes behind the head; what   *)
(* the buffer holds beyond the body is left in it.                         *)
Resized(length, rest) ==
  LET len == IF length >= Len(rest) THEN Len(rest) ELSE length IN
  [body |-> [i \in 1..length |-> IF i <= len THEN rest[i] ELSE NUL],
   at |-> len, left |-> length - len]

(* read() returned the bytes of `take': at `offset', which may be in front *)
(* of the body.                                                            *)
Underruns(f) == f.at < 0
Filled(f, take) ==
  [body |-> [i \in DOMAIN f.body |->
               IF i \in f.at + 1 .. f.at + Len(take) THEN take[i - f.at]
               ELSE f.body[i]],
   at |-> f.at + Len(take), left |-> f.left - Len(take)]

(* read() returned -1, which is not <= 0 as a size_t: the loop goes on.    *)
Missed(f) == [f EXCEPT !.at = @ - 1, !.left = @ + 1]
=============================================================================
