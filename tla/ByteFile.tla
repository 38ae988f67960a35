------------------------------ MODULE ByteFile ------------------------------
(***************************************************************************)
(* What a ByteArray promises its callers: a file of bytes with a position. *)
(* io holds the bytes that the last operation moved, in either direction.  *)
(***************************************************************************)
EXTENDS Integers, Sequences

VARIABLES content, pos, io

fileVars == <<content, pos, io>>

\* content with s written over it from position p on.
Overwritten(p, s) ==
  [i \in 1 .. (IF p + Len(s) > Len(content) THEN p + Len(s) ELSE Len(content)) |->
     IF i > p /\ i <= p + Len(s) THEN s[i - p] ELSE content[i]]

Init == content = <<>> /\ pos = 0 /\ io = <<>>

\* Bytes are written at the position, over old ones or beyond the end.
Write ==
  /\ content' = Overwritten(pos, io')
  /\ pos' = pos + Len(io')

\* Bytes are read at the position, never beyond the end.
Read ==
  /\ pos + Len(io') <= Len(content)
  /\ io' = SubSeq(content, pos + 1, pos + Len(io'))
  /\ pos' = pos + Len(io')
  /\ UNCHANGED content

\* The position is set.  Beyond the end the file grows by bytes of which
\* nothing is said; what was there stays.
Move ==
  /\ Len(content') = (IF pos' > Len(content) THEN pos' ELSE Len(content))
  /\ SubSeq(content', 1, Len(content)) = content
  /\ io' = <<>>

Clear == content' = <<>> /\ pos' = 0 /\ io' = <<>>

Next == Write \/ Read \/ Move \/ Clear

Spec == Init /\ [][Next]_fileVars
=============================================================================
