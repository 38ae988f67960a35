---------------------------- MODULE MCByteArray ----------------------------
(***************************************************************************)
(* Instances of ByteArray: what the callers write.                         *)
(***************************************************************************)
EXTENDS ByteArray

\* Strings shorter and longer than a node, and the empty one.
SomeBytes == {<<>>, <<1>>, <<2, 1>>}
SomeFiles == {<<1, 2, 1>>}

\* The least integer, which takes the most bytes, and a short one.
SomeInts == {-(2 ^ (Width - 1)), 1}
=============================================================================
