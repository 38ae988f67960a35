------------------------------- MODULE MCHook -------------------------------
(***************************************************************************)
(* Instances of Hook: which fiber calls what.                              *)
(***************************************************************************)
EXTENDS Hook, TLC

CONSTANTS r, w

\* r reads, w connects first (or writes).
ReadWrite == (r :> "READ") @@ (w :> "WRITE")
ReadTwice == (r :> 2) @@ (w :> 1)
=============================================================================
