---------------------------- MODULE MCIOManager ----------------------------
(***************************************************************************)
(* The instance of IOManager: which task waits for which event.            *)
(***************************************************************************)
EXTENDS IOManager, TLC

CONSTANTS f1, f2, d1

\* A reader and a writer of one descriptor.
DuplexWatch == (f1 :> {<<d1, "READ">>}) @@ (f2 :> {<<d1, "WRITE">>})
=============================================================================
