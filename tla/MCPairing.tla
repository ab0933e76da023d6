----------------------------- MODULE MCPairing -----------------------------
(***************************************************************************)
(* An instance of InitModule for TLC.                                      *)
(***************************************************************************)
EXTENDS InitModule

\* A good stream, a stuck one and a short one.
Streams == {<<0, 1>>, <<1, 1>>, <<1>>}
============================================================================
