----------------------------- MODULE MCSession -----------------------------
(***************************************************************************)
(* Session with two documents, so that the one mode of the main window can  *)
(* be about another document than the active one, and with two timers, the  *)
(* second of which a repeated run leaks.                                   *)
(***************************************************************************)
EXTENDS Session

CONSTANTS A, B, c1
=============================================================================
