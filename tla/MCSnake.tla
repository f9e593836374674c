------------------------------ MODULE MCSnake -------------------------------
(***************************************************************************)
(* An instance of Snake for TLC: a small field, with the first cell off    *)
(* its border on one side only.                                            *)
(***************************************************************************)
EXTENDS Snake

MCStart == <<1, 2>>
=============================================================================
