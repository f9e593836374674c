---------------------------- MODULE MCGuessGame -----------------------------
(***************************************************************************)
(* Instances of GuessGame for TLC: clients are interchangeable.            *)
(***************************************************************************)
EXTENDS GuessGame, TLC

Symmetry == Permutations(Clients)
=============================================================================
