---------------------------- MODULE MCHttpServer ----------------------------
(***************************************************************************)
(* Instances of HttpServer for TLC: the workers are interchangeable, which *)
(* the safety run uses.                                                    *)
(***************************************************************************)
EXTENDS HttpServer, TLC

Symmetry == Permutations(Workers)
=============================================================================
