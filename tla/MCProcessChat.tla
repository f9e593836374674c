--------------------------- MODULE MCProcessChat ----------------------------
(***************************************************************************)
(* An instance of ProcessChat for TLC: two clients, of which one speaks    *)
(* again before he was heard.                                              *)
(***************************************************************************)
EXTENDS ProcessChat

Talk == [k \in Slots |-> IF k = 0 THEN 2 ELSE 1]
=============================================================================
