--------------------------- MODULE Announcements ----------------------------
(***************************************************************************)
(* What a member of the process chat may count on: he hears the others,    *)
(* never himself, nothing that was not said, and nothing older than what   *)
(* he has heard.  He may miss what was soon followed by something else.    *)
(***************************************************************************)
EXTENDS Integers

CONSTANT Slots

VARIABLES said,   \* how many texts each member has said
          heard   \* the last text of the second that the first has heard

Init == said = [k \in Slots |-> 0] /\ heard = [k \in Slots |-> [j \in Slots |-> 0]]

Say(k) == /\ said' = [said EXCEPT ![k] = @ + 1] /\ heard' = heard

Hear(k, j) == /\ j # k
              /\ \E n \in (heard[k][j] + 1)..said[j] : heard' = [heard EXCEPT ![k][j] = n]
              /\ said' = said

Next == \E k \in Slots : Say(k) \/ \E j \in Slots : Hear(k, j)

Spec == Init /\ [][Next]_<<said, heard>>
=============================================================================
