------------------------------ MODULE ChatRoom ------------------------------
(***************************************************************************)
(* What the chat server of note 11 promises: what a member says, all other *)
(* members get, unless somebody else speaks before they did.  Only if the  *)
(* speaker has left meanwhile, what they get may be anything.              *)
(***************************************************************************)
CONSTANTS Clients, Nobody, Gone

VARIABLES members,
          hears     \* whose words each member is about to get

vars == <<members, hears>>

Init == members = {} /\ hears = [c \in Clients |-> Nobody]

Join(c) == /\ c \notin members
           /\ members' = members \cup {c}
           /\ UNCHANGED hears

Speak(c) == /\ c \in members
            /\ hears' = [m \in Clients |-> IF m \in members \ {c} THEN c ELSE hears[m]]
            /\ UNCHANGED members

Get(m) == /\ m \in members /\ hears[m] # Nobody
          /\ hears' = [hears EXCEPT ![m] = Nobody]
          /\ UNCHANGED members

Leave(c) == /\ c \in members
            /\ members' = members \ {c}
            /\ hears' = [m \in Clients |-> IF m = c THEN Nobody
                                           ELSE IF hears[m] = c THEN Gone
                                           ELSE hears[m]]

Next == \E c \in Clients : Join(c) \/ Speak(c) \/ Get(c) \/ Leave(c)

Spec == Init /\ [][Next]_vars
=============================================================================
