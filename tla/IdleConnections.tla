-------------------------- MODULE IdleConnections --------------------------
(***************************************************************************)
(* What the server of note 12 promises: a connection that is received from *)
(* may stay for another Idle seconds, one that is not is closed, and every *)
(* sweep closes all connections whose time is over and no other.           *)
(* `halted` is the end of every promise: the server died or was stopped.   *)
(***************************************************************************)
EXTENDS Naturals

CONSTANTS Conns, Idle

VARIABLES left,    \* seconds each open connection has left; Idle + 1: not open
          halted

vars == <<left, halted>>

Closed == Idle + 1

Init == left = [c \in Conns |-> Closed] /\ halted = FALSE

Accept(c)  == left[c] = Closed /\ left' = [left EXCEPT ![c] = Idle]
Receive(c) == left[c] # Closed /\ left' = [left EXCEPT ![c] = Idle]
HangUp(c)  == left[c] # Closed /\ left' = [left EXCEPT ![c] = Closed]

Second == left' = [c \in Conns |-> IF left[c] \in {0, Closed} THEN left[c] ELSE left[c] - 1]

Sweep == left' = [c \in Conns |-> IF left[c] = 0 THEN Closed ELSE left[c]]

Live == /\ ~halted /\ UNCHANGED halted
        /\ \/ \E c \in Conns : Accept(c) \/ Receive(c) \/ HangUp(c)
           \/ Second \/ Sweep

Halt == ~halted /\ halted' = TRUE /\ left' \in [Conns -> 0..Closed]

Next == Live \/ Halt

Safety == Init /\ [][Next]_vars

\* Time passes, and nobody outstays it.
Spec == /\ Safety
        /\ WF_vars(~halted /\ Second /\ UNCHANGED halted)
        /\ WF_vars(~halted /\ Sweep /\ UNCHANGED halted)
=============================================================================
