---------------------------- MODULE ConnLifecycle ----------------------------
(***************************************************************************)
(* What the HTTP server promises about a connection: at every moment it is *)
(* in exactly one pair of hands.  The kernel watches it, the event loop    *)
(* handles an event on it, the work queue holds it, or one worker serves   *)
(* it; only the event loop closes it, and a queued connection is taken and *)
(* served.  `halted` is the end of every promise: the server died.         *)
(***************************************************************************)
CONSTANT Conns

VARIABLES owner, halted

vars == <<owner, halted>>

Owners == {"none", "kernel", "loop", "queue", "worker"}

Init == /\ owner = [c \in Conns |-> "none"]
        /\ halted = FALSE

Move(c, from, to) == /\ ~halted
                     /\ owner[c] = from
                     /\ owner' = [owner EXCEPT ![c] = to]
                     /\ UNCHANGED halted

Accept(c)  == Move(c, "none", "kernel")
Rearm(c)   == Move(c, "loop", "kernel")
Close(c)   == Move(c, "loop", "none")
Enqueue(c) == Move(c, "loop", "queue")
Take(c)    == Move(c, "queue", "worker")
Serve(c)   == Move(c, "worker", "kernel")

\* One epoll_wait hands a whole batch of connections to the event loop.
Deliver(C) == /\ ~halted
              /\ \A c \in C : owner[c] = "kernel"
              /\ owner' = [c \in Conns |-> IF c \in C THEN "loop" ELSE owner[c]]
              /\ UNCHANGED halted

Halt == /\ ~halted
        /\ halted' = TRUE
        /\ UNCHANGED owner

Next == \/ \E c \in Conns : \/ Accept(c) \/ Rearm(c) \/ Close(c)
                            \/ Enqueue(c) \/ Take(c) \/ Serve(c)
        \/ \E C \in SUBSET Conns : Deliver(C)
        \/ Halt

Safety == Init /\ [][Next]_vars

Spec == Safety /\ \A c \in Conns : WF_vars(Take(c)) /\ WF_vars(Serve(c))
=============================================================================
