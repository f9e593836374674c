----------------------------- MODULE IdleServer -----------------------------
(***************************************************************************)
(* The server of note 12 (main.cpp): one thread in epoll_wait, edge        *)
(* triggered, whose connections carry a timer each in a sort_timer_lst.    *)
(* SIGALRM writes to a socket pair that epoll watches; after a batch with  *)
(* a SIGALRM in it the loop sweeps the list and sets the next alarm.       *)
(*                                                                         *)
(* A connection and its timer have the same name: users[fd].timer.  Time   *)
(* is relative: `expire` counts the seconds left, and stops at 0.          *)
(***************************************************************************)
EXTENDS TimerList

CONSTANTS TIMESLOT,  \* seconds between two sweeps
          MaxRx      \* receive buffers of data the kernel holds for a connection

Conns == Timers
Idle  == 3 * TIMESLOT

ASSUME IdleAssumption == /\ TIMESLOT \in Nat \ {0} /\ MaxRx \in Nat
                         /\ {"listen", "pipe"} \cap Conns = {}

VARIABLES timer_lst,
          pcm,      \* the loop: "wait" in epoll_wait, "loop" over a batch, "done"
          events,   \* the rest of the batch
          timeout, stop_server,
          alarm,    \* seconds until SIGALRM, 0 if none is set
          pipe,     \* the signals written to the socket pair
          edge,     \* descriptors with an event that epoll has not reported yet
          backlog,  \* connections not yet accepted
          rx, peer  \* what the kernel holds of each connection, and its client

loopVars == <<pcm, events, timeout, stop_server>>
vars == <<timer_lst, loopVars, alarm, pipe, edge, backlog, rx, peer>>

Fds == Conns \cup {"listen", "pipe"}

Running == timer_lst.fate = "fine" /\ pcm # "done"

Init == /\ timer_lst = EmptyList
        /\ pcm = "wait" /\ events = {} /\ timeout = FALSE /\ stop_server = FALSE
        /\ alarm = TIMESLOT /\ pipe = {}
        /\ edge = {} /\ backlog = 0
        /\ rx = [c \in Conns |-> 0]
        /\ peer = [c \in Conns |-> "none"]
-----------------------------------------------------------------------------
(***************************************************************************)
(* Clients, signals and time.  The server accepts up to FD_LIMIT clients;  *)
(* no more than Conns has room for come.                                   *)
(***************************************************************************)
Connect ==
    /\ Running
    /\ backlog < Cardinality({c \in Conns : peer[c] = "none"})
    /\ backlog' = backlog + 1
    /\ edge' = edge \cup {"listen"}
    /\ UNCHANGED <<timer_lst, loopVars, alarm, pipe, rx, peer>>

Send(c) == /\ Running /\ peer[c] = "open" /\ rx[c] < MaxRx
           /\ rx' = [rx EXCEPT ![c] = @ + 1]
           /\ edge' = edge \cup {c}
           /\ UNCHANGED <<timer_lst, loopVars, alarm, pipe, backlog, peer>>

\* The client ends the connection, or resets it; a reset may discard what was not
\* read.
Leave(c, how, kept) ==
    /\ Running /\ peer[c] = "open"
    /\ how = "ended" => kept = rx[c]
    /\ peer' = [peer EXCEPT ![c] = how]
    /\ rx' = [rx EXCEPT ![c] = kept]
    /\ edge' = edge \cup {c}
    /\ UNCHANGED <<timer_lst, loopVars, alarm, pipe, backlog>>

\* sig_handler(SIGTERM).
Terminate == /\ Running /\ ~stop_server /\ "SIGTERM" \notin pipe
             /\ pipe' = pipe \cup {"SIGTERM"}
             /\ edge' = edge \cup {"pipe"}
             /\ UNCHANGED <<timer_lst, loopVars, alarm, backlog, rx, peer>>

\* A second passes; the alarm may go off, and sig_handler(SIGALRM) runs.
Second ==
    /\ Running
    /\ timer_lst' = [timer_lst EXCEPT !.expire =
                        [c \in Conns |-> IF @[c] \in {Null, 0} THEN @[c] ELSE @[c] - 1]]
    /\ alarm' = IF alarm = 0 THEN 0 ELSE alarm - 1
    /\ IF alarm = 1
         THEN pipe' = pipe \cup {"SIGALRM"} /\ edge' = edge \cup {"pipe"}
         ELSE UNCHANGED <<pipe, edge>>
    /\ UNCHANGED <<loopVars, backlog, rx, peer>>
-----------------------------------------------------------------------------
(***************************************************************************)
(* The event loop.                                                         *)
(***************************************************************************)
EpollWait == /\ Running /\ pcm = "wait" /\ edge # {}
             /\ pcm' = "loop" /\ events' = edge /\ edge' = {}
             /\ UNCHANGED <<timer_lst, timeout, stop_server, alarm, pipe, backlog, rx, peer>>

Handle(fd) == /\ Running /\ pcm = "loop" /\ fd \in events
              /\ events' = events \ {fd}
              /\ UNCHANGED <<pcm, alarm>>

\* One accept for each event of listenfd; ADD reports nothing of a new connection.
Accept(c) ==
    /\ Handle("listen") /\ backlog > 0 /\ peer[c] = "none"
    /\ backlog' = backlog - 1
    /\ peer' = [peer EXCEPT ![c] = "open"]
    /\ timer_lst' = AddTimer(NewTimer(timer_lst, c, Idle), c)
    /\ UNCHANGED <<timeout, stop_server, pipe, edge, rx>>

\* Mutant: only the first of several signals in the buffer is looked at.
ReadSignalsFirstOnly ==
    /\ Handle("pipe")
    /\ timeout' = (timeout \/ "SIGALRM" \in pipe)
    /\ stop_server' = (stop_server \/ pipe = {"SIGTERM"})
    /\ pipe' = {}
    /\ UNCHANGED <<timer_lst, edge, backlog, rx, peer>>

ReadSignals ==
    /\ Handle("pipe")
    /\ timeout' = (timeout \/ "SIGALRM" \in pipe)
    /\ stop_server' = (stop_server \/ "SIGTERM" \in pipe)
    /\ pipe' = {}
    /\ UNCHANGED <<timer_lst, edge, backlog, rx, peer>>

\* Mutant: the timer keeps its place in the list.
ReceiveInPlace(c) ==
    /\ Handle(c) /\ rx[c] > 0
    /\ rx' = [rx EXCEPT ![c] = @ - 1]
    /\ timer_lst' = [timer_lst EXCEPT !.expire[c] = Idle]
    /\ UNCHANGED <<timeout, stop_server, pipe, edge, backlog, peer>>

\* recv() returns data, at most one buffer of it.
Receive(c) ==
    /\ Handle(c) /\ rx[c] > 0
    /\ rx' = [rx EXCEPT ![c] = @ - 1]
    /\ timer_lst' = AdjustTimer([timer_lst EXCEPT !.expire[c] = Idle], c)
    /\ UNCHANGED <<timeout, stop_server, pipe, edge, backlog, peer>>

\* cb_func for the connections of C: DEL and close().
Close(C) == /\ peer' = [c \in Conns |-> IF c \in C THEN "none" ELSE peer[c]]
            /\ rx' = [c \in Conns |-> IF c \in C THEN 0 ELSE rx[c]]
            /\ edge' = edge \ C

\* Mutant: the connection is closed, its timer stays.
HangUpKeepsTimer(c) ==
    /\ Handle(c) /\ rx[c] = 0 /\ peer[c] \in {"ended", "reset"}
    /\ Close({c})
    /\ UNCHANGED <<timer_lst, timeout, stop_server, pipe, backlog>>

\* recv() returns 0, or fails.
HangUp(c) ==
    /\ Handle(c) /\ rx[c] = 0 /\ peer[c] \in {"ended", "reset"}
    /\ Close({c})
    /\ timer_lst' = DelTimer(timer_lst, c)
    /\ UNCHANGED <<timeout, stop_server, pipe, backlog>>

\* Mutant: timer_handler() sweeps and sets no alarm.
EndOfBatchNoAlarm ==
    /\ Running /\ pcm = "loop" /\ events = {}
    /\ pcm' = IF stop_server THEN "done" ELSE "wait"
    /\ IF timeout
         THEN /\ timer_lst' = Tick(timer_lst, 0)
              /\ Close(Nodes(timer_lst) \ Nodes(timer_lst'))
         ELSE UNCHANGED <<timer_lst, peer, rx, edge>>
    /\ timeout' = FALSE
    /\ UNCHANGED <<events, stop_server, pipe, backlog, alarm>>

\* The end of the batch, with timer_handler().
EndOfBatch ==
    /\ Running /\ pcm = "loop" /\ events = {}
    /\ pcm' = IF stop_server THEN "done" ELSE "wait"
    /\ IF timeout
         THEN /\ timer_lst' = Tick(timer_lst, 0)
              /\ Close(Nodes(timer_lst) \ Nodes(timer_lst'))
              /\ alarm' = TIMESLOT
         ELSE UNCHANGED <<timer_lst, peer, rx, edge, alarm>>
    /\ timeout' = FALSE
    /\ UNCHANGED <<events, stop_server, pipe, backlog>>

Client == \/ Connect \/ Terminate
          \/ \E c \in Conns : \/ Send(c)
                              \/ \E how \in {"ended", "reset"}, kept \in {0, rx[c]} :
                                    Leave(c, how, kept)

Main == \/ EpollWait \/ ReadSignals \/ EndOfBatch
        \/ \E c \in Conns : \/ Accept(c) \/ Receive(c) \/ HangUp(c)

Next == Client \/ Second \/ Main

Spec == Init /\ [][Next]_vars

\* The process runs and time passes; clients owe nothing.
FairSpec == Spec /\ WF_vars(Main) /\ WF_vars(Second)
-----------------------------------------------------------------------------
TypeOK ==
    /\ timer_lst \in [head : Timers \cup {Null}, tail : Timers \cup {Null},
                      prev : [Timers -> Timers \cup {Null}],
                      next : [Timers -> Timers \cup {Null}],
                      expire : [Timers -> 0..Idle \cup {Null}],
                      fate : {"fine", "ruined", "hung"}]
    /\ pcm \in {"wait", "loop", "done"}
    /\ events \subseteq Fds /\ edge \subseteq Fds
    /\ timeout \in BOOLEAN /\ stop_server \in BOOLEAN
    /\ alarm \in 0..TIMESLOT
    /\ pipe \subseteq {"SIGALRM", "SIGTERM"}
    /\ backlog \in 0..Cardinality(Conns)
    /\ rx \in [Conns -> 0..MaxRx]
    /\ peer \in [Conns -> {"none", "open", "ended", "reset"}]

(***************************************************************************)
(* The list is what lst_timer.cpp:36 says, and has a timer for exactly the *)
(* connections that are open.                                              *)
(***************************************************************************)
ListExact ==
    TypeOK /\ (timer_lst.fate = "fine" =>
        /\ SortedDoublyLinked(timer_lst)
        /\ Nodes(timer_lst) = {c \in Conns : peer[c] # "none"})

(***************************************************************************)
(* The alarm chain does not break: unless the server is being stopped, an  *)
(* alarm is set, or its signal is on the way to timer_handler().           *)
(***************************************************************************)
AlarmPending ==
    Running => alarm > 0 \/ ("SIGALRM" \in pipe /\ "pipe" \in edge \cup events) \/ timeout

(***************************************************************************)
(* The server keeps the promise of IdleConnections.                        *)
(***************************************************************************)
Left == [c \in Conns |-> IF peer[c] = "none" THEN Idle + 1 ELSE timer_lst.expire[c]]

Promise == INSTANCE IdleConnections WITH left <- Left, halted <- ~Running

IdleSpec == Promise!Spec

(***************************************************************************)
(* A SIGTERM that sig_handler() has written stops the server in the end,   *)
(* whatever else the pipe and the batch hold (main.cpp:159-162).           *)
(***************************************************************************)
Stops == "SIGTERM" \in pipe ~> ~Running
=============================================================================
