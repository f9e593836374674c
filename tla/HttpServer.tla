----------------------------- MODULE HttpServer -----------------------------
(***************************************************************************)
(* The HTTP server of note 17: one event loop (main.cpp) that accepts,     *)
(* reads and writes, worker threads (ThreadPool) that parse and fill in    *)
(* the reply, and the kernel between them and the clients.  A connection   *)
(* is registered with EPOLLONESHOT, so the event loop and a worker hand it *)
(* to each other through epoll_ctl(MOD) and the work queue, without any    *)
(* lock on the connection itself.                                          *)
(*                                                                         *)
(* Init() clears full_file_ (200 bytes) with the size of the read buffer   *)
(* (2048): it runs over the end of its object and zeroes sockfd_ and the   *)
(* read buffer of the next entry of users[].  If that entry is in use,     *)
(* nothing is said of the server any more: `ruined`.                       *)
(*                                                                         *)
(* Bytes are abstracted to segments of a request and to units of reply:    *)
(* one unit is a status line, headers and a short body, or a file.         *)
(***************************************************************************)
EXTENDS ThreadPool

CONSTANTS ReadBuffer,   \* READ_BUFFER_SIZE, in segments
          WriteBuffer,  \* DEFAULT_WRITE_BUFFER_SIZE, in units
          MAX_FD,       \* the limit on user_count
          MaxRx,        \* segments the kernel buffers for one connection
          MaxBacklog,   \* connections that wait to be accepted
          Segments      \* what the clients send

Conns == Tasks          \* users[fd] for the descriptors accept() can return

ASSUME ServerAssumption == /\ IsFiniteSet(Conns) /\ Conns \subseteq Nat
                           /\ ReadBuffer \in Nat \ {0}
                           /\ WriteBuffer \in Nat /\ WriteBuffer >= 2
                           /\ MAX_FD \in Nat /\ MAX_FD <= Cardinality(Conns)
                           /\ MaxRx \in Nat /\ MaxBacklog \in Nat
                           /\ Segments \subseteq {"part", "last", "stuck"}

VARIABLES mpc,           \* the event loop: in epoll_wait, over a batch, in Write
          cur,           \* the connection whose Write is running
          events,        \* the batch: what is pending on each connection
          listen_event,  \* the batch holds an event of listenfd
          user_count,
          conn,          \* the buffers of each HttpConnection
          interest,      \* epoll: "none" not registered, "off" disarmed
          listen_ready,  \* epoll: an edge on listenfd not yet reported
          backlog,       \* kernel: connections not yet accepted
          rx,            \* kernel: segments received, not yet read
          peer           \* kernel: what the client did to the connection

loopVars == <<mpc, cur, events, listen_event>>
netVars  == <<listen_ready, backlog, rx, peer>>
vars     == <<poolVars, conn, loopVars, netVars, user_count, interest>>

(***************************************************************************)
(* "part" leaves a request unfinished, "last" ends it (or makes it a bad   *)
(* request), and after "stuck" no parse ever ends: ParseLine returned      *)
(* kLineBad, which ProcessRead answers with kNoRequest.                    *)
(***************************************************************************)
Complete(buf) == \E i \in DOMAIN buf : /\ buf[i] = "last"
                                       /\ \A j \in 1..(i - 1) : buf[j] = "part"

\* What ProcessRead may return for what has been read so far.
Codes(buf) == IF Complete(buf)
                THEN {"kBadRequest", "kNoResource", "kForbiddenRequest",
                      "kFileRequest", "kEmptyFile"}
                ELSE {"kNoRequest"}

Init == /\ PoolInit
        /\ mpc = "wait" /\ cur = None
        /\ events = [c \in Conns |-> "none"] /\ listen_event = FALSE
        /\ user_count = 0
        /\ conn = [c \in Conns |-> None]
        /\ interest = [c \in Conns |-> "none"]
        /\ listen_ready = FALSE /\ backlog = 0
        /\ rx = [c \in Conns |-> <<>>]
        /\ peer = [c \in Conns |-> "none"]
-----------------------------------------------------------------------------
(***************************************************************************)
(* The clients and their network.                                          *)
(***************************************************************************)
Connect == /\ ~ruined /\ backlog < MaxBacklog
           /\ backlog' = backlog + 1
           /\ listen_ready' = TRUE
           /\ UNCHANGED <<poolVars, conn, loopVars, rx, peer, user_count, interest>>

Send(c, s) == /\ ~ruined /\ peer[c] = "open" /\ Len(rx[c]) < MaxRx
              /\ rx' = [rx EXCEPT ![c] = Append(@, s)]
              /\ UNCHANGED <<poolVars, conn, loopVars, listen_ready, backlog, peer,
                             user_count, interest>>

\* The client half-closes the connection, or resets it.
Leave(c, how) == /\ ~ruined /\ peer[c] \in {"open", "closed"} /\ peer[c] # how
                 /\ peer' = [peer EXCEPT ![c] = how]
                 /\ UNCHANGED <<poolVars, conn, loopVars, listen_ready, backlog, rx,
                                user_count, interest>>

Client == \/ Connect
          \/ \E c \in Conns : \/ \E s \in Segments : Send(c, s)
                              \/ \E how \in {"closed", "reset"} : Leave(c, how)
-----------------------------------------------------------------------------
(***************************************************************************)
(* Building blocks of the handlers.                                        *)
(***************************************************************************)
Registered(c) == interest[c] # "none"

\* epoll_ctl(MOD) on a descriptor that was closed fails, and nobody looks.
Modfd(int, c, ev) == IF int[c] = "none" THEN int ELSE [int EXCEPT ![c] = ev]

\* Defective variant: Addfd without EPOLLONESHOT.
AfterReportStaysArmed(ev) == ev

\* The reported event disarms the descriptor: EPOLLONESHOT.
AfterReport(ev) == "off"

\* HttpConnection::Init(): the buffers of a connection start over, if the entry
\* behind it is not in use.
Fresh == [read_buff |-> <<>>, write_idx |-> 0, write_sum |-> 0, linger |-> FALSE]

Overruns(c) == \E d \in Conns : d = c + 1 /\ Registered(d)

InitConn(c) == ~Overruns(c) /\ conn' = [conn EXCEPT ![c] = Fresh]

\* Defective variant: user_count_ is not decremented.
CloseConnUncounted(c) ==
    IF Registered(c)
      THEN /\ interest' = [interest EXCEPT ![c] = "none"]
           /\ rx' = [rx EXCEPT ![c] = <<>>]
           /\ peer' = [peer EXCEPT ![c] = "none"]
           /\ conn' = [conn EXCEPT ![c] = None]
           /\ UNCHANGED user_count
      ELSE UNCHANGED <<interest, rx, peer, user_count, conn>>

\* CloseConn: epoll_ctl(DEL), close(), sockfd_ = -1, user_count_--.  What it leaves
\* in the buffers is not told apart (None) and may not be read before Init().
CloseConn(c) ==
    IF Registered(c)
      THEN /\ interest' = [interest EXCEPT ![c] = "none"]
           /\ rx' = [rx EXCEPT ![c] = <<>>]
           /\ peer' = [peer EXCEPT ![c] = "none"]
           /\ user_count' = user_count - 1
           /\ conn' = [conn EXCEPT ![c] = None]
      ELSE UNCHANGED <<interest, rx, peer, user_count, conn>>

(***************************************************************************)
(* ProcessWrite puts the reply behind what write_buff already holds.  It   *)
(* fails when AddContent finds the buffer full; only a file, for which the *)
(* buffer grows, always fits.  kFileRequest with an empty file has no      *)
(* break: the 500 reply of kInternalError follows the 200 reply.           *)
(***************************************************************************)
Units(code) == IF code \in {"kFileRequest", "kEmptyFile"} THEN 2 ELSE 1

ProcessWrite(code, sum) == code = "kFileRequest" \/ sum + Units(code) <= WriteBuffer
-----------------------------------------------------------------------------
(***************************************************************************)
(* The event loop.                                                         *)
(***************************************************************************)
\* The event epoll has for c, if any; EPOLLRDHUP, EPOLLHUP and EPOLLERR are
\* looked at first by the loop, whatever else is set.
Pending(c) == IF interest[c] \notin {"IN", "OUT"} THEN "none"
              ELSE IF peer[c] # "open" THEN "HUP"
              ELSE IF interest[c] = "OUT" THEN "OUT"
              ELSE IF rx[c] # <<>> THEN "IN" ELSE "none"

\* epoll_wait returns some of what is pending.  A connection whose peer does not
\* read is not writable, so an OUT event may stay away.
EpollWait(C, l) ==
    /\ ~ruined /\ mpc = "wait"
    /\ l => listen_ready
    /\ l \/ C # {}
    /\ \A c \in C : Pending(c) # "none"
    /\ mpc' = "loop"
    /\ events' = [c \in Conns |-> IF c \in C THEN Pending(c) ELSE events[c]]
    /\ interest' = [c \in Conns |-> IF c \in C THEN AfterReport(interest[c])
                                               ELSE interest[c]]
    /\ listen_event' = l
    /\ listen_ready' = (listen_ready /\ ~l)
    /\ UNCHANGED <<poolVars, conn, cur, backlog, rx, peer, user_count>>

InLoop == ~ruined /\ mpc = "loop" /\ append = "idle"

\* Defective variant: the for loop over the events stops one short.
EndOfBatchShort == /\ InLoop /\ ~listen_event
                   /\ Cardinality({c \in Conns : events[c] # "none"}) <= 1
                   /\ mpc' = "wait"
                   /\ UNCHANGED <<poolVars, conn, cur, events, listen_event, netVars,
                                  user_count, interest>>

EndOfBatch == /\ InLoop /\ ~listen_event
              /\ \A c \in Conns : events[c] = "none"
              /\ mpc' = "wait"
              /\ UNCHANGED <<poolVars, conn, cur, events, listen_event, netVars,
                             user_count, interest>>

CanAccept(c) == /\ InLoop /\ listen_event /\ backlog > 0 /\ user_count < MAX_FD
                /\ ~Registered(c)

\* Defective variant: the new connection keeps the buffers of the last one.
AcceptConnStale(c) ==
    /\ CanAccept(c)
    /\ interest' = [interest EXCEPT ![c] = "IN"]
    /\ peer' = [peer EXCEPT ![c] = "open"]
    /\ user_count' = user_count + 1
    /\ backlog' = backlog - 1
    /\ listen_event' = FALSE
    /\ UNCHANGED <<poolVars, conn, mpc, cur, events, listen_ready, rx>>

\* accept() gives the descriptor of a free users[] entry, which is initialised
\* and registered.
AcceptConn(c) ==
    /\ CanAccept(c)
    /\ interest' = [interest EXCEPT ![c] = "IN"]
    /\ peer' = [peer EXCEPT ![c] = "open"]
    /\ user_count' = user_count + 1
    /\ InitConn(c)
    /\ backlog' = backlog - 1
    /\ listen_event' = FALSE
    /\ UNCHANGED <<poolVars, mpc, cur, events, listen_ready, rx>>

\* accept() fails, with the client gone or for want of descriptors; or it
\* succeeds with the server full, and show_error closes the connection.
AcceptNone(b) ==
    /\ InLoop /\ listen_event
    /\ b \in {backlog, backlog - 1} \cap Nat
    /\ backlog' = b
    /\ listen_event' = FALSE
    /\ UNCHANGED <<poolVars, conn, mpc, cur, events, listen_ready, rx, peer,
                   user_count, interest>>

Handle(c, ev) == /\ InLoop /\ events[c] = ev
                 /\ events' = [events EXCEPT ![c] = "none"]
                 /\ UNCHANGED <<listen_event, listen_ready, backlog>>

HandleHup(c) == /\ Handle(c, "HUP")
                /\ CloseConn(c)
                /\ UNCHANGED <<poolVars, mpc, cur>>

\* Read drains the socket until EAGAIN and fails on a reset, on end of file and
\* when the buffer fills up, since recv() with no room left returns 0.
ReadFails(c) == \/ Len(conn[c].read_buff) + Len(rx[c]) >= ReadBuffer
                \/ peer[c] # "open"

HandleRead(c) == /\ Handle(c, "IN") /\ ~ReadFails(c)
                 /\ conn' = [conn EXCEPT ![c].read_buff = @ \o rx[c]]
                 /\ rx' = [rx EXCEPT ![c] = <<>>]
                 /\ AppendCall(c)
                 /\ UNCHANGED <<mpc, cur, peer, user_count, interest>>

HandleReadFails(c) == /\ Handle(c, "IN") /\ ReadFails(c)
                      /\ CloseConn(c)
                      /\ UNCHANGED <<poolVars, mpc, cur>>

\* Write() with nothing to send starts the connection over; else it enters its
\* loop.
HandleWrite(c) ==
    /\ Handle(c, "OUT")
    /\ IF conn[c].write_sum = conn[c].write_idx
         THEN /\ InitConn(c)
              /\ interest' = Modfd(interest, c, "IN")
              /\ UNCHANGED <<mpc, cur>>
         ELSE /\ mpc' = "write" /\ cur' = c
              /\ UNCHANGED <<conn, interest>>
    /\ UNCHANGED <<poolVars, rx, peer, user_count>>

(***************************************************************************)
(* Write, one send() of its loop.  Whatever errno says but EAGAIN, the     *)
(* loop adds the -1 to write_idx and goes round again: its endless descent *)
(* is followed down to -Descent.                                           *)
(***************************************************************************)
Descent == 1

InWrite == ~ruined /\ mpc = "write"

WriteSome(n) == /\ InWrite /\ peer[cur] # "reset"
                /\ n \in 1..(conn[cur].write_sum - conn[cur].write_idx - 1)
                /\ conn' = [conn EXCEPT ![cur].write_idx = @ + n]
                /\ UNCHANGED <<poolVars, loopVars, netVars, user_count, interest>>

\* Defective variant: Write returns on EAGAIN without arming EPOLLOUT.
WriteFullForgets == /\ InWrite /\ peer[cur] # "reset"
                    /\ mpc' = "loop" /\ cur' = None
                    /\ UNCHANGED <<poolVars, conn, events, listen_event, netVars,
                                   user_count, interest>>

WriteFull == /\ InWrite /\ peer[cur] # "reset"
             /\ interest' = Modfd(interest, cur, "OUT")
             /\ mpc' = "loop" /\ cur' = None
             /\ UNCHANGED <<poolVars, conn, events, listen_event, netVars, user_count>>

WriteFails == /\ InWrite /\ peer[cur] = "reset" /\ conn[cur].write_idx > -Descent
              /\ conn' = [conn EXCEPT ![cur].write_idx = @ - 1]
              /\ UNCHANGED <<poolVars, loopVars, netVars, user_count, interest>>

CanLinger == InWrite /\ peer[cur] # "reset" /\ conn[cur].linger

\* Defective variant: a kept connection goes on without Init().
WriteLingerNoInit == /\ CanLinger
                     /\ conn' = [conn EXCEPT ![cur].write_idx = conn[cur].write_sum]
                     /\ interest' = Modfd(interest, cur, "IN")
                     /\ mpc' = "loop" /\ cur' = None
                     /\ UNCHANGED <<poolVars, events, listen_event, netVars, user_count>>

\* The last byte is out: keep the connection for the next request, or close it.
WriteLinger == /\ CanLinger
               /\ InitConn(cur)
               /\ interest' = Modfd(interest, cur, "IN")
               /\ mpc' = "loop" /\ cur' = None
               /\ UNCHANGED <<poolVars, events, listen_event, netVars, user_count>>

WriteClose == /\ InWrite /\ peer[cur] # "reset" /\ ~conn[cur].linger
              /\ CloseConn(cur)
              /\ mpc' = "loop" /\ cur' = None
              /\ UNCHANGED <<poolVars, events, listen_event, listen_ready, backlog>>

\* Init() of a connection whose neighbour in users[] is in use.
InitCalled(c) == \/ CanAccept(c)
                 \/ CanLinger /\ cur = c
                 \/ /\ InLoop /\ events[c] = "OUT"
                    /\ conn[c].write_sum = conn[c].write_idx

Overrun(c) == /\ InitCalled(c) /\ Overruns(c)
              /\ Ruin
              /\ UNCHANGED <<conn, loopVars, netVars, user_count, interest>>

Main == \/ \E C \in SUBSET Conns, l \in BOOLEAN : EpollWait(C, l)
        \/ \E c \in Conns : \/ AcceptConn(c) \/ HandleHup(c)
                            \/ HandleRead(c) \/ HandleReadFails(c)
                            \/ HandleWrite(c) \/ Overrun(c)
        \/ \E b \in 0..MaxBacklog : AcceptNone(b)
        \/ \E n \in 1..WriteBuffer : WriteSome(n)
        \/ WriteFull \/ WriteFails \/ WriteLinger \/ WriteClose
        \/ EndOfBatch
        \/ (AppendPush \/ AppendPost)
           /\ UNCHANGED <<conn, loopVars, netVars, user_count, interest>>
-----------------------------------------------------------------------------
(***************************************************************************)
(* A worker: HttpConnection::Process on the connection it took.  Nothing   *)
(* of the connection is touched after Modfd has handed it back.            *)
(***************************************************************************)
Process(w) ==
    LET c == request[w]
        sum == conn[c].write_sum IN
    /\ Finish(w)
    /\ \E code \in Codes(conn[c].read_buff), keep \in BOOLEAN :
         IF code = "kNoRequest"
           THEN /\ interest' = Modfd(interest, c, "IN")
                /\ UNCHANGED <<conn, rx, peer, user_count>>
         ELSE IF ProcessWrite(code, sum)
           THEN /\ conn' = [conn EXCEPT ![c] = [@ EXCEPT !.write_sum = sum + Units(code),
                                                        !.linger = keep]]
                /\ interest' = Modfd(interest, c, "OUT")
                /\ UNCHANGED <<rx, peer, user_count>>
         ELSE CloseConn(c)
    /\ UNCHANGED <<loopVars, listen_ready, backlog>>

AtQueue(w) == /\ Wait(w) \/ Lock(w) \/ Pop(w)
              /\ UNCHANGED <<conn, loopVars, netVars, user_count, interest>>

Worker(w) == AtQueue(w) \/ Process(w)

QueueRace(w) == /\ Race(w)
                /\ UNCHANGED <<conn, loopVars, netVars, user_count, interest>>

Next == \/ Client
        \/ Main
        \/ \E w \in Workers : Worker(w) \/ QueueRace(w)

(***************************************************************************)
(* The operating system runs every thread that can run; the clients owe    *)
(* nothing.                                                                *)
(***************************************************************************)
Fairness == WF_vars(Main) /\ \A w \in Workers : WF_vars(Worker(w))

Spec == Init /\ [][Next]_vars

FairSpec == Spec /\ Fairness
-----------------------------------------------------------------------------
HttpConnection == [read_buff : Seq(Segments), write_idx : Int, write_sum : Nat,
                   linger : BOOLEAN]

ServerTypeOK ==
    /\ mpc \in {"wait", "loop", "write"}
    /\ cur \in Conns \cup {None}
    /\ events \in [Conns -> {"none", "HUP", "IN", "OUT"}]
    /\ listen_event \in BOOLEAN /\ listen_ready \in BOOLEAN
    /\ user_count \in Int
    /\ conn \in [Conns -> {None} \cup HttpConnection]
    /\ \A c \in Conns : Registered(c) => conn[c] \in HttpConnection
    /\ interest \in [Conns -> {"none", "off", "IN", "OUT"}]
    /\ backlog \in 0..MaxBacklog
    /\ rx \in [Conns -> Seq(Segments)]
    /\ peer \in [Conns -> {"none", "open", "closed", "reset"}]

TypeOK == PoolTypeOK /\ ServerTypeOK

(***************************************************************************)
(* Where a connection can be.                                              *)
(***************************************************************************)
InKernel(c) == interest[c] \in {"IN", "OUT"}
AtLoop(c)   == events[c] # "none" \/ cur = c \/ (append = "push" /\ work = c)
InQueue(c)  == \E i \in DOMAIN work_queue : work_queue[i] = c
AtWorker(c) == \E w \in Workers : request[w] = c

(***************************************************************************)
(* No HttpConnection has a lock, and Read, Process, Write and CloseConn    *)
(* run on two kinds of threads.  A registered connection has exactly one   *)
(* holder (armed in the kernel, one event or call of the loop, one entry   *)
(* of the queue, one worker), and a closed one has none: it is never       *)
(* touched by two threads, never queued twice, and never forgotten with    *)
(* its descriptor disarmed.                                                *)
(***************************************************************************)
Holders(c) ==
    (IF InKernel(c) THEN {<<"kernel">>} ELSE {})
    \cup (IF events[c] # "none" THEN {<<"event">>} ELSE {})
    \cup (IF cur = c THEN {<<"write">>} ELSE {})
    \cup (IF append = "push" /\ work = c THEN {<<"append">>} ELSE {})
    \cup {<<"queue", i>> : i \in {j \in DOMAIN work_queue : work_queue[j] = c}}
    \cup {<<"worker", w>> : w \in {v \in Workers : request[v] = c}}

OneHolder == \A c \in Conns :
    IF Registered(c) THEN \E h \in Holders(c) : Holders(c) = {h}
                     ELSE Holders(c) = {}

(***************************************************************************)
(* user_count is a plain static int that any CloseConn decrements.  It     *)
(* still counts the open connections, since every close is the loop's.     *)
(***************************************************************************)
UserCountExact == user_count = Cardinality({c \in Conns : Registered(c)})

(***************************************************************************)
(* Init() and Process share the buffers of a connection over its keep-     *)
(* alive requests.  Unless it has hung up, a connection that is sending    *)
(* (armed for EPOLLOUT, reported writable, or in Write) has something left *)
(* of a reply to a request that was read entirely, and any other one has   *)
(* nothing of an earlier reply.                                            *)
(***************************************************************************)
Replying(c) == interest[c] = "OUT" \/ events[c] = "OUT" \/ cur = c

ReplyMatchesRequest == \A c \in Conns : Registered(c) /\ events[c] # "HUP" =>
    IF Replying(c)
      THEN conn[c].write_idx < conn[c].write_sum /\ Complete(conn[c].read_buff)
      ELSE conn[c].write_idx = 0 /\ conn[c].write_sum = 0

\* A worker never closes a connection: the reply of one request always fits.
OnlyLoopCloses ==
    [][(\E c \in Conns : Registered(c) /\ ~Registered(c)') => UNCHANGED pc]_vars

(***************************************************************************)
(* The event loop gets through its batch: an event it was given is handled *)
(* in the end, unless Write spins on a connection that was reset.          *)
(***************************************************************************)
Spinning == mpc = "write" /\ peer[cur] = "reset"

EventHandled == \A c \in Conns :
    (events[c] # "none") ~> (events[c] = "none" \/ Spinning \/ ruined)

(***************************************************************************)
(* The server keeps the promise of ConnLifecycle.                          *)
(***************************************************************************)
Owner == [c \in Conns |-> IF ~Registered(c) THEN "none"
                          ELSE IF InKernel(c) THEN "kernel"
                          ELSE IF AtLoop(c) THEN "loop"
                          ELSE IF InQueue(c) THEN "queue"
                          ELSE "worker"]

Lifecycle == INSTANCE ConnLifecycle WITH owner <- Owner, halted <- ruined

LifecycleSpec == Lifecycle!Spec
=============================================================================
