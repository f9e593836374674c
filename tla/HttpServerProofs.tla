-------------------------- MODULE HttpServerProofs --------------------------
(***************************************************************************)
(* The HTTP server and its thread pool, for any number of connections,     *)
(* tasks and workers: the invariants of the pool; the server uses the pool *)
(* only through its operations, every connection has one holder, and what  *)
(* that is good for: the buffers of a connection match the request it is   *)
(* serving, user_count is exact, workers never close, and the server       *)
(* implements ConnLifecycle.                                               *)
(***************************************************************************)
EXTENDS HttpServer, FiniteSetTheorems, TLAPS

(***************************************************************************)
(* The invariants of ThreadPool.                                           *)
(***************************************************************************)
PoolInv == PoolTypeOK /\ MutexHeld /\ PermitPerTask

(***************************************************************************)
(* How the set of admitted workers grows and shrinks, which PermitPerTask  *)
(* counts.                                                                 *)
(***************************************************************************)
LEMMA AdmittedFinite == IsFiniteSet(Admitted) /\ Cardinality(Admitted) \in Nat
BY PoolAssumption, FS_Subset, FS_CardinalityType DEF Admitted

LEMMA AdmittedGrows ==
    ASSUME PoolTypeOK, NEW w \in Workers, pc[w] = "wait",
           pc' = [pc EXCEPT ![w] = "lock"]
    PROVE  Cardinality(Admitted') = Cardinality(Admitted) + 1
<1>1. Admitted' = Admitted \cup {w}
  BY DEF Admitted, PoolTypeOK
<1>2. w \notin Admitted
  BY DEF Admitted
<1> QED BY <1>1, <1>2, AdmittedFinite, FS_AddElement

LEMMA AdmittedShrinks ==
    ASSUME PoolTypeOK, NEW w \in Workers, NEW at, pc[w] = "pop",
           at \in {"wait", "process"}, pc' = [pc EXCEPT ![w] = at]
    PROVE  Cardinality(Admitted') = Cardinality(Admitted) - 1
<1>1. Admitted' = Admitted \ {w}
  BY DEF Admitted, PoolTypeOK
<1>2. w \in Admitted
  BY DEF Admitted
<1> QED BY <1>1, <1>2, AdmittedFinite, FS_RemoveElement

LEMMA AdmittedSame ==
    ASSUME PoolTypeOK, NEW w \in Workers, NEW at,
           \/ pc[w] = "lock" /\ at = "pop"
           \/ pc[w] = "process" /\ at = "wait",
           pc' = [pc EXCEPT ![w] = at]
    PROVE  Admitted' = Admitted
BY DEF Admitted, PoolTypeOK

LEMMA PoolInit_Inv == PoolInit => PoolInv
<1> SUFFICES ASSUME PoolInit PROVE PoolInv
  OBVIOUS
<1>1. PoolTypeOK
  <2>1. work_queue \in Seq(Tasks) /\ queuestat \in Nat
    BY DEF PoolInit
  <2>2. pc \in [Workers -> {"wait", "lock", "pop", "process"}]
    BY DEF PoolInit
  <2>3. request \in [Workers -> Tasks \cup {None}]
    BY DEF PoolInit
  <2>4. \A w \in Workers : request[w] \in Tasks <=> pc[w] = "process"
    BY PoolAssumption DEF PoolInit
  <2> QED BY <2>1, <2>2, <2>3, <2>4, PoolAssumption DEF PoolInit, PoolTypeOK
<1>2. MutexHeld
  BY PoolAssumption DEF PoolInit, MutexHeld
<1>3. Admitted = {}
  BY DEF PoolInit, Admitted
<1>4. PermitPerTask
  BY <1>3, FS_EmptySet DEF PoolInit, PermitPerTask
<1> QED BY <1>1, <1>2, <1>4 DEF PoolInv

(***************************************************************************)
(* One lemma for the steps of the event loop in Append and one for those   *)
(* of a worker.                                                            *)
(***************************************************************************)
LEMMA Append_Inv ==
    ASSUME PoolInv, (\E t \in Tasks : AppendCall(t)) \/ AppendPush \/ AppendPost
    PROVE  PoolInv'
<1> USE DEF PoolInv
<1>0. Cardinality(Admitted) \in Nat /\ Admitted' = Admitted
  BY AdmittedFinite DEF Admitted, AppendCall, AppendPush, AppendPost
<1>1. PoolTypeOK'
  <2>1. CASE \E t \in Tasks : AppendCall(t)
    BY <2>1, PoolAssumption DEF PoolTypeOK, AppendCall
  <2>2. CASE AppendPush
    BY <2>2, PoolAssumption DEF PoolTypeOK, AppendPush
  <2>3. CASE AppendPost
    BY <2>3, PoolAssumption DEF PoolTypeOK, AppendPost
  <2> QED BY <2>1, <2>2, <2>3
<1>2. MutexHeld'
  BY DEF MutexHeld, AppendCall, AppendPush, AppendPost
<1>3. PermitPerTask'
  <2>1. CASE \E t \in Tasks : AppendCall(t)
    BY <1>0, <2>1 DEF PermitPerTask, AppendCall
  <2>2. CASE AppendPush
    <3>1. Len(work_queue') = Len(work_queue) + 1
      BY <2>2 DEF AppendPush, PoolTypeOK
    <3> QED BY <1>0, <2>2, <3>1 DEF PermitPerTask, AppendPush, PoolTypeOK
  <2>3. CASE AppendPost
    BY <1>0, <2>3 DEF PermitPerTask, AppendPost, PoolTypeOK
  <2> QED BY <2>1, <2>2, <2>3
<1> QED BY <1>1, <1>2, <1>3

LEMMA Worker_Inv ==
    ASSUME PoolInv, NEW w \in Workers,
           Wait(w) \/ Lock(w) \/ Pop(w) \/ Finish(w)
    PROVE  PoolInv'
<1> USE DEF PoolInv
<1>0. Cardinality(Admitted) \in Nat
  BY AdmittedFinite
<1>1. CASE Wait(w)
  <2>1. PoolTypeOK' /\ MutexHeld'
    BY <1>1 DEF Wait, PoolTypeOK, MutexHeld
  <2>2. Cardinality(Admitted') = Cardinality(Admitted) + 1
    BY <1>1, AdmittedGrows DEF Wait
  <2>3. PermitPerTask'
    BY <1>0, <1>1, <2>2 DEF Wait, PermitPerTask, PoolTypeOK
  <2> QED BY <2>1, <2>3
<1>2. CASE Lock(w)
  <2>1. PoolTypeOK' /\ MutexHeld'
    BY <1>2, PoolAssumption DEF Lock, PoolTypeOK, MutexHeld
  <2>2. PermitPerTask'
    BY <1>2, AdmittedSame DEF Lock, PermitPerTask
  <2> QED BY <2>1, <2>2
<1>3. CASE Pop(w)
  <2>1. CASE work_queue = <<>>
    <3>1. pc' = [pc EXCEPT ![w] = "wait"]
      BY <1>3, <2>1 DEF Pop
    <3>2. PoolTypeOK'
      BY <1>3, <2>1 DEF Pop, PoolTypeOK
    <3>3. MutexHeld'
      BY <1>3, <3>1, PoolAssumption DEF Pop, PoolTypeOK, MutexHeld
    <3>4. PermitPerTask'
      <4>1. w \in Admitted
        BY <1>3 DEF Pop, Admitted
      <4>2. Cardinality(Admitted) >= 1
        BY <4>1, <1>0, AdmittedFinite, FS_EmptySet
      <4>3. Len(work_queue) = 0
        BY <2>1
      <4> QED BY <1>0, <4>2, <4>3 DEF PermitPerTask, PoolTypeOK
    <3> QED BY <3>2, <3>3, <3>4
  <2>2. CASE work_queue # <<>>
    <3>1. /\ pc' = [pc EXCEPT ![w] = "process"]
          /\ work_queue' = Tail(work_queue)
          /\ request' = [request EXCEPT ![w] = Head(work_queue)]
      BY <1>3, <2>2 DEF Pop
    <3>2. /\ Head(work_queue) \in Tasks
          /\ Tail(work_queue) \in Seq(Tasks)
          /\ Len(Tail(work_queue)) = Len(work_queue) - 1
      BY <2>2 DEF PoolTypeOK
    <3>3. PoolTypeOK'
      BY <1>3, <3>1, <3>2 DEF Pop, PoolTypeOK
    <3>4. MutexHeld'
      BY <1>3, <3>1, PoolAssumption DEF Pop, PoolTypeOK, MutexHeld
    <3>5. Cardinality(Admitted') = Cardinality(Admitted) - 1
      BY <1>3, <3>1, AdmittedShrinks DEF Pop
    <3>6. PermitPerTask'
      BY <1>0, <1>3, <3>1, <3>2, <3>5 DEF Pop, PermitPerTask, PoolTypeOK
    <3> QED BY <3>3, <3>4, <3>6
  <2> QED BY <2>1, <2>2
<1>4. CASE Finish(w)
  <2>1. PoolTypeOK' /\ MutexHeld'
    BY <1>4, PoolAssumption DEF Finish, PoolTypeOK, MutexHeld
  <2>2. PermitPerTask'
    BY <1>4, AdmittedSame DEF Finish, PermitPerTask
  <2> QED BY <2>1, <2>2
<1> QED BY <1>1, <1>2, <1>3, <1>4

LEMMA Ruin_Inv == PoolInv /\ Ruin => PoolInv'
BY DEF Ruin, PoolInv, PoolTypeOK, MutexHeld, PermitPerTask, Admitted

LEMMA PoolNext_Inv == PoolInv /\ [PoolNext]_poolVars => PoolInv'
<1> SUFFICES ASSUME PoolInv, [PoolNext]_poolVars PROVE PoolInv'
  OBVIOUS
<1>1. CASE PoolNext
  BY <1>1, Append_Inv, Worker_Inv, Ruin_Inv DEF PoolNext
<1>2. CASE UNCHANGED poolVars
  BY <1>2 DEF poolVars, PoolInv, PoolTypeOK, MutexHeld, PermitPerTask, Admitted
<1> QED BY <1>1, <1>2

(***************************************************************************)
(* Whoever uses the pool only through its operations keeps its types, has  *)
(* the mutex held by the one worker at the queue, and has a permit for     *)
(* every queued task.                                                      *)
(***************************************************************************)
THEOREM PoolInvariance == PoolSpec => []PoolInv
BY PoolInit_Inv, PoolNext_Inv, PTL DEF PoolSpec

(***************************************************************************)
(* A worker that gets to the queue finds a task there: the `continue` of   *)
(* threadpool.cpp:62-66 never runs.                                        *)
(***************************************************************************)
THEOREM WokenWorkerFindsTask ==
    PoolSpec => [](\A w \in Workers : pc[w] = "pop" => work_queue # <<>>)
<1>1. ASSUME PoolInv, NEW w \in Workers, pc[w] = "pop"
      PROVE  work_queue # <<>>
  <2>1. w \in Admitted
    BY <1>1 DEF Admitted
  <2>2. Cardinality(Admitted) \in Nat /\ Cardinality(Admitted) >= 1
    BY <2>1, AdmittedFinite, FS_EmptySet
  <2>3. Len(work_queue) >= 1
    BY <1>1, <2>2 DEF PoolInv, PoolTypeOK, PermitPerTask
  <2> QED BY <2>3
<1>2. PoolInv => \A w \in Workers : pc[w] = "pop" => work_queue # <<>>
  BY <1>1
<1> QED BY <1>2, PoolInvariance, PTL
-----------------------------------------------------------------------------
(***************************************************************************)
(* Every step of the server is a step of the pool or leaves it alone.      *)
(***************************************************************************)
LEMMA Step_Pool == [Next]_vars => [PoolNext]_poolVars
<1> SUFFICES ASSUME [Next]_vars PROVE [PoolNext]_poolVars
  OBVIOUS
<1>1. CASE Client
  BY <1>1 DEF Client, Connect, Send, Leave
<1>2. CASE Main
  <2>1. ASSUME NEW c \in Conns, HandleRead(c) PROVE PoolNext
    BY <2>1 DEF HandleRead, PoolNext, Conns
  <2>2. ASSUME NEW c \in Conns, AcceptConn(c) \/ HandleHup(c) \/ HandleReadFails(c)
                                \/ HandleWrite(c)
        PROVE  UNCHANGED poolVars
    BY <2>2 DEF AcceptConn, HandleHup, HandleReadFails, HandleWrite
  <2>3. ASSUME NEW C \in SUBSET Conns, NEW l \in BOOLEAN, EpollWait(C, l)
        PROVE  UNCHANGED poolVars
    BY <2>3 DEF EpollWait
  <2>4. ASSUME NEW n, WriteSome(n) \/ AcceptNone(n) PROVE UNCHANGED poolVars
    BY <2>4 DEF WriteSome, AcceptNone
  <2>5. ASSUME WriteFull \/ WriteFails \/ WriteLinger \/ WriteClose \/ EndOfBatch
        PROVE  UNCHANGED poolVars
    BY <2>5 DEF WriteFull, WriteFails, WriteLinger, WriteClose, EndOfBatch
  <2>6. ASSUME AppendPush \/ AppendPost PROVE PoolNext
    BY <2>6 DEF PoolNext
  <2>7. ASSUME NEW c \in Conns, Overrun(c) PROVE PoolNext
    BY <2>7 DEF Overrun, PoolNext
  <2> QED BY <1>2, <2>1, <2>2, <2>3, <2>4, <2>5, <2>6, <2>7 DEF Main
<1>3. ASSUME NEW w \in Workers, Worker(w) \/ QueueRace(w) PROVE PoolNext
  BY <1>3 DEF Worker, AtQueue, Process, QueueRace, Race, PoolNext
<1>4. CASE UNCHANGED vars
  BY <1>4 DEF vars
<1> QED BY <1>1, <1>2, <1>3, <1>4 DEF Next

(***************************************************************************)
(* The server is a correct user of the pool.                               *)
(***************************************************************************)
THEOREM ServerUsesPool == Spec => PoolSpec
<1>1. Init => PoolInit
  BY DEF Init
<1> QED BY <1>1, Step_Pool, PTL DEF Spec, PoolSpec

(***************************************************************************)
(* In the server too every queued connection has its permit: none is left  *)
(* in the queue with all workers asleep (threadpool.h:18,                  *)
(* threadpool.cpp:59-69).                                                  *)
(***************************************************************************)
THEOREM PermitsInServer == Spec => []PermitPerTask
<1>1. PoolInv => PermitPerTask
  BY DEF PoolInv
<1> QED BY <1>1, ServerUsesPool, PoolInvariance, PTL
-----------------------------------------------------------------------------
(***************************************************************************)
(* The inductive invariant: OneHolder spelt out place by place, and how    *)
(* the control of the event loop fits with it.                             *)
(***************************************************************************)
Fetched(c)   == events[c] # "none"
Appending(c) == append = "push" /\ work = c

Held(c) == \/ InKernel(c) \/ Fetched(c) \/ cur = c
           \/ Appending(c) \/ InQueue(c) \/ AtWorker(c)

HeldIffOpen == \A c \in Conns : Registered(c) <=> Held(c)

OnePlace == \A c \in Conns :
    /\ InKernel(c) => ~(Fetched(c) \/ cur = c \/ Appending(c) \/ InQueue(c) \/ AtWorker(c))
    /\ Fetched(c) => ~(cur = c \/ Appending(c) \/ InQueue(c) \/ AtWorker(c))
    /\ cur = c => ~(Appending(c) \/ InQueue(c) \/ AtWorker(c))
    /\ Appending(c) => ~(InQueue(c) \/ AtWorker(c))
    /\ InQueue(c) => ~AtWorker(c)

OncePerPlace ==
    /\ \A i, j \in DOMAIN work_queue : work_queue[i] = work_queue[j] => i = j
    /\ \A v, w \in Workers : request[v] = request[w] /\ request[v] \in Conns => v = w

LoopShape ==
    /\ cur \in Conns <=> mpc = "write"
    /\ append # "idle" => mpc = "loop"
    /\ mpc = "wait" => \A c \in Conns : events[c] = "none"

Exclusive == HeldIffOpen /\ OnePlace /\ OncePerPlace

HolderInv == PoolInv /\ ServerTypeOK /\ LoopShape /\ Exclusive

(***************************************************************************)
(* Type correctness, by kind of step.                                      *)
(***************************************************************************)
LEMMA TypeInit == Init => ServerTypeOK
<1> SUFFICES ASSUME Init PROVE ServerTypeOK
  OBVIOUS
<1>1. /\ events \in [Conns -> {"none", "HUP", "IN", "OUT"}]
      /\ interest \in [Conns -> {"none", "off", "IN", "OUT"}]
      /\ peer \in [Conns -> {"none", "open", "closed", "reset"}]
      /\ rx \in [Conns -> Seq(Segments)]
      /\ conn \in [Conns -> {None} \cup HttpConnection]
  BY DEF Init
<1>2. \A c \in Conns : Registered(c) => conn[c] \in HttpConnection
  BY DEF Init, Registered
<1>3. /\ mpc \in {"wait", "loop", "write"} /\ cur \in Conns \cup {None}
      /\ user_count \in Int /\ backlog \in 0..MaxBacklog
  BY ServerAssumption DEF Init
<1>4. listen_event \in BOOLEAN /\ listen_ready \in BOOLEAN
  BY DEF Init
<1> QED BY <1>1, <1>2, <1>3, <1>4 DEF ServerTypeOK

LEMMA TypeClient == ServerTypeOK /\ Client => ServerTypeOK'
<1> SUFFICES ASSUME ServerTypeOK, Client PROVE ServerTypeOK'
  OBVIOUS
<1>1. CASE Connect
  BY <1>1, ServerAssumption DEF ServerTypeOK, Connect, loopVars, Registered
<1>2. ASSUME NEW c \in Conns, NEW s \in Segments, Send(c, s) PROVE ServerTypeOK'
  BY <1>2 DEF ServerTypeOK, Send, loopVars, Registered
<1>3. ASSUME NEW c \in Conns, NEW how \in {"closed", "reset"}, Leave(c, how)
      PROVE  ServerTypeOK'
  BY <1>3 DEF ServerTypeOK, Leave, loopVars, Registered
<1> QED BY <1>1, <1>2, <1>3 DEF Client

LEMMA TypeClose ==
    ASSUME ServerTypeOK, NEW c \in Conns, CloseConn(c)
    PROVE  /\ user_count' \in Int
           /\ conn' \in [Conns -> {None} \cup HttpConnection]
           /\ \A d \in Conns : Registered(d)' => conn'[d] \in HttpConnection
           /\ interest' \in [Conns -> {"none", "off", "IN", "OUT"}]
           /\ rx' \in [Conns -> Seq(Segments)]
           /\ peer' \in [Conns -> {"none", "open", "closed", "reset"}]
<1>1. CASE Registered(c)
  <2>1. /\ interest' = [interest EXCEPT ![c] = "none"]
        /\ rx' = [rx EXCEPT ![c] = <<>>]
        /\ peer' = [peer EXCEPT ![c] = "none"]
        /\ user_count' = user_count - 1
        /\ conn' = [conn EXCEPT ![c] = None]
    BY <1>1 DEF CloseConn
  <2>2. rx' \in [Conns -> Seq(Segments)]
    BY <2>1 DEF ServerTypeOK
  <2>3. conn' \in [Conns -> {None} \cup HttpConnection]
    BY <2>1 DEF ServerTypeOK
  <2>4. \A d \in Conns : Registered(d)' => conn'[d] \in HttpConnection
    BY <2>1 DEF ServerTypeOK, Registered
  <2> QED BY <2>1, <2>2, <2>3, <2>4 DEF ServerTypeOK
<1>2. CASE ~Registered(c)
  BY <1>2 DEF ServerTypeOK, CloseConn, Registered
<1> QED BY <1>1, <1>2

\* The buffers of c get a new value, and at most c becomes registered.
LEMMA TypeConn ==
    ASSUME ServerTypeOK, NEW c \in Conns, NEW h \in HttpConnection,
           conn' = [conn EXCEPT ![c] = h],
           \A d \in Conns \ {c} : interest'[d] = interest[d]
    PROVE  /\ conn' \in [Conns -> {None} \cup HttpConnection]
           /\ \A d \in Conns : Registered(d)' => conn'[d] \in HttpConnection
BY DEF ServerTypeOK, Registered

LEMMA TypeFresh == Fresh \in HttpConnection
BY DEF Fresh, HttpConnection

LEMMA TypeModfd ==
    ASSUME ServerTypeOK, NEW c \in Conns, NEW ev \in {"IN", "OUT"}
    PROVE  /\ Modfd(interest, c, ev) \in [Conns -> {"none", "off", "IN", "OUT"}]
           /\ \A d \in Conns : Modfd(interest, c, ev)[d] = "none" <=> interest[d] = "none"
           /\ \A d \in Conns \ {c} : Modfd(interest, c, ev)[d] = interest[d]
BY DEF ServerTypeOK, Modfd

LEMMA TypeAccept ==
    ASSUME ServerTypeOK, NEW c \in Conns, AcceptConn(c)
    PROVE  ServerTypeOK'
<1>1. /\ conn' \in [Conns -> {None} \cup HttpConnection]
      /\ \A d \in Conns : Registered(d)' => conn'[d] \in HttpConnection
  <2>1. \A d \in Conns \ {c} : interest'[d] = interest[d]
    BY DEF AcceptConn, ServerTypeOK
  <2> QED BY <2>1, TypeFresh, TypeConn DEF AcceptConn, InitConn
<1>2. /\ interest' \in [Conns -> {"none", "off", "IN", "OUT"}]
      /\ peer' \in [Conns -> {"none", "open", "closed", "reset"}]
  BY DEF AcceptConn, ServerTypeOK
<1>3. user_count' \in Int /\ backlog' \in 0..MaxBacklog
  BY ServerAssumption DEF AcceptConn, CanAccept, ServerTypeOK
<1> QED BY <1>1, <1>2, <1>3 DEF AcceptConn, ServerTypeOK

LEMMA TypeRead ==
    ASSUME ServerTypeOK, NEW c \in Conns, HandleRead(c), Registered(c)
    PROVE  ServerTypeOK'
<1> DEFINE h == [conn[c] EXCEPT !.read_buff = @ \o rx[c]]
<1>1. h \in HttpConnection
  <2>1. conn[c] \in HttpConnection /\ rx[c] \in Seq(Segments)
    BY DEF ServerTypeOK
  <2>2. conn[c].read_buff \o rx[c] \in Seq(Segments)
    BY <2>1 DEF HttpConnection
  <2> QED BY <2>1, <2>2 DEF HttpConnection
<1>2. /\ conn' \in [Conns -> {None} \cup HttpConnection]
      /\ \A d \in Conns : Registered(d)' => conn'[d] \in HttpConnection
  <2>1. conn' = [conn EXCEPT ![c] = h]
    BY DEF HandleRead
  <2> QED BY <1>1, <2>1, TypeConn DEF HandleRead
<1>3. rx' \in [Conns -> Seq(Segments)]
  BY DEF HandleRead, ServerTypeOK
<1>4. events' \in [Conns -> {"none", "HUP", "IN", "OUT"}]
  BY DEF HandleRead, Handle, ServerTypeOK
<1> QED BY <1>2, <1>3, <1>4 DEF HandleRead, Handle, ServerTypeOK

LEMMA TypeHandleClose ==
    ASSUME ServerTypeOK, NEW c \in Conns, HandleHup(c) \/ HandleReadFails(c)
    PROVE  ServerTypeOK'
<1>1. CloseConn(c)
  BY DEF HandleHup, HandleReadFails
<1>2. events' \in [Conns -> {"none", "HUP", "IN", "OUT"}]
  BY DEF HandleHup, HandleReadFails, Handle, ServerTypeOK
<1>3. UNCHANGED <<mpc, cur, listen_event, listen_ready, backlog>>
  BY DEF HandleHup, HandleReadFails, Handle
<1> QED BY <1>1, <1>2, <1>3, TypeClose DEF ServerTypeOK

LEMMA TypeWrite ==
    ASSUME ServerTypeOK, NEW c \in Conns, HandleWrite(c)
    PROVE  ServerTypeOK'
<1>1. events' \in [Conns -> {"none", "HUP", "IN", "OUT"}]
  BY DEF HandleWrite, Handle, ServerTypeOK
<1>2. /\ mpc' \in {"wait", "loop", "write"} /\ cur' \in Conns \cup {None}
      /\ interest' \in [Conns -> {"none", "off", "IN", "OUT"}]
      /\ conn' \in [Conns -> {None} \cup HttpConnection]
      /\ \A d \in Conns : Registered(d)' => conn'[d] \in HttpConnection
  <2>1. CASE conn[c].write_sum = conn[c].write_idx
    <3>1. /\ conn' = [conn EXCEPT ![c] = Fresh]
          /\ interest' = Modfd(interest, c, "IN")
          /\ UNCHANGED <<mpc, cur>>
      BY <2>1 DEF HandleWrite, InitConn
    <3>2. /\ conn' \in [Conns -> {None} \cup HttpConnection]
          /\ \A d \in Conns : Registered(d)' => conn'[d] \in HttpConnection
      BY <3>1, TypeFresh, TypeConn, TypeModfd
    <3> QED BY <3>1, <3>2, TypeModfd DEF ServerTypeOK
  <2>2. CASE conn[c].write_sum # conn[c].write_idx
    BY <2>2 DEF HandleWrite, ServerTypeOK, Registered
  <2> QED BY <2>1, <2>2
<1> QED BY <1>1, <1>2 DEF HandleWrite, Handle, ServerTypeOK

LEMMA TypeInWrite ==
    ASSUME ServerTypeOK, cur \in Conns, Registered(cur),
           \/ \E n \in 1..WriteBuffer : WriteSome(n)
           \/ WriteFull \/ WriteFails \/ WriteLinger \/ WriteClose
    PROVE  ServerTypeOK'
<1>0. conn[cur] \in HttpConnection
  BY DEF ServerTypeOK
<1>1. ASSUME NEW n \in 1..WriteBuffer, WriteSome(n) PROVE ServerTypeOK'
  <2> DEFINE h == [conn[cur] EXCEPT !.write_idx = @ + n]
  <2>1. h \in HttpConnection
    BY <1>0 DEF HttpConnection
  <2>2. conn' = [conn EXCEPT ![cur] = h]
    BY <1>1 DEF WriteSome
  <2> QED BY <1>1, <2>1, <2>2, TypeConn DEF WriteSome, ServerTypeOK, loopVars, netVars
<1>2. CASE WriteFails
  <2> DEFINE h == [conn[cur] EXCEPT !.write_idx = @ - 1]
  <2>1. h \in HttpConnection
    BY <1>0 DEF HttpConnection
  <2>2. conn' = [conn EXCEPT ![cur] = h]
    BY <1>2 DEF WriteFails
  <2> QED BY <1>2, <2>1, <2>2, TypeConn DEF WriteFails, ServerTypeOK, loopVars, netVars
<1>3. CASE WriteFull
  BY <1>3, TypeModfd DEF WriteFull, ServerTypeOK, netVars, Registered
<1>4. CASE WriteLinger
  <2>1. /\ conn' = [conn EXCEPT ![cur] = Fresh]
        /\ interest' = Modfd(interest, cur, "IN")
    BY <1>4 DEF WriteLinger, InitConn
  <2>2. /\ conn' \in [Conns -> {None} \cup HttpConnection]
        /\ \A d \in Conns : Registered(d)' => conn'[d] \in HttpConnection
    BY <2>1, TypeFresh, TypeConn, TypeModfd
  <2>3. interest' \in [Conns -> {"none", "off", "IN", "OUT"}]
    BY <2>1, TypeModfd
  <2> QED BY <1>4, <2>2, <2>3 DEF WriteLinger, ServerTypeOK, netVars
<1>5. CASE WriteClose
  BY <1>5, TypeClose DEF WriteClose, ServerTypeOK
<1> QED BY <1>1, <1>2, <1>3, <1>4, <1>5

LEMMA TypeProcess ==
    ASSUME ServerTypeOK, NEW w \in Workers, Process(w),
           request[w] \in Conns, Registered(request[w])
    PROVE  ServerTypeOK'
<1> DEFINE c == request[w]
<1>0. conn[c] \in HttpConnection
  BY DEF ServerTypeOK
<1>p. PICK code \in Codes(conn[c].read_buff), keep \in BOOLEAN :
         IF code = "kNoRequest"
           THEN /\ interest' = Modfd(interest, c, "IN")
                /\ UNCHANGED <<conn, rx, peer, user_count>>
         ELSE IF ProcessWrite(code, conn[c].write_sum)
           THEN /\ conn' = [conn EXCEPT ![c] =
                     [@ EXCEPT !.write_sum = conn[c].write_sum + Units(code), !.linger = keep]]
                /\ interest' = Modfd(interest, c, "OUT")
                /\ UNCHANGED <<rx, peer, user_count>>
         ELSE CloseConn(c)
  BY DEF Process
<1> DEFINE ok == ProcessWrite(code, conn[c].write_sum)
           h == [conn[c] EXCEPT !.write_sum = conn[c].write_sum + Units(code),
                                !.linger = keep]
<1>1. CASE code = "kNoRequest"
  BY <1>p, <1>1, TypeModfd DEF Process, ServerTypeOK, loopVars, Registered
<1>2. CASE code # "kNoRequest" /\ ok
  <2>1. h \in HttpConnection
    <3>1. conn[c].write_sum + Units(code) \in Nat
      BY <1>0 DEF HttpConnection, Units
    <3> QED BY <1>0, <1>p, <3>1 DEF HttpConnection
  <2>2. conn' = [conn EXCEPT ![c] = h] /\ interest' = Modfd(interest, c, "OUT")
    BY <1>p, <1>2
  <2>3. /\ conn' \in [Conns -> {None} \cup HttpConnection]
        /\ \A d \in Conns : Registered(d)' => conn'[d] \in HttpConnection
    BY <2>1, <2>2, TypeConn, TypeModfd
  <2>4. interest' \in [Conns -> {"none", "off", "IN", "OUT"}]
    BY <2>2, TypeModfd
  <2> QED BY <1>p, <1>2, <2>3, <2>4 DEF Process, ServerTypeOK, loopVars
<1>3. CASE code # "kNoRequest" /\ ~ok
  BY <1>p, <1>3, TypeClose DEF Process, ServerTypeOK, loopVars
<1> QED BY <1>1, <1>2, <1>3

LEMMA TypeEpollWait ==
    ASSUME ServerTypeOK, NEW C \in SUBSET Conns, NEW l \in BOOLEAN, EpollWait(C, l)
    PROVE  ServerTypeOK'
<1>1. \A c \in Conns : /\ Pending(c) \in {"none", "HUP", "IN", "OUT"}
                       /\ Pending(c) # "none" => interest[c] # "none"
  BY DEF Pending
<1>2. /\ events' \in [Conns -> {"none", "HUP", "IN", "OUT"}]
      /\ interest' \in [Conns -> {"none", "off", "IN", "OUT"}]
      /\ \A c \in Conns : Registered(c)' => Registered(c)
  BY <1>1 DEF EpollWait, AfterReport, ServerTypeOK, Registered
<1>3. listen_event' \in BOOLEAN /\ listen_ready' \in BOOLEAN
  BY DEF EpollWait
<1>4. UNCHANGED <<cur, backlog, rx, peer, user_count, conn>> /\ mpc' = "loop"
  BY DEF EpollWait
<1> QED BY <1>2, <1>3, <1>4 DEF ServerTypeOK
-----------------------------------------------------------------------------
(***************************************************************************)
(* One holder, one step at a time.                                         *)
(***************************************************************************)
LEMMA HolderInit == Init => LoopShape /\ Exclusive
<1> SUFFICES ASSUME Init PROVE LoopShape /\ Exclusive
  OBVIOUS
<1>1. LoopShape
  BY PoolAssumption DEF Init, PoolInit, LoopShape, Conns
<1>2. \A c \in Conns : ~Registered(c) /\ ~Held(c)
  BY PoolAssumption DEF Init, PoolInit, Registered, Held, InKernel, Fetched, Appending,
                        InQueue, AtWorker, Conns
<1>3. OncePerPlace
  BY PoolAssumption DEF Init, PoolInit, OncePerPlace, Conns
<1> QED BY <1>1, <1>2, <1>3 DEF Exclusive, HeldIffOpen, OnePlace, Held

\* A step that moves no connection.
LEMMA HolderFrame ==
    ASSUME Exclusive, UNCHANGED <<interest, events, cur, work_queue, request>>,
           \A c \in Conns : Appending(c)' <=> Appending(c)
    PROVE  Exclusive'
BY DEF Exclusive, HeldIffOpen, OnePlace, OncePerPlace, Held, Registered, InKernel, Fetched,
       InQueue, AtWorker

\* A step that moves c alone, to a place of its own or to none.
SameHolder(d) == /\ Registered(d)' <=> Registered(d)
                 /\ InKernel(d)' <=> InKernel(d)
                 /\ Fetched(d)' <=> Fetched(d)
                 /\ (cur = d)' <=> cur = d
                 /\ Appending(d)' <=> Appending(d)
                 /\ InQueue(d)' <=> InQueue(d)
                 /\ AtWorker(d)' <=> AtWorker(d)

PlacedOnce(c) == /\ Registered(c) <=> Held(c)
                 /\ InKernel(c) => ~(Fetched(c) \/ cur = c \/ Appending(c) \/ InQueue(c)
                                     \/ AtWorker(c))
                 /\ Fetched(c) => ~(cur = c \/ Appending(c) \/ InQueue(c) \/ AtWorker(c))
                 /\ cur = c => ~(Appending(c) \/ InQueue(c) \/ AtWorker(c))
                 /\ Appending(c) => ~(InQueue(c) \/ AtWorker(c))
                 /\ InQueue(c) => ~AtWorker(c)

LEMMA HolderMove ==
    ASSUME Exclusive, NEW c \in Conns, \A d \in Conns \ {c} : SameHolder(d),
           PlacedOnce(c)', OncePerPlace'
    PROVE  Exclusive'
<1>1. \A d \in Conns : PlacedOnce(d)'
  BY DEF Exclusive, HeldIffOpen, OnePlace, SameHolder, PlacedOnce, Held
<1> QED BY <1>1 DEF Exclusive, HeldIffOpen, OnePlace, PlacedOnce

LEMMA OnceFrame ==
    ASSUME OncePerPlace, UNCHANGED <<work_queue, request>>
    PROVE  OncePerPlace'
BY DEF OncePerPlace

\* The steps of the loop that take c from one of its hands to another.
LEMMA HolderLoop ==
    ASSUME HolderInv, NEW c \in Conns, UNCHANGED <<work_queue, request>>,
           \A d \in Conns \ {c} : interest'[d] = interest[d] /\ events'[d] = events[d],
           \A d \in Conns \ {c} : ((cur = d)' <=> cur = d) /\ (Appending(d)' <=> Appending(d)),
           ~InQueue(c), ~AtWorker(c),
           PlacedOnce(c)'
    PROVE  Exclusive'
<1>1. \A d \in Conns \ {c} : SameHolder(d)
  BY DEF SameHolder, Registered, InKernel, Fetched, InQueue, AtWorker
<1>2. OncePerPlace'
  BY OnceFrame DEF HolderInv, Exclusive
<1> QED BY <1>1, <1>2, HolderMove DEF HolderInv

\* What the exclusiveness of the places says of a connection at the loop.
LEMMA AtLoopOnly ==
    ASSUME HolderInv, NEW c \in Conns, Fetched(c) \/ cur = c \/ ~Registered(c)
    PROVE  /\ ~InQueue(c) /\ ~AtWorker(c) /\ ~Appending(c) /\ ~InKernel(c)
           /\ Fetched(c) => cur # c
           /\ ~Registered(c) => ~Fetched(c) /\ cur # c
BY DEF HolderInv, Exclusive, HeldIffOpen, OnePlace, Held

LEMMA HolderAccept ==
    ASSUME HolderInv, NEW c \in Conns, AcceptConn(c)
    PROVE  Exclusive'
<1>1. /\ interest' = [interest EXCEPT ![c] = "IN"]
      /\ UNCHANGED <<events, cur, work_queue, request, append, work>>
      /\ ~Registered(c)
  BY DEF AcceptConn, CanAccept, poolVars
<1>2. PlacedOnce(c)'
  BY <1>1, AtLoopOnly DEF PlacedOnce, Held, Registered, InKernel, Fetched, Appending, InQueue,
                          AtWorker, HolderInv, ServerTypeOK
<1> QED BY <1>1, <1>2, AtLoopOnly, HolderLoop DEF Appending, HolderInv, ServerTypeOK

\* The loop is done with the event on c: the connection is closed, or re-armed.
LEMMA HolderEventDone ==
    ASSUME HolderInv, NEW c \in Conns, Fetched(c), NEW i \in {"none", "IN", "OUT"},
           events' = [events EXCEPT ![c] = "none"],
           interest' = [interest EXCEPT ![c] = i],
           UNCHANGED <<cur, poolVars>>
    PROVE  Exclusive'
<1>1. UNCHANGED <<cur, work_queue, request, append, work>>
  BY DEF poolVars
<1>2. PlacedOnce(c)'
  BY <1>1, AtLoopOnly DEF PlacedOnce, Held, Registered, InKernel, Fetched, Appending, InQueue,
                          AtWorker, HolderInv, ServerTypeOK
<1> QED BY <1>1, <1>2, AtLoopOnly, HolderLoop DEF Appending, HolderInv, ServerTypeOK

LEMMA HolderRead ==
    ASSUME HolderInv, NEW c \in Conns, HandleRead(c)
    PROVE  Exclusive'
<1>1. /\ events' = [events EXCEPT ![c] = "none"] /\ Fetched(c)
      /\ append = "idle" /\ append' = "push" /\ work' = c
      /\ UNCHANGED <<interest, cur, work_queue, request>>
  BY DEF HandleRead, Handle, AppendCall, Fetched
<1>2. Registered(c)
  BY <1>1 DEF HolderInv, Exclusive, HeldIffOpen, Held
<1>3. PlacedOnce(c)'
  BY <1>1, <1>2, AtLoopOnly DEF PlacedOnce, Held, Registered, InKernel, Fetched, Appending,
                                InQueue, AtWorker, HolderInv, ServerTypeOK
<1> QED BY <1>1, <1>3, AtLoopOnly, HolderLoop DEF Appending, HolderInv, ServerTypeOK

\* The loop enters Write on c.
LEMMA HolderWrite ==
    ASSUME HolderInv, NEW c \in Conns, Fetched(c),
           events' = [events EXCEPT ![c] = "none"], mpc = "loop", cur' = c,
           UNCHANGED <<interest, poolVars>>
    PROVE  Exclusive'
<1>1. UNCHANGED <<work_queue, request, append, work>> /\ cur \notin Conns
  BY DEF poolVars, HolderInv, LoopShape
<1>2. Registered(c)
  BY DEF HolderInv, Exclusive, HeldIffOpen, Held
<1>3. PlacedOnce(c)'
  BY <1>1, <1>2, AtLoopOnly DEF PlacedOnce, Held, Registered, InKernel, Fetched, Appending,
                                InQueue, AtWorker, HolderInv, ServerTypeOK
<1> QED BY <1>1, <1>3, AtLoopOnly, HolderLoop DEF Appending, HolderInv, ServerTypeOK

\* Write returns: the connection is closed, or re-armed.
LEMMA HolderWritten ==
    ASSUME HolderInv, cur \in Conns, NEW i \in {"none", "IN", "OUT"}, cur' = None,
           interest' = [interest EXCEPT ![cur] = i],
           UNCHANGED <<events, poolVars>>
    PROVE  Exclusive'
<1>1. UNCHANGED <<work_queue, request, append, work>> /\ None \notin Conns
  BY PoolAssumption DEF poolVars, Conns
<1>2. PICK c \in Conns : c = cur
  OBVIOUS
<1>3. PlacedOnce(c)'
  BY <1>1, <1>2, AtLoopOnly DEF PlacedOnce, Held, Registered, InKernel, Fetched, Appending,
                                InQueue, AtWorker, HolderInv, ServerTypeOK
<1> QED BY <1>1, <1>2, <1>3, AtLoopOnly, HolderLoop DEF Appending, HolderInv, ServerTypeOK

LEMMA HolderEpollWait ==
    ASSUME HolderInv, NEW C \in SUBSET Conns, NEW l \in BOOLEAN, EpollWait(C, l)
    PROVE  Exclusive'
<1>1. \A c \in C : InKernel(c) /\ Pending(c) # "none"
  BY DEF EpollWait, Pending, InKernel
<1>2. \A c \in Conns : /\ InKernel(c)' <=> InKernel(c) /\ c \notin C
                       /\ Registered(c)' <=> Registered(c)
                       /\ Fetched(c)' <=> Fetched(c) \/ c \in C
  BY <1>1 DEF EpollWait, AfterReport, InKernel, Registered, Fetched
<1>3. UNCHANGED <<cur, poolVars>>
  BY DEF EpollWait
<1>4. \A c \in Conns : /\ Appending(c)' <=> Appending(c)
                       /\ InQueue(c)' <=> InQueue(c)
                       /\ AtWorker(c)' <=> AtWorker(c)
  BY <1>3 DEF Appending, InQueue, AtWorker, poolVars
<1>5. HeldIffOpen' /\ OnePlace'
  BY <1>1, <1>2, <1>3, <1>4 DEF HolderInv, Exclusive, HeldIffOpen, OnePlace, Held
<1>6. OncePerPlace'
  BY <1>3 DEF HolderInv, Exclusive, OncePerPlace, poolVars
<1> QED BY <1>5, <1>6 DEF Exclusive

LEMMA HolderPush ==
    ASSUME HolderInv, AppendPush, UNCHANGED <<cur, events, interest>>
    PROVE  /\ Exclusive'
           /\ \E c \in Conns : /\ Appending(c) /\ InQueue(c)'
                              /\ \A d \in Conns \ {c} : SameHolder(d)
<1>0. PICK c \in Conns : c = work
  BY DEF HolderInv, PoolInv, PoolTypeOK, AppendPush, Conns
<1>1. c \in Conns /\ Appending(c) /\ work_queue \in Seq(Conns)
  BY <1>0 DEF HolderInv, PoolInv, PoolTypeOK, AppendPush, Appending, Conns
<1>2. Registered(c) /\ ~InKernel(c) /\ ~Fetched(c) /\ cur # c /\ ~InQueue(c) /\ ~AtWorker(c)
  BY <1>1 DEF HolderInv, Exclusive, HeldIffOpen, OnePlace, Held
<1>3. /\ work_queue' = Append(work_queue, c)
      /\ append' = "post" /\ work' = c /\ request' = request
  BY <1>0 DEF AppendPush
<1>4. /\ DOMAIN work_queue' = 1..(Len(work_queue) + 1)
      /\ work_queue'[Len(work_queue) + 1] = c
      /\ \A i \in DOMAIN work_queue : work_queue'[i] = work_queue[i]
      /\ DOMAIN work_queue = 1..Len(work_queue)
  BY <1>1, <1>3
<1>5. \A d \in Conns : InQueue(d)' <=> (InQueue(d) \/ d = c)
  BY <1>1, <1>4 DEF InQueue
<1>6. OncePerPlace'
  <2>1. ASSUME NEW i \in DOMAIN work_queue', NEW j \in DOMAIN work_queue',
               work_queue'[i] = work_queue'[j]
        PROVE  i = j
    BY <1>1, <1>2, <1>4, <2>1 DEF HolderInv, Exclusive, OncePerPlace, InQueue
  <2> QED BY <1>3, <2>1 DEF HolderInv, Exclusive, OncePerPlace
<1>7. PlacedOnce(c)'
  BY <1>1, <1>2, <1>3, <1>5 DEF PlacedOnce, Held, Registered, InKernel, Fetched, Appending,
                                AtWorker
<1>8. \A d \in Conns \ {c} : SameHolder(d)
  BY <1>0, <1>1, <1>3, <1>5 DEF SameHolder, Registered, InKernel, Fetched, Appending, AtWorker
<1>9. InQueue(c)'
  BY <1>5
<1> QED BY <1>1, <1>6, <1>7, <1>8, <1>9, HolderMove DEF HolderInv

LEMMA HolderPop ==
    ASSUME HolderInv, NEW w \in Workers, Pop(w), UNCHANGED <<cur, events, interest>>
    PROVE  /\ Exclusive'
           /\ \/ UNCHANGED <<work_queue, request, append, work>>
              \/ \E c \in Conns : /\ InQueue(c) /\ AtWorker(c)'
                                 /\ \A d \in Conns \ {c} : SameHolder(d)
<1>0. PoolTypeOK /\ pc[w] = "pop" /\ request[w] \notin Conns
  BY DEF HolderInv, PoolInv, PoolTypeOK, Pop, Conns
<1>1. CASE work_queue = <<>>
  BY <1>1, HolderFrame DEF Pop, Appending, HolderInv
<1>2. CASE work_queue # <<>>
  <2>0. PICK c \in Conns : c = Head(work_queue)
    BY <1>0, <1>2 DEF PoolTypeOK, Conns
  <2>1. /\ request' = [request EXCEPT ![w] = c]
        /\ work_queue' = Tail(work_queue)
        /\ UNCHANGED <<append, work>>
    BY <1>2, <2>0 DEF Pop
  <2>2. /\ c \in Conns /\ c = work_queue[1] /\ 1 \in DOMAIN work_queue
        /\ DOMAIN work_queue = 1..Len(work_queue)
        /\ DOMAIN work_queue' = 1..(Len(work_queue) - 1)
        /\ \A i \in DOMAIN work_queue' : /\ i + 1 \in DOMAIN work_queue
                                         /\ work_queue'[i] = work_queue[i + 1]
    BY <1>0, <1>2, <2>0, <2>1 DEF PoolTypeOK, Conns
  <2>3. InQueue(c)
    BY <2>2 DEF InQueue
  <2>4. Registered(c) /\ ~InKernel(c) /\ ~Fetched(c) /\ cur # c /\ ~Appending(c) /\ ~AtWorker(c)
    BY <2>2, <2>3 DEF HolderInv, Exclusive, HeldIffOpen, OnePlace, Held
  <2>5. \A d \in Conns : InQueue(d)' <=> (InQueue(d) /\ d # c)
    <3>1. ASSUME NEW d \in Conns, InQueue(d)' PROVE InQueue(d) /\ d # c
      <4>1. PICK i \in DOMAIN work_queue' : work_queue'[i] = d
        BY <3>1 DEF InQueue
      <4>2. i + 1 \in DOMAIN work_queue /\ work_queue[i + 1] = d /\ i + 1 # 1
        BY <2>2, <4>1
      <4>3. d # c
        BY <2>2, <4>2 DEF HolderInv, Exclusive, OncePerPlace
      <4> QED BY <4>2, <4>3 DEF InQueue
    <3>2. ASSUME NEW d \in Conns, InQueue(d), d # c PROVE InQueue(d)'
      <4>1. PICK i \in DOMAIN work_queue : work_queue[i] = d
        BY <3>2 DEF InQueue
      <4>2. i - 1 \in DOMAIN work_queue' /\ work_queue'[i - 1] = d
        BY <2>2, <3>2, <4>1
      <4> QED BY <4>2 DEF InQueue
    <3> QED BY <3>1, <3>2
  <2>6. \A d \in Conns : AtWorker(d)' <=> (AtWorker(d) \/ d = c)
    BY <1>0, <2>1, <2>2 DEF AtWorker, PoolTypeOK
  <2>7. OncePerPlace'
    <3>1. \A i, j \in DOMAIN work_queue' : work_queue'[i] = work_queue'[j] => i = j
      BY <2>2 DEF HolderInv, Exclusive, OncePerPlace
    <3>2. \A u, v \in Workers : request'[u] = request'[v] /\ request'[u] \in Conns => u = v
      BY <1>0, <2>1, <2>4 DEF HolderInv, Exclusive, OncePerPlace, AtWorker, PoolTypeOK
    <3> QED BY <3>1, <3>2 DEF OncePerPlace
  <2>8. PlacedOnce(c)'
    BY <2>1, <2>2, <2>4, <2>5, <2>6 DEF PlacedOnce, Held, Registered, InKernel, Fetched, Appending
  <2>9. \A d \in Conns \ {c} : SameHolder(d)
    BY <2>1, <2>5, <2>6 DEF SameHolder, Registered, InKernel, Fetched, Appending
  <2>10. AtWorker(c)'
    BY <2>6
  <2> QED BY <2>3, <2>7, <2>8, <2>9, <2>10, HolderMove DEF HolderInv
<1> QED BY <1>1, <1>2

\* What Process does to the registration of the connection it served.
LEMMA ProcessRearms ==
    ASSUME HolderInv, NEW w \in Workers, Process(w)
    PROVE  /\ request[w] \in Conns /\ AtWorker(request[w]) /\ Registered(request[w])
           /\ ~Fetched(request[w]) /\ ~InKernel(request[w]) /\ cur # request[w]
           /\ ~Appending(request[w]) /\ ~InQueue(request[w])
           /\ \E i \in {"none", "IN", "OUT"} : interest' = [interest EXCEPT ![request[w]] = i]
           /\ UNCHANGED <<cur, events, append, work, work_queue>>
           /\ request' = [request EXCEPT ![w] = None]
<1>1. request[w] \in Conns
  BY DEF HolderInv, PoolInv, PoolTypeOK, Process, Finish, Conns
<1>2. AtWorker(request[w])
  BY DEF AtWorker
<1>3. /\ Registered(request[w]) /\ ~Fetched(request[w]) /\ ~InKernel(request[w])
      /\ cur # request[w] /\ ~Appending(request[w]) /\ ~InQueue(request[w])
  BY <1>1, <1>2 DEF HolderInv, Exclusive, HeldIffOpen, OnePlace, Held
<1>4. \E i \in {"none", "IN", "OUT"} : interest' = [interest EXCEPT ![request[w]] = i]
  BY <1>3 DEF Process, CloseConn, Modfd, Registered
<1>5. /\ UNCHANGED <<cur, events, append, work, work_queue>>
      /\ request' = [request EXCEPT ![w] = None]
  BY DEF Process, Finish, loopVars
<1> QED BY <1>1, <1>2, <1>3, <1>4, <1>5

LEMMA HolderProcess ==
    ASSUME HolderInv, NEW w \in Workers, Process(w)
    PROVE  Exclusive' /\ \A d \in Conns \ {request[w]} : SameHolder(d)
<1>1. PICK c \in Conns : c = request[w]
  BY ProcessRearms
<1>2. PICK i \in {"none", "IN", "OUT"} : interest' = [interest EXCEPT ![c] = i]
  BY <1>1, ProcessRearms
<1>3. \A d \in Conns : AtWorker(d)' <=> (AtWorker(d) /\ d # c)
  BY <1>1, ProcessRearms, PoolAssumption
     DEF AtWorker, HolderInv, PoolInv, PoolTypeOK, Exclusive, OncePerPlace, Conns
<1>4. OncePerPlace'
  BY <1>1, ProcessRearms, PoolAssumption
     DEF HolderInv, PoolInv, PoolTypeOK, Exclusive, OncePerPlace, Conns
<1>5. PlacedOnce(c)'
  BY <1>1, <1>2, <1>3, ProcessRearms
     DEF PlacedOnce, Held, Registered, InKernel, Fetched, Appending, InQueue,
         HolderInv, ServerTypeOK
<1>6. \A d \in Conns \ {c} : SameHolder(d)
  BY <1>1, <1>2, <1>3, ProcessRearms
     DEF SameHolder, Registered, InKernel, Fetched, Appending, InQueue, HolderInv, ServerTypeOK
<1> QED BY <1>1, <1>4, <1>5, <1>6, HolderMove DEF HolderInv
-----------------------------------------------------------------------------
(***************************************************************************)
(* The control of the loop.                                                *)
(***************************************************************************)
LEMMA LoopClient == LoopShape /\ Client => LoopShape'
BY DEF Client, Connect, Send, Leave, loopVars, poolVars, LoopShape

LEMMA LoopMain ==
    ASSUME HolderInv, Main
    PROVE  LoopShape'
<1> USE DEF LoopShape
<1>0. LoopShape /\ ServerTypeOK /\ None \notin Conns
  BY PoolAssumption DEF HolderInv, Conns
<1>1. ASSUME NEW C \in SUBSET Conns, NEW l \in BOOLEAN, EpollWait(C, l) PROVE LoopShape'
  BY <1>0, <1>1 DEF EpollWait, poolVars
<1>2. ASSUME NEW c \in Conns,
             AcceptConn(c) \/ HandleHup(c) \/ HandleRead(c) \/ HandleReadFails(c)
      PROVE  LoopShape'
  BY <1>0, <1>2 DEF AcceptConn, HandleHup, HandleRead, HandleReadFails, Handle, InLoop,
                    AppendCall, poolVars
<1>3. ASSUME NEW c \in Conns, HandleWrite(c) PROVE LoopShape'
  BY <1>0, <1>3 DEF HandleWrite, Handle, InLoop, poolVars
<1>4. ASSUME NEW n, AcceptNone(n) \/ WriteSome(n) PROVE LoopShape'
  BY <1>0, <1>4 DEF AcceptNone, WriteSome, loopVars, poolVars
<1>5. CASE WriteFull \/ WriteLinger \/ WriteClose
  BY <1>0, <1>5 DEF WriteFull, WriteLinger, WriteClose, InWrite, poolVars
<1>6. CASE WriteFails \/ EndOfBatch
  BY <1>0, <1>6 DEF WriteFails, EndOfBatch, InLoop, loopVars, poolVars
<1>7. CASE (AppendPush \/ AppendPost)
           /\ UNCHANGED <<conn, loopVars, netVars, user_count, interest>>
  BY <1>0, <1>7 DEF AppendPush, AppendPost, loopVars
<1>8. ASSUME NEW c \in Conns, Overrun(c) PROVE LoopShape'
  BY <1>0, <1>8 DEF Overrun, Ruin, loopVars
<1> QED BY <1>1, <1>2, <1>3, <1>4, <1>5, <1>6, <1>7, <1>8 DEF Main

LEMMA LoopWorker ==
    ASSUME LoopShape, NEW w \in Workers, Worker(w) \/ QueueRace(w)
    PROVE  LoopShape'
BY DEF Worker, AtQueue, Wait, Lock, Pop, Process, Finish, QueueRace, Race, Ruin, loopVars, LoopShape

(***************************************************************************)
(* The steps put together.                                                 *)
(***************************************************************************)
LEMMA HolderClient ==
    ASSUME HolderInv, Client
    PROVE  ServerTypeOK' /\ Exclusive'
<1>1. UNCHANGED <<poolVars, interest, events, cur>>
  BY DEF Client, Connect, Send, Leave, loopVars
<1> QED BY <1>1, TypeClient, HolderFrame DEF HolderInv, poolVars, Appending

LEMMA FetchedRegistered ==
    ASSUME HolderInv, NEW c \in Conns, Fetched(c) \/ cur = c
    PROVE  Registered(c)
BY DEF HolderInv, Exclusive, HeldIffOpen, Held

\* In terms of `interest`, CloseConn and Modfd only differ in the value they set.
LEMMA Unregister ==
    ASSUME NEW c \in Conns, Registered(c), CloseConn(c)
    PROVE  interest' = [interest EXCEPT ![c] = "none"]
BY DEF CloseConn

LEMMA Rearm ==
    ASSUME NEW c \in Conns, Registered(c), NEW ev
    PROVE  Modfd(interest, c, ev) = [interest EXCEPT ![c] = ev]
BY DEF Modfd, Registered

LEMMA HolderMain ==
    ASSUME HolderInv, Main
    PROVE  ServerTypeOK' /\ Exclusive'
<1>0. ServerTypeOK /\ LoopShape /\ None \notin Conns
  BY PoolAssumption DEF HolderInv, Conns
<1>1. ASSUME NEW C \in SUBSET Conns, NEW l \in BOOLEAN, EpollWait(C, l)
      PROVE  ServerTypeOK' /\ Exclusive'
  BY <1>0, <1>1, TypeEpollWait, HolderEpollWait
<1>2. ASSUME NEW c \in Conns, AcceptConn(c) PROVE ServerTypeOK' /\ Exclusive'
  BY <1>0, <1>2, TypeAccept, HolderAccept
<1>3. ASSUME NEW c \in Conns, HandleHup(c) \/ HandleReadFails(c)
      PROVE  ServerTypeOK' /\ Exclusive'
  <2>1. /\ Fetched(c) /\ events' = [events EXCEPT ![c] = "none"]
        /\ CloseConn(c) /\ UNCHANGED <<cur, poolVars>>
    BY <1>3 DEF HandleHup, HandleReadFails, Handle, Fetched
  <2>2. interest' = [interest EXCEPT ![c] = "none"]
    BY <2>1, FetchedRegistered, Unregister
  <2> QED BY <1>0, <1>3, <2>1, <2>2, TypeHandleClose, HolderEventDone
<1>4. ASSUME NEW c \in Conns, HandleRead(c) PROVE ServerTypeOK' /\ Exclusive'
  <2>1. Registered(c)
    BY <1>4, FetchedRegistered DEF HandleRead, Handle, Fetched
  <2> QED BY <1>0, <1>4, <2>1, TypeRead, HolderRead
<1>5. ASSUME NEW c \in Conns, HandleWrite(c) PROVE ServerTypeOK' /\ Exclusive'
  <2>1. /\ Fetched(c) /\ events' = [events EXCEPT ![c] = "none"]
        /\ mpc = "loop" /\ UNCHANGED poolVars
    BY <1>5 DEF HandleWrite, Handle, InLoop, Fetched
  <2>2. CASE cur' = c /\ interest' = interest
    BY <1>0, <1>5, <2>1, <2>2, TypeWrite, HolderWrite
  <2>3. CASE cur' = cur /\ interest' = Modfd(interest, c, "IN")
    <3>1. interest' = [interest EXCEPT ![c] = "IN"]
      BY <2>1, <2>3, FetchedRegistered, Rearm
    <3> QED BY <1>0, <1>5, <2>1, <2>3, <3>1, TypeWrite, HolderEventDone
  <2> QED BY <1>5, <2>2, <2>3 DEF HandleWrite
<1>6. ASSUME NEW b, AcceptNone(b) PROVE ServerTypeOK' /\ Exclusive'
  <2>1. backlog' \in 0..MaxBacklog
    <3>1. backlog' = b /\ b \in Nat /\ (b = backlog \/ b = backlog - 1)
      BY <1>6 DEF AcceptNone
    <3>2. backlog \in 0..MaxBacklog
      BY <1>0 DEF ServerTypeOK
    <3> QED BY <3>1, <3>2, ServerAssumption
  <2>2. /\ listen_event' = FALSE
        /\ UNCHANGED <<conn, mpc, cur, events, listen_ready, rx, peer, user_count, interest>>
    BY <1>6 DEF AcceptNone
  <2>3. ServerTypeOK'
    BY <1>0, <2>1, <2>2 DEF ServerTypeOK, Registered
  <2> QED BY <1>6, <2>3, HolderFrame DEF AcceptNone, HolderInv, poolVars, Appending
<1>7. ASSUME NEW n \in 1..WriteBuffer, WriteSome(n) \/ WriteFails
      PROVE  ServerTypeOK' /\ Exclusive'
  <2>1. cur \in Conns /\ Registered(cur)
    BY <1>0, <1>7, FetchedRegistered DEF WriteSome, WriteFails, InWrite, LoopShape
  <2>2. UNCHANGED <<poolVars, interest, events, cur>>
    BY <1>7 DEF WriteSome, WriteFails, loopVars
  <2> QED BY <1>0, <1>7, <2>1, <2>2, TypeInWrite, HolderFrame DEF HolderInv, poolVars, Appending
<1>8. CASE WriteFull \/ WriteLinger \/ WriteClose
  <2>1. PICK c \in Conns : c = cur
    BY <1>0, <1>8 DEF WriteFull, WriteLinger, WriteClose, CanLinger, InWrite, LoopShape
  <2>2. Registered(c)
    BY <2>1, FetchedRegistered
  <2>3. cur' = None /\ UNCHANGED <<events, poolVars>>
    BY <1>8 DEF WriteFull, WriteLinger, WriteClose
  <2>4. \E i \in {"none", "IN", "OUT"} : interest' = [interest EXCEPT ![c] = i]
    BY <1>8, <2>1, <2>2, Unregister, Rearm DEF WriteFull, WriteLinger, WriteClose
  <2> QED BY <1>0, <1>8, <2>1, <2>2, <2>3, <2>4, TypeInWrite, HolderWritten
<1>9. CASE EndOfBatch
  <2>1. ServerTypeOK'
    BY <1>0, <1>9 DEF EndOfBatch, netVars, ServerTypeOK, Registered
  <2> QED BY <1>9, <2>1, HolderFrame DEF EndOfBatch, HolderInv, poolVars, Appending
<1>10. CASE (AppendPush \/ AppendPost)
            /\ UNCHANGED <<conn, loopVars, netVars, user_count, interest>>
  <2>1. ServerTypeOK'
    BY <1>0, <1>10 DEF loopVars, netVars, ServerTypeOK, Registered
  <2>2. Exclusive'
    BY <1>10, HolderPush, HolderFrame DEF AppendPost, HolderInv, loopVars, Appending
  <2> QED BY <2>1, <2>2
<1>11. 1 \in 1..WriteBuffer
  BY ServerAssumption
<1>12. ASSUME NEW c \in Conns, Overrun(c) PROVE ServerTypeOK' /\ Exclusive'
  <2>1. UNCHANGED <<conn, loopVars, netVars, user_count, interest, work_queue, request,
                    append, work>>
    BY <1>12 DEF Overrun, Ruin
  <2>2. ServerTypeOK'
    BY <1>0, <2>1 DEF loopVars, netVars, ServerTypeOK, Registered
  <2> QED BY <2>1, <2>2, HolderFrame DEF loopVars, HolderInv, Appending
<1> QED BY <1>1, <1>2, <1>3, <1>4, <1>5, <1>6, <1>7, <1>8, <1>9, <1>10, <1>11, <1>12
        DEF Main

LEMMA HolderWorker ==
    ASSUME HolderInv, NEW w \in Workers, Worker(w) \/ QueueRace(w)
    PROVE  ServerTypeOK' /\ Exclusive'
<1>1. CASE AtQueue(w) \/ QueueRace(w)
  <2>1. ServerTypeOK'
    BY <1>1 DEF AtQueue, QueueRace, loopVars, netVars, ServerTypeOK, Registered, HolderInv
  <2>2. UNCHANGED <<interest, events, cur>>
    BY <1>1 DEF AtQueue, QueueRace, loopVars
  <2>3. CASE Pop(w)
    BY <2>1, <2>2, <2>3, HolderPop
  <2>4. CASE Wait(w) \/ Lock(w) \/ Race(w)
    BY <2>1, <2>2, <2>4, HolderFrame DEF Wait, Lock, Race, Ruin, Appending, HolderInv
  <2> QED BY <1>1, <2>3, <2>4 DEF AtQueue, QueueRace
<1>2. CASE Process(w)
  BY <1>2, TypeProcess, HolderProcess, ProcessRearms DEF HolderInv
<1> QED BY <1>1, <1>2 DEF Worker

LEMMA HolderNext == HolderInv /\ [Next]_vars => HolderInv'
<1> SUFFICES ASSUME HolderInv, [Next]_vars PROVE HolderInv'
  OBVIOUS
<1>1. PoolInv'
  BY Step_Pool, PoolNext_Inv DEF HolderInv
<1>2. CASE Client
  BY <1>1, <1>2, HolderClient, LoopClient DEF HolderInv
<1>3. CASE Main
  BY <1>1, <1>3, HolderMain, LoopMain DEF HolderInv
<1>4. ASSUME NEW w \in Workers, Worker(w) \/ QueueRace(w) PROVE HolderInv'
  BY <1>1, <1>4, HolderWorker, LoopWorker DEF HolderInv
<1>5. CASE UNCHANGED vars
  <2>1. ServerTypeOK' /\ LoopShape'
    BY <1>5 DEF HolderInv, vars, loopVars, netVars, poolVars, ServerTypeOK, LoopShape, Registered
  <2>2. Exclusive'
    BY <1>5, HolderFrame DEF HolderInv, vars, loopVars, poolVars, Appending
  <2> QED BY <1>1, <2>1, <2>2 DEF HolderInv
<1> QED BY <1>2, <1>3, <1>4, <1>5 DEF Next

\* The inductive invariant holds: of every connection the place is known.
THEOREM HolderInvariance == Spec => []HolderInv
<1>1. Init => HolderInv
  BY PoolInit_Inv, TypeInit, HolderInit DEF HolderInv, Init
<1> QED BY <1>1, HolderNext, PTL DEF Spec

(***************************************************************************)
(* Type correctness of the server and its pool, for every number of        *)
(* connections, workers and buffered segments.                             *)
(***************************************************************************)
THEOREM TypeInvariance == Spec => []TypeOK
<1>1. HolderInv => TypeOK
  BY DEF HolderInv, PoolInv, TypeOK
<1> QED BY <1>1, HolderInvariance, PTL

(***************************************************************************)
(* EPOLLONESHOT with the re-arming Modfd of Process and Write, and nothing *)
(* else, keeps the threads apart: a registered connection has exactly one  *)
(* holder and a closed one none (main.cpp:96-139, httpconnection.cpp:38-64 *)
(* and 101-181, threadpool.cpp:57-77).                                     *)
(***************************************************************************)
THEOREM OneHolderInvariance == Spec => []OneHolder
<1>1. ASSUME HolderInv PROVE OneHolder
  <2> SUFFICES ASSUME NEW c \in Conns
               PROVE  IF Registered(c) THEN \E h \in Holders(c) : Holders(c) = {h}
                                       ELSE Holders(c) = {}
    BY DEF OneHolder
  <2>0. HeldIffOpen /\ OnePlace /\ OncePerPlace
    BY <1>1 DEF HolderInv, Exclusive
  <2>1. CASE ~Registered(c)
    BY <2>0, <2>1 DEF HeldIffOpen, Held, Holders, Fetched, Appending, InQueue, AtWorker
  <2>2. CASE Registered(c)
    <3>1. Held(c)
      BY <2>0, <2>2 DEF HeldIffOpen
    <3>2. CASE InKernel(c)
      <4>1. Holders(c) = {<<"kernel">>}
        BY <2>0, <3>2 DEF OnePlace, Holders, Fetched, Appending, InQueue, AtWorker
      <4> QED BY <2>2, <4>1
    <3>3. CASE Fetched(c)
      <4>1. Holders(c) = {<<"event">>}
        BY <2>0, <3>3 DEF OnePlace, Holders, Fetched, Appending, InQueue, AtWorker
      <4> QED BY <2>2, <4>1
    <3>4. CASE cur = c
      <4>1. Holders(c) = {<<"write">>}
        BY <2>0, <3>4 DEF OnePlace, Holders, Fetched, Appending, InQueue, AtWorker
      <4> QED BY <2>2, <4>1
    <3>5. CASE Appending(c)
      <4>1. Holders(c) = {<<"append">>}
        BY <2>0, <3>5 DEF OnePlace, Holders, Fetched, Appending, InQueue, AtWorker
      <4> QED BY <2>2, <4>1
    <3>6. CASE InQueue(c)
      <4>1. PICK i \in DOMAIN work_queue : work_queue[i] = c
        BY <3>6 DEF InQueue
      <4>2. {j \in DOMAIN work_queue : work_queue[j] = c} = {i}
        BY <2>0, <4>1 DEF OncePerPlace
      <4>3. Holders(c) = {<<"queue", i>>}
        BY <2>0, <3>6, <4>2 DEF OnePlace, Holders, Fetched, Appending, AtWorker
      <4> QED BY <2>2, <4>3
    <3>7. CASE AtWorker(c)
      <4>1. PICK w \in Workers : request[w] = c
        BY <3>7 DEF AtWorker
      <4>2. {v \in Workers : request[v] = c} = {w}
        BY <2>0, <4>1 DEF OncePerPlace
      <4>3. Holders(c) = {<<"worker", w>>}
        BY <2>0, <3>7, <4>2 DEF OnePlace, Holders, Fetched, Appending, InQueue
      <4> QED BY <2>2, <4>3
    <3> QED BY <3>1, <3>2, <3>3, <3>4, <3>5, <3>6, <3>7 DEF Held
  <2> QED BY <2>1, <2>2
<1> QED BY <1>1, HolderInvariance, PTL
-----------------------------------------------------------------------------
(***************************************************************************)
(* ReplyMatchesRequest, one connection at a time.                          *)
(***************************************************************************)
ReplyAt(c) ==
    Registered(c) /\ events[c] # "HUP" =>
        IF Replying(c)
          THEN conn[c].write_idx < conn[c].write_sum /\ Complete(conn[c].read_buff)
          ELSE conn[c].write_idx = 0 /\ conn[c].write_sum = 0

ReplyInv == \A c \in Conns : ReplyAt(c)

\* Nothing ReplyAt(d) looks at has changed.
Still(d) == /\ conn'[d] = conn[d] /\ interest'[d] = interest[d]
            /\ events'[d] = events[d] /\ (cur' = d <=> cur = d)

LEMMA ReplyStill ==
    ASSUME NEW d, ReplyAt(d), Still(d)
    PROVE  ReplyAt(d)'
BY DEF ReplyAt, Still, Registered, Replying

LEMMA ReplyOne ==
    ASSUME ReplyInv, NEW c \in Conns, \A d \in Conns \ {c} : Still(d), ReplyAt(c)'
    PROVE  ReplyInv'
BY ReplyStill DEF ReplyInv

LEMMA ReplyFrame ==
    ASSUME ReplyInv, UNCHANGED <<conn, interest, events, cur>>
    PROVE  ReplyInv'
BY ReplyStill DEF ReplyInv, Still

LEMMA ReplyEpollWait ==
    ASSUME HolderInv, ReplyInv, NEW C \in SUBSET Conns, NEW l, EpollWait(C, l)
    PROVE  ReplyInv'
<1> SUFFICES ASSUME NEW c \in Conns PROVE ReplyAt(c)'
  BY DEF ReplyInv
<1>0. /\ events' = [d \in Conns |-> IF d \in C THEN Pending(d) ELSE events[d]]
      /\ interest' = [d \in Conns |-> IF d \in C THEN "off" ELSE interest[d]]
      /\ UNCHANGED <<conn, cur>>
  BY DEF EpollWait, AfterReport
<1>t. /\ events \in [Conns -> {"none", "HUP", "IN", "OUT"}]
      /\ interest \in [Conns -> {"none", "off", "IN", "OUT"}]
  BY DEF HolderInv, ServerTypeOK
<1>1. CASE c \notin C
  <2>1. Still(c)
    BY <1>0, <1>1, <1>t DEF Still
  <2> QED BY <2>1, ReplyStill DEF ReplyInv
<1>2. CASE c \in C
  <2>1. events'[c] = Pending(c) /\ interest'[c] = "off" /\ Pending(c) # "none"
    BY <1>0, <1>2 DEF EpollWait
  <2>2. interest[c] \in {"IN", "OUT"} /\ cur # c /\ events[c] = "none"
    BY <2>1 DEF Pending, HolderInv, Exclusive, OnePlace, InKernel, Fetched
  <2>3. ReplyAt(c)
    BY DEF ReplyInv
  <2> QED BY <1>0, <2>1, <2>2, <2>3 DEF ReplyAt, Registered, Replying, Pending
<1> QED BY <1>1, <1>2

\* What an action may do to a connection that is not its own.
LEMMA StillConn ==
    ASSUME ServerTypeOK, NEW c \in Conns, NEW x, NEW i,
           conn' = [conn EXCEPT ![c] = x] \/ conn' = conn,
           interest' = [interest EXCEPT ![c] = i] \/ interest' = interest,
           events' = [events EXCEPT ![c] = "none"] \/ events' = events,
           cur' = cur \/ (cur = None /\ cur' = c) \/ (cur = c /\ cur' = None)
    PROVE  \A d \in Conns \ {c} : Still(d)
<1> SUFFICES ASSUME NEW d \in Conns, d # c PROVE Still(d)
  OBVIOUS
<1>1. conn'[d] = conn[d]
  BY DEF ServerTypeOK
<1>2. interest'[d] = interest[d]
  BY DEF ServerTypeOK
<1>3. events'[d] = events[d]
  BY DEF ServerTypeOK
<1>4. d # None
  BY PoolAssumption DEF Conns
<1> QED BY <1>1, <1>2, <1>3, <1>4 DEF Still

LEMMA ReplyAccept ==
    ASSUME HolderInv, ReplyInv, NEW c \in Conns, AcceptConn(c)
    PROVE  ReplyInv'
<1>1. /\ interest' = [interest EXCEPT ![c] = "IN"] /\ conn' = [conn EXCEPT ![c] = Fresh]
      /\ UNCHANGED <<events, cur>> /\ ~Registered(c)
  BY DEF AcceptConn, CanAccept, InitConn
<1>2. \A d \in Conns \ {c} : Still(d)
  BY <1>1, StillConn DEF HolderInv
<1>3. interest'[c] = "IN" /\ conn'[c] = Fresh
  BY <1>1 DEF HolderInv, ServerTypeOK
<1>4. events[c] = "none" /\ cur # c
  BY <1>1 DEF HolderInv, Exclusive, HeldIffOpen, Held, Fetched
<1>5. ReplyAt(c)'
  BY <1>1, <1>3, <1>4 DEF ReplyAt, Registered, Replying, Fresh
<1> QED BY <1>2, <1>5, ReplyOne

LEMMA ReplyClose ==
    ASSUME HolderInv, ReplyInv, NEW c \in Conns, Registered(c), CloseConn(c),
           events' = [events EXCEPT ![c] = "none"] \/ events' = events,
           cur' = cur \/ (cur = c /\ cur' = None)
    PROVE  ReplyInv'
<1>1. interest' = [interest EXCEPT ![c] = "none"] /\ conn' = [conn EXCEPT ![c] = None]
  BY DEF CloseConn
<1>2. \A d \in Conns \ {c} : Still(d)
  BY <1>1, StillConn DEF HolderInv
<1>3. interest'[c] = "none"
  BY <1>1 DEF HolderInv, ServerTypeOK
<1>4. ReplyAt(c)'
  BY <1>3 DEF ReplyAt, Registered
<1> QED BY <1>2, <1>4, ReplyOne

LEMMA ReplyRead ==
    ASSUME HolderInv, ReplyInv, NEW c \in Conns, HandleRead(c)
    PROVE  ReplyInv'
<1>1. /\ conn' = [conn EXCEPT ![c].read_buff = @ \o rx[c]]
      /\ events' = [events EXCEPT ![c] = "none"] /\ events[c] = "IN"
      /\ UNCHANGED <<interest, cur>>
  BY DEF HandleRead, Handle
<1>2. PICK x : x = [conn[c] EXCEPT !.read_buff = @ \o rx[c]]
  OBVIOUS
<1>3. conn' = [conn EXCEPT ![c] = x]
  BY <1>1, <1>2
<1>4. \A d \in Conns \ {c} : Still(d)
  BY <1>1, <1>3, StillConn DEF HolderInv
<1>5. interest[c] \notin {"IN", "OUT"} /\ cur # c /\ Registered(c)
  BY <1>1 DEF HolderInv, Exclusive, OnePlace, HeldIffOpen, Held, InKernel, Fetched
<1>6. conn[c] \in HttpConnection /\ conn[c].write_idx = 0 /\ conn[c].write_sum = 0
  BY <1>1, <1>5 DEF HolderInv, ServerTypeOK, ReplyInv, ReplyAt, Replying
<1>7. conn'[c].write_idx = 0 /\ conn'[c].write_sum = 0
  <2>1. conn'[c] = x
    BY <1>3 DEF HolderInv, ServerTypeOK
  <2> QED BY <2>1, <1>2, <1>6 DEF HttpConnection
<1>8. events'[c] = "none"
  BY <1>1 DEF HolderInv, ServerTypeOK
<1>9. ReplyAt(c)'
  BY <1>1, <1>5, <1>7, <1>8 DEF ReplyAt, Registered, Replying
<1> QED BY <1>4, <1>9, ReplyOne

LEMMA ReplyWrite ==
    ASSUME HolderInv, ReplyInv, NEW c \in Conns, HandleWrite(c)
    PROVE  ReplyInv' /\ cur' = c /\ UNCHANGED interest
<1>1. events[c] = "OUT" /\ events' = [events EXCEPT ![c] = "none"] /\ mpc = "loop"
  BY DEF HandleWrite, Handle, InLoop
<1>2. Registered(c) /\ cur = None
  BY <1>1 DEF HolderInv, Exclusive, HeldIffOpen, Held, Fetched, LoopShape, ServerTypeOK
<1>3. conn[c].write_idx < conn[c].write_sum /\ Complete(conn[c].read_buff)
  BY <1>1, <1>2 DEF ReplyInv, ReplyAt, Replying
<1>4. conn[c] \in HttpConnection
  BY <1>2 DEF HolderInv, ServerTypeOK
<1>5. conn[c].write_sum # conn[c].write_idx
  BY <1>3, <1>4 DEF HttpConnection
<1>6. cur' = c /\ UNCHANGED <<conn, interest>>
  BY <1>5 DEF HandleWrite
<1>7. \A d \in Conns \ {c} : Still(d)
  BY <1>1, <1>2, <1>6, StillConn DEF HolderInv
<1>8. ReplyAt(c)'
  BY <1>3, <1>6 DEF ReplyAt, Replying
<1> QED BY <1>6, <1>7, <1>8, ReplyOne

LEMMA ReplySend ==
    ASSUME HolderInv, ReplyInv, NEW n \in 1..WriteBuffer, WriteSome(n) \/ WriteFails
    PROVE  ReplyInv'
<1>1. /\ InWrite /\ UNCHANGED <<interest, events, cur>>
      /\ \/ /\ n \in 1..(conn[cur].write_sum - conn[cur].write_idx - 1)
            /\ conn' = [conn EXCEPT ![cur].write_idx = @ + n]
         \/ conn' = [conn EXCEPT ![cur].write_idx = @ - 1]
  BY DEF WriteSome, WriteFails, loopVars
<1>2. PICK c \in Conns : c = cur
  BY <1>1 DEF InWrite, HolderInv, LoopShape
<1>3. Registered(c) /\ events[c] = "none" /\ conn[c] \in HttpConnection
  BY <1>2 DEF HolderInv, Exclusive, OnePlace, HeldIffOpen, Held, Fetched, ServerTypeOK
<1>4. conn[c].write_idx < conn[c].write_sum /\ Complete(conn[c].read_buff)
  BY <1>2, <1>3 DEF ReplyInv, ReplyAt, Replying
<1>5. PICK x : /\ conn' = [conn EXCEPT ![c] = x]
               /\ x.write_idx < x.write_sum /\ x.read_buff = conn[c].read_buff
  <2>1. CASE /\ n \in 1..(conn[c].write_sum - conn[c].write_idx - 1)
             /\ conn' = [conn EXCEPT ![c].write_idx = @ + n]
    <3>1. PICK x : x = [conn[c] EXCEPT !.write_idx = @ + n]
      OBVIOUS
    <3>2. conn' = [conn EXCEPT ![c] = x]
      BY <2>1, <3>1
    <3>3. /\ x.write_idx = conn[c].write_idx + n /\ x.write_sum = conn[c].write_sum
          /\ x.read_buff = conn[c].read_buff
      BY <1>3, <3>1 DEF HttpConnection
    <3>4. conn[c].write_idx \in Int /\ conn[c].write_sum \in Nat
      BY <1>3 DEF HttpConnection
    <3>5. conn[c].write_idx + n < conn[c].write_sum
      BY <2>1, <3>4
    <3> QED BY <3>1, <3>2, <3>3, <3>5
  <2>2. CASE conn' = [conn EXCEPT ![c].write_idx = @ - 1]
    <3>1. PICK x : x = [conn[c] EXCEPT !.write_idx = @ - 1]
      OBVIOUS
    <3>2. conn' = [conn EXCEPT ![c] = x]
      BY <2>2, <3>1
    <3>3. /\ x.write_idx = conn[c].write_idx - 1 /\ x.write_sum = conn[c].write_sum
          /\ x.read_buff = conn[c].read_buff
      BY <1>3, <3>1 DEF HttpConnection
    <3>4. conn[c].write_idx - 1 < conn[c].write_sum
      BY <1>3, <1>4 DEF HttpConnection
    <3> QED BY <3>1, <3>2, <3>3, <3>4
  <2> QED BY <1>1, <1>2, <2>1, <2>2
<1>6. \A d \in Conns \ {c} : Still(d)
  BY <1>1, <1>5, StillConn DEF HolderInv
<1>7. conn'[c] = x
  BY <1>5 DEF HolderInv, ServerTypeOK
<1>8. ReplyAt(c)'
  BY <1>1, <1>2, <1>4, <1>5, <1>7 DEF ReplyAt, Replying
<1> QED BY <1>6, <1>8, ReplyOne

LEMMA ReplyWritten ==
    ASSUME HolderInv, ReplyInv, WriteFull \/ WriteLinger \/ WriteClose
    PROVE  ReplyInv'
<1>1. InWrite /\ UNCHANGED events /\ cur' = None
  BY DEF WriteFull, WriteLinger, WriteClose, CanLinger
<1>2. PICK c \in Conns : c = cur
  BY <1>1 DEF InWrite, HolderInv, LoopShape
<1>3. /\ Registered(c) /\ events[c] = "none"
      /\ conn[c].write_idx < conn[c].write_sum /\ Complete(conn[c].read_buff)
  BY <1>2 DEF HolderInv, Exclusive, OnePlace, HeldIffOpen, Held, Fetched, ServerTypeOK,
              ReplyInv, ReplyAt, Replying
<1>4. c # None
  BY PoolAssumption DEF Conns
<1>5. CASE WriteFull
  <2>1. interest' = [interest EXCEPT ![c] = "OUT"] /\ UNCHANGED conn
    BY <1>2, <1>3, <1>5, Rearm DEF WriteFull
  <2>2. \A d \in Conns \ {c} : Still(d)
    BY <1>1, <1>2, <2>1, StillConn DEF HolderInv
  <2>3. interest'[c] = "OUT"
    BY <2>1 DEF HolderInv, ServerTypeOK
  <2>4. ReplyAt(c)'
    BY <1>3, <2>1, <2>3 DEF ReplyAt, Replying
  <2> QED BY <2>2, <2>4, ReplyOne
<1>6. CASE WriteLinger
  <2>1. interest' = [interest EXCEPT ![c] = "IN"] /\ conn' = [conn EXCEPT ![c] = Fresh]
    BY <1>2, <1>3, <1>6, Rearm DEF WriteLinger, InitConn
  <2>2. \A d \in Conns \ {c} : Still(d)
    BY <1>1, <1>2, <2>1, StillConn DEF HolderInv
  <2>3. interest'[c] = "IN" /\ conn'[c] = Fresh
    BY <2>1 DEF HolderInv, ServerTypeOK
  <2>4. ReplyAt(c)'
    BY <1>1, <1>3, <1>4, <2>3 DEF ReplyAt, Replying, Fresh
  <2> QED BY <2>2, <2>4, ReplyOne
<1>7. CASE WriteClose
  BY <1>1, <1>2, <1>3, <1>7, ReplyClose DEF WriteClose
<1> QED BY <1>5, <1>6, <1>7

\* A worker finds the connection it serves without a reply in its buffers, so the
\* reply fits and the worker hands the connection back.
LEMMA ReplyProcess ==
    ASSUME HolderInv, ReplyInv, NEW w \in Workers, Process(w)
    PROVE  /\ ReplyInv' /\ UNCHANGED user_count
           /\ \E ev \in {"IN", "OUT"} : interest' = [interest EXCEPT ![request[w]] = ev]
<1>1. PICK c \in Conns : c = request[w]
  BY DEF Process, Finish, HolderInv, PoolInv, PoolTypeOK, Conns
<1>2. Registered(c) /\ ~InKernel(c) /\ events[c] = "none" /\ cur # c
  BY <1>1 DEF HolderInv, Exclusive, OnePlace, HeldIffOpen, Held, AtWorker, Fetched
<1>3. conn[c] \in HttpConnection /\ conn[c].write_idx = 0 /\ conn[c].write_sum = 0
  BY <1>2 DEF HolderInv, ServerTypeOK, ReplyInv, ReplyAt, Replying, InKernel
<1>4. UNCHANGED <<events, cur>>
  BY DEF Process, loopVars
<1>5. PICK code \in Codes(conn[c].read_buff), keep \in BOOLEAN :
        IF code = "kNoRequest"
          THEN /\ interest' = Modfd(interest, c, "IN")
               /\ UNCHANGED <<conn, rx, peer, user_count>>
        ELSE IF ProcessWrite(code, conn[c].write_sum)
          THEN /\ conn' = [conn EXCEPT ![c] =
                     [@ EXCEPT !.write_sum = conn[c].write_sum + Units(code),
                               !.linger = keep]]
               /\ interest' = Modfd(interest, c, "OUT")
               /\ UNCHANGED <<rx, peer, user_count>>
        ELSE CloseConn(c)
  BY <1>1 DEF Process
<1>6. CASE code = "kNoRequest"
  <2>1. interest' = [interest EXCEPT ![c] = "IN"] /\ UNCHANGED <<conn, user_count>>
    BY <1>2, <1>5, <1>6, Rearm
  <2>2. \A d \in Conns \ {c} : Still(d)
    BY <1>4, <2>1, StillConn DEF HolderInv
  <2>3. interest'[c] = "IN"
    BY <2>1 DEF HolderInv, ServerTypeOK
  <2>4. ReplyAt(c)'
    BY <1>2, <1>3, <1>4, <2>1, <2>3 DEF ReplyAt, Replying
  <2> QED BY <1>1, <2>1, <2>2, <2>4, ReplyOne
<1>7. CASE code # "kNoRequest"
  <2>1. Complete(conn[c].read_buff)
    BY <1>5, <1>7 DEF Codes
  <2>2. ProcessWrite(code, conn[c].write_sum)
    BY <1>3, ServerAssumption DEF ProcessWrite, Units
  <2>3. PICK x : x = [conn[c] EXCEPT !.write_sum = conn[c].write_sum + Units(code),
                                     !.linger = keep]
    OBVIOUS
  <2>4. /\ conn' = [conn EXCEPT ![c] = x] /\ UNCHANGED user_count
        /\ interest' = [interest EXCEPT ![c] = "OUT"]
    BY <1>2, <1>5, <1>7, <2>2, <2>3, Rearm
  <2>5. \A d \in Conns \ {c} : Still(d)
    BY <1>4, <2>4, StillConn DEF HolderInv
  <2>6. interest'[c] = "OUT" /\ conn'[c] = x
    BY <2>4 DEF HolderInv, ServerTypeOK
  <2>7. x.write_idx = 0 /\ x.write_sum = Units(code) /\ x.read_buff = conn[c].read_buff
    <3>1. x.write_sum = conn[c].write_sum + Units(code)
      BY <1>3, <2>3 DEF HttpConnection
    <3>2. Units(code) \in Nat
      BY DEF Units
    <3> QED BY <1>3, <2>3, <3>1, <3>2 DEF HttpConnection
  <2>8. x.write_idx < x.write_sum
    BY <2>7 DEF Units
  <2>9. ReplyAt(c)'
    BY <2>1, <2>6, <2>7, <2>8 DEF ReplyAt, Replying
  <2> QED BY <1>1, <2>4, <2>5, <2>9, ReplyOne
<1> QED BY <1>6, <1>7

LEMMA ReplyMain ==
    ASSUME HolderInv, ReplyInv, Main
    PROVE  ReplyInv'
<1>1. ASSUME NEW c \in Conns, HandleHup(c) \/ HandleReadFails(c) PROVE ReplyInv'
  <2>1. /\ Fetched(c) /\ events' = [events EXCEPT ![c] = "none"]
        /\ CloseConn(c) /\ UNCHANGED cur
    BY <1>1 DEF HandleHup, HandleReadFails, Handle, Fetched
  <2>2. Registered(c)
    BY <2>1, FetchedRegistered
  <2> QED BY <2>1, <2>2, ReplyClose
<1>2. ASSUME NEW b, AcceptNone(b) PROVE ReplyInv'
  BY <1>2, ReplyFrame DEF AcceptNone
<1>3. CASE \/ EndOfBatch
           \/ /\ AppendPush \/ AppendPost
              /\ UNCHANGED <<conn, loopVars, netVars, user_count, interest>>
  BY <1>3, ReplyFrame DEF EndOfBatch, loopVars
<1>4. 1 \in 1..WriteBuffer
  BY ServerAssumption
<1>5. ASSUME NEW c \in Conns, Overrun(c) PROVE ReplyInv'
  BY <1>5, ReplyFrame DEF Overrun, loopVars
<1> QED BY <1>1, <1>2, <1>3, <1>4, <1>5, ReplyEpollWait, ReplyAccept, ReplyRead, ReplyWrite,
           ReplySend, ReplyWritten DEF Main

LEMMA ReplyNext == HolderInv /\ ReplyInv /\ [Next]_vars => ReplyInv'
<1> SUFFICES ASSUME HolderInv, ReplyInv, [Next]_vars PROVE ReplyInv'
  OBVIOUS
<1>1. CASE Client
  BY <1>1, ReplyFrame DEF Client, Connect, Send, Leave, loopVars
<1>2. CASE Main
  BY <1>2, ReplyMain
<1>3. ASSUME NEW w \in Workers, AtQueue(w) \/ QueueRace(w) PROVE ReplyInv'
  BY <1>3, ReplyFrame DEF AtQueue, QueueRace, loopVars
<1>4. ASSUME NEW w \in Workers, Process(w) PROVE ReplyInv'
  BY <1>4, ReplyProcess
<1>5. CASE UNCHANGED vars
  BY <1>5, ReplyFrame DEF vars, loopVars
<1> QED BY <1>1, <1>2, <1>3, <1>4, <1>5 DEF Next, Worker

LEMMA ReplyInvariance == Spec => [](HolderInv /\ ReplyInv)
<1>1. Init => ReplyInv
  BY DEF Init, ReplyInv, ReplyAt, Registered
<1> QED BY <1>1, HolderInvariance, ReplyNext, PTL DEF Spec

(***************************************************************************)
(* While a reply is being sent something of it is left, and the request it *)
(* answers was complete; otherwise nothing is left of an earlier reply     *)
(* (httpconnection.cpp:101-201).  Hence Write never finds write_idx_ at    *)
(* write_sum_ (its first early return is dead code).                       *)
(***************************************************************************)
THEOREM ReplyMatches == Spec => []ReplyMatchesRequest
<1>1. ReplyInv => ReplyMatchesRequest
  BY DEF ReplyInv, ReplyAt, ReplyMatchesRequest
<1> QED BY <1>1, ReplyInvariance, PTL
-----------------------------------------------------------------------------
(***************************************************************************)
(* What a step does to the set of open connections and to user_count.      *)
(***************************************************************************)
Open == {c \in Conns : Registered(c)}

Opens(c)  == c \notin Open /\ Open' = Open \cup {c} /\ user_count' = user_count + 1
Closes(c) == /\ c \in Open /\ Open' = Open \ {c} /\ user_count' = user_count - 1
             /\ UNCHANGED pc
SameOpen  == Open' = Open /\ user_count' = user_count

LEMMA OpenClose ==
    ASSUME ServerTypeOK, NEW c \in Conns, Registered(c), CloseConn(c), UNCHANGED pc
    PROVE  Closes(c)
<1>1. interest' = [interest EXCEPT ![c] = "none"] /\ user_count' = user_count - 1
  BY DEF CloseConn
<1>2. Open' = Open \ {c}
  BY <1>1 DEF Open, Registered, ServerTypeOK
<1> QED BY <1>1, <1>2 DEF Closes, Open

LEMMA OpenRearm ==
    ASSUME ServerTypeOK, NEW c \in Conns, Registered(c), NEW ev \in {"IN", "OUT"},
           interest' = [interest EXCEPT ![c] = ev], UNCHANGED user_count
    PROVE  SameOpen
BY DEF SameOpen, Open, Registered, ServerTypeOK

LEMMA OpenFrame ==
    ASSUME UNCHANGED <<interest, user_count>>
    PROVE  SameOpen
BY DEF SameOpen, Open, Registered

LEMMA OpenMain ==
    ASSUME HolderInv, ReplyInv, Main
    PROVE  SameOpen \/ \E c \in Conns : Opens(c) \/ Closes(c)
<1>0. ServerTypeOK
  BY DEF HolderInv
<1>1. ASSUME NEW C \in SUBSET Conns, NEW l, EpollWait(C, l) PROVE SameOpen
  <2>1. /\ interest' = [c \in Conns |-> IF c \in C THEN "off" ELSE interest[c]]
        /\ \A c \in C : Pending(c) # "none"
    BY <1>1 DEF EpollWait, AfterReport
  <2>2. \A c \in Conns : c \in C => interest[c] # "none"
    BY <2>1 DEF Pending
  <2>3. UNCHANGED user_count
    BY <1>1 DEF EpollWait
  <2> QED BY <2>1, <2>2, <2>3 DEF SameOpen, Open, Registered
<1>2. ASSUME NEW c \in Conns, AcceptConn(c) PROVE Opens(c)
  <2>1. /\ interest' = [interest EXCEPT ![c] = "IN"] /\ user_count' = user_count + 1
        /\ ~Registered(c)
    BY <1>2 DEF AcceptConn, CanAccept
  <2> QED BY <1>0, <2>1 DEF Opens, Open, Registered, ServerTypeOK
<1>3. ASSUME NEW c \in Conns, HandleHup(c) \/ HandleReadFails(c) PROVE Closes(c)
  <2>1. Fetched(c) /\ CloseConn(c) /\ UNCHANGED pc
    BY <1>3 DEF HandleHup, HandleReadFails, Handle, Fetched, poolVars
  <2> QED BY <1>0, <2>1, FetchedRegistered, OpenClose
<1>4. ASSUME NEW c \in Conns, HandleRead(c) PROVE SameOpen
  BY <1>4, OpenFrame DEF HandleRead
<1>5. ASSUME NEW c \in Conns, HandleWrite(c) PROVE SameOpen
  BY <1>5, ReplyWrite, OpenFrame DEF HandleWrite
<1>6. ASSUME NEW n, AcceptNone(n) \/ WriteSome(n) \/ WriteFails \/ EndOfBatch
      PROVE  SameOpen
  BY <1>6, OpenFrame DEF AcceptNone, WriteSome, WriteFails, EndOfBatch
<1>7. CASE WriteFull \/ WriteLinger \/ WriteClose
  <2>1. PICK c \in Conns : c = cur /\ Registered(c)
    BY <1>7, FetchedRegistered
       DEF WriteFull, WriteLinger, WriteClose, CanLinger, InWrite, HolderInv, LoopShape
  <2>2. CASE WriteClose
    BY <1>0, <2>1, <2>2, OpenClose DEF WriteClose, poolVars
  <2>3. CASE WriteFull \/ WriteLinger
    BY <1>0, <2>1, <2>3, Rearm, OpenRearm DEF WriteFull, WriteLinger
  <2> QED BY <1>7, <2>2, <2>3
<1>8. CASE (AppendPush \/ AppendPost)
           /\ UNCHANGED <<conn, loopVars, netVars, user_count, interest>>
  BY <1>8, OpenFrame
<1>9. ASSUME NEW c \in Conns, Overrun(c) PROVE SameOpen
  BY <1>9, OpenFrame DEF Overrun
<1> QED BY <1>1, <1>2, <1>3, <1>4, <1>5, <1>6, <1>7, <1>8, <1>9 DEF Main

LEMMA OpenNext ==
    ASSUME HolderInv, ReplyInv, [Next]_vars
    PROVE  SameOpen \/ \E c \in Conns : Opens(c) \/ Closes(c)
<1>1. CASE Client \/ UNCHANGED vars
  BY <1>1, OpenFrame DEF Client, Connect, Send, Leave, vars
<1>2. ASSUME NEW w \in Workers, AtQueue(w) \/ QueueRace(w) PROVE SameOpen
  BY <1>2, OpenFrame DEF AtQueue, QueueRace
<1>3. ASSUME NEW w \in Workers, Process(w) PROVE SameOpen
  <2>1. PICK c \in Conns : c = request[w]
    BY <1>3 DEF Process, Finish, HolderInv, PoolInv, PoolTypeOK, Conns
  <2>2. Registered(c)
    BY <2>1 DEF HolderInv, Exclusive, HeldIffOpen, Held, AtWorker
  <2> QED BY <1>3, <2>1, <2>2, ReplyProcess, OpenRearm DEF HolderInv
<1> QED BY <1>1, <1>2, <1>3, OpenMain DEF Next, Worker

(***************************************************************************)
(* user_count_ equals the number of open connections although CloseConn    *)
(* decrements it without a lock (httpconnection.cpp:97): no worker ever    *)
(* does, as OnlyLoopClosing shows.                                         *)
(***************************************************************************)
THEOREM CountExact == Spec => []UserCountExact
<1>1. Init => UserCountExact
  <2>1. ASSUME Init PROVE Open = {} /\ user_count = 0
    BY <2>1 DEF Init, Open, Registered
  <2> QED BY <2>1, FS_EmptySet DEF UserCountExact, Open
<1>2. HolderInv /\ ReplyInv /\ UserCountExact /\ [Next]_vars => UserCountExact'
  <2> SUFFICES ASSUME HolderInv, ReplyInv, UserCountExact, [Next]_vars
               PROVE  user_count' = Cardinality(Open')
    BY DEF UserCountExact, Open
  <2>1. IsFiniteSet(Open) /\ user_count = Cardinality(Open)
    BY ServerAssumption, FS_Subset DEF Open, UserCountExact
  <2>2. Cardinality(Open) \in Nat
    BY <2>1, FS_CardinalityType
  <2>3. CASE SameOpen
    BY <2>1, <2>3 DEF SameOpen
  <2>4. ASSUME NEW c \in Conns, Opens(c) PROVE user_count' = Cardinality(Open')
    BY <2>1, <2>4, FS_AddElement DEF Opens
  <2>5. ASSUME NEW c \in Conns, Closes(c) PROVE user_count' = Cardinality(Open')
    BY <2>1, <2>5, FS_RemoveElement DEF Closes
  <2> QED BY <2>3, <2>4, <2>5, OpenNext
<1> QED BY <1>1, <1>2, ReplyInvariance, PTL DEF Spec

(***************************************************************************)
(* Process never takes its CloseConn branch (httpconnection.cpp:110-112):  *)
(* whenever a connection is closed, no worker moves.                       *)
(***************************************************************************)
THEOREM OnlyLoopClosing == Spec => OnlyLoopCloses
<1>1. HolderInv /\ ReplyInv /\ [Next]_vars
        => [(\E c \in Conns : Registered(c) /\ ~Registered(c)') => UNCHANGED pc]_vars
  <2> SUFFICES ASSUME HolderInv, ReplyInv, [Next]_vars,
                      NEW c \in Conns, Registered(c), ~Registered(c)'
               PROVE  UNCHANGED pc
    OBVIOUS
  <2>1. c \in Open /\ c \notin Open'
    BY DEF Open
  <2>2. SameOpen \/ \E d \in Conns : Opens(d) \/ Closes(d)
    BY OpenNext
  <2> QED BY <2>1, <2>2 DEF SameOpen, Opens, Closes
<1> QED BY <1>1, ReplyInvariance, PTL DEF Spec, OnlyLoopCloses
-----------------------------------------------------------------------------
(***************************************************************************)
(* The HTTP server implements ConnLifecycle, for any number of connections *)
(* and workers: the initial states map to initial states, and every step   *)
(* to a move of one connection, a delivery, a halt, or a stutter.          *)
(***************************************************************************)
\* With one holder per connection the order of the tests in Owner is irrelevant.
LEMMA OwnerIs ==
    ASSUME Exclusive, NEW c \in Conns
    PROVE  /\ Owner[c] = "none" <=> ~Registered(c)
           /\ Owner[c] = "kernel" <=> InKernel(c)
           /\ Owner[c] = "loop" <=> AtLoop(c)
           /\ Owner[c] = "queue" <=> InQueue(c)
           /\ Owner[c] = "worker" <=> AtWorker(c)
<1>1. /\ Registered(c) <=> InKernel(c) \/ AtLoop(c) \/ InQueue(c) \/ AtWorker(c)
      /\ InKernel(c) => ~(AtLoop(c) \/ InQueue(c) \/ AtWorker(c))
      /\ AtLoop(c) => ~(InQueue(c) \/ AtWorker(c))
      /\ InQueue(c) => ~AtWorker(c)
  BY DEF Exclusive, HeldIffOpen, OnePlace, Held, Fetched, Appending, AtLoop
<1> QED BY <1>1 DEF Owner

LEMMA OwnerIsNext ==
    ASSUME Exclusive', NEW c \in Conns
    PROVE  /\ Owner'[c] = "none" <=> ~Registered(c)'
           /\ Owner'[c] = "kernel" <=> InKernel(c)'
           /\ Owner'[c] = "loop" <=> AtLoop(c)'
           /\ Owner'[c] = "queue" <=> InQueue(c)'
           /\ Owner'[c] = "worker" <=> AtWorker(c)'
<1>1. /\ Registered(c)' <=> InKernel(c)' \/ AtLoop(c)' \/ InQueue(c)' \/ AtWorker(c)'
      /\ InKernel(c)' => ~(AtLoop(c)' \/ InQueue(c)' \/ AtWorker(c)')
      /\ AtLoop(c)' => ~(InQueue(c)' \/ AtWorker(c)')
      /\ InQueue(c)' => ~AtWorker(c)'
  BY DEF Exclusive, HeldIffOpen, OnePlace, Held, Fetched, Appending, AtLoop
<1> QED BY <1>1 DEF Owner

\* A connection that stays where it is keeps its owner.
LEMMA OwnerStays ==
    ASSUME NEW c \in Conns, SameHolder(c)
    PROVE  Owner'[c] = Owner[c]
BY DEF SameHolder, Owner, AtLoop, Fetched, Appending

LEMMA OwnerFrame ==
    ASSUME UNCHANGED <<interest, events, cur, work_queue, request>>,
           \A c \in Conns : Appending(c)' <=> Appending(c)
    PROVE  UNCHANGED Owner
<1>1. \A c \in Conns : SameHolder(c)
  BY DEF SameHolder, Registered, InKernel, Fetched, InQueue, AtWorker
<1> QED BY <1>1, OwnerStays DEF Owner

\* One connection moves.
LEMMA OwnerMove ==
    ASSUME NEW c \in Conns, NEW to, \A d \in Conns \ {c} : SameHolder(d), Owner'[c] = to
    PROVE  Owner' = [Owner EXCEPT ![c] = to]
<1>1. \A d \in Conns : Owner'[d] = IF d = c THEN to ELSE Owner[d]
  BY OwnerStays
<1>2. Owner = [d \in Conns |-> Owner[d]] /\ Owner' = [d \in Conns |-> Owner'[d]]
  BY DEF Owner
<1> QED BY <1>1, <1>2

\* What else but the event on it moves c alone.
LEMMA OthersStay ==
    ASSUME ServerTypeOK, NEW c \in Conns, NEW i,
           interest' = [interest EXCEPT ![c] = i] \/ interest' = interest,
           events' = [events EXCEPT ![c] = "none"] \/ events' = events,
           cur' = cur \/ (cur = None /\ cur' = c) \/ (cur = c /\ cur' = None),
           UNCHANGED <<work_queue, request>>,
           \A d \in Conns \ {c} : Appending(d)' <=> Appending(d)
    PROVE  \A d \in Conns \ {c} : SameHolder(d)
<1> SUFFICES ASSUME NEW d \in Conns, d # c PROVE SameHolder(d)
  OBVIOUS
<1>1. interest'[d] = interest[d]
  BY DEF ServerTypeOK
<1>2. events'[d] = events[d]
  BY DEF ServerTypeOK
<1>3. d # None
  BY PoolAssumption DEF Conns
<1> QED BY <1>1, <1>2, <1>3 DEF SameHolder, Registered, InKernel, Fetched, InQueue, AtWorker
-----------------------------------------------------------------------------
(***************************************************************************)
(* The actions of the event loop.                                          *)
(***************************************************************************)
LEMMA MapEpollWait ==
    ASSUME HolderInv, Exclusive', NEW C \in SUBSET Conns, NEW l, EpollWait(C, l)
    PROVE  Lifecycle!Deliver(C)
<1>1. /\ \A c \in C : InKernel(c)
      /\ \A c \in Conns : /\ InKernel(c)' <=> InKernel(c) /\ c \notin C
                          /\ Fetched(c)' <=> Fetched(c) \/ c \in C
                          /\ Registered(c)' <=> Registered(c)
      /\ ~ruined /\ UNCHANGED <<cur, append, work, work_queue, request, ruined>>
  BY DEF EpollWait, AfterReport, Pending, InKernel, Fetched, Registered, poolVars
<1>2. \A c \in C : Owner[c] = "kernel" /\ Owner'[c] = "loop"
  BY <1>1, OwnerIs, OwnerIsNext DEF HolderInv, AtLoop, Fetched
<1>3. \A c \in Conns \ C : SameHolder(c)
  BY <1>1 DEF SameHolder, Appending, InQueue, AtWorker
<1>4. \A c \in Conns : Owner'[c] = IF c \in C THEN "loop" ELSE Owner[c]
  BY <1>2, <1>3, OwnerStays
<1>5. Owner' = [c \in Conns |-> Owner'[c]]
  BY DEF Owner
<1> QED BY <1>1, <1>2, <1>4, <1>5 DEF Lifecycle!Deliver

LEMMA MapAccept ==
    ASSUME HolderInv, Exclusive', NEW c \in Conns, AcceptConn(c)
    PROVE  Lifecycle!Accept(c)
<1>1. /\ interest' = [interest EXCEPT ![c] = "IN"] /\ ~Registered(c) /\ ~ruined
      /\ UNCHANGED <<events, cur, work_queue, request, append, work, ruined>>
  BY DEF AcceptConn, CanAccept, poolVars, InLoop
<1>2. InKernel(c)'
  BY <1>1 DEF InKernel, HolderInv, ServerTypeOK
<1>3. Owner[c] = "none" /\ Owner'[c] = "kernel"
  BY <1>1, <1>2, OwnerIs, OwnerIsNext DEF HolderInv
<1>4. \A d \in Conns \ {c} : SameHolder(d)
  BY <1>1, OthersStay DEF HolderInv, Appending
<1> QED BY <1>1, <1>3, <1>4, OwnerMove DEF Lifecycle!Accept, Lifecycle!Move

\* The loop is done with c and closes it or arms it again.
LEMMA MapRelease ==
    ASSUME HolderInv, Exclusive', NEW c \in Conns, AtLoop(c), ~Appending(c), ~ruined,
           NEW i \in {"none", "IN", "OUT"},
           interest' = [interest EXCEPT ![c] = i],
           events' = [events EXCEPT ![c] = "none"] \/ events' = events,
           cur' = cur \/ (cur = c /\ cur' = None),
           UNCHANGED poolVars
    PROVE  Lifecycle!Close(c) \/ Lifecycle!Rearm(c)
<1>1. UNCHANGED <<work_queue, request, append, work, ruined>>
  BY DEF poolVars
<1>2. \A d \in Conns \ {c} : SameHolder(d)
  BY <1>1, OthersStay DEF HolderInv, Appending
<1>3. Owner[c] = "loop"
  BY OwnerIs DEF HolderInv
<1>4. interest'[c] = i
  BY DEF HolderInv, ServerTypeOK
<1>5. CASE i = "none"
  <2>1. Owner'[c] = "none"
    BY <1>4, <1>5, OwnerIsNext DEF Registered
  <2> QED BY <1>1, <1>2, <1>3, <2>1, OwnerMove DEF Lifecycle!Close, Lifecycle!Move
<1>6. CASE i # "none"
  <2>1. Owner'[c] = "kernel"
    BY <1>4, <1>6, OwnerIsNext DEF InKernel
  <2> QED BY <1>1, <1>2, <1>3, <2>1, OwnerMove DEF Lifecycle!Rearm, Lifecycle!Move
<1> QED BY <1>5, <1>6

\* The loop passes c from one hand to the other.
LEMMA MapKeep ==
    ASSUME HolderInv, Exclusive', NEW c \in Conns, HandleRead(c) \/ HandleWrite(c),
           UNCHANGED interest, cur' = cur \/ (cur = None /\ cur' = c), AtLoop(c)'
    PROVE  UNCHANGED <<Owner, ruined>>
<1>1. /\ Fetched(c) /\ events' = [events EXCEPT ![c] = "none"]
      /\ append = "idle" /\ (work' = c \/ append' = "idle")
      /\ UNCHANGED <<work_queue, request, ruined>>
  BY DEF HandleRead, HandleWrite, Handle, InLoop, AppendCall, Fetched, poolVars
<1>2. \A d \in Conns \ {c} : SameHolder(d)
  BY <1>1, OthersStay DEF HolderInv, Appending
<1>3. Owner[c] = "loop" /\ Owner'[c] = "loop"
  BY <1>1, OwnerIs, OwnerIsNext DEF HolderInv, AtLoop, Fetched
<1>4. \A d \in Conns : Owner'[d] = Owner[d]
  BY <1>2, <1>3, OwnerStays
<1>5. Owner = [d \in Conns |-> Owner[d]] /\ Owner' = [d \in Conns |-> Owner'[d]]
  BY DEF Owner
<1> QED BY <1>1, <1>4, <1>5

LEMMA MapPush ==
    ASSUME HolderInv, Exclusive', AppendPush, UNCHANGED <<cur, events, interest>>
    PROVE  \E c \in Conns : Lifecycle!Enqueue(c)
<1>1. PICK c \in Conns : /\ Appending(c) /\ InQueue(c)'
                         /\ \A d \in Conns \ {c} : SameHolder(d)
  BY HolderPush
<1>2. ~ruined /\ UNCHANGED ruined
  BY DEF AppendPush
<1>3. Owner[c] = "loop" /\ Owner'[c] = "queue"
  BY <1>1, OwnerIs, OwnerIsNext DEF HolderInv, AtLoop, Appending
<1> QED BY <1>1, <1>2, <1>3, OwnerMove DEF Lifecycle!Enqueue, Lifecycle!Move

LEMMA MapMain ==
    ASSUME HolderInv, ReplyInv, Exclusive', Main
    PROVE  Lifecycle!Next \/ UNCHANGED <<Owner, ruined>>
<1>1. ASSUME NEW c \in Conns, HandleHup(c) \/ HandleReadFails(c) PROVE Lifecycle!Next
  <2>1. /\ Fetched(c) /\ events' = [events EXCEPT ![c] = "none"] /\ append = "idle" /\ ~ruined
        /\ CloseConn(c) /\ UNCHANGED <<cur, poolVars>>
    BY <1>1 DEF HandleHup, HandleReadFails, Handle, InLoop, Fetched
  <2>2. interest' = [interest EXCEPT ![c] = "none"]
    BY <2>1, FetchedRegistered, Unregister
  <2> QED BY <2>1, <2>2, MapRelease DEF AtLoop, Fetched, Appending, Lifecycle!Next
<1>2. ASSUME NEW c \in Conns, HandleRead(c) PROVE UNCHANGED <<Owner, ruined>>
  <2>1. /\ UNCHANGED <<interest, cur>> /\ AtLoop(c)'
    BY <1>2 DEF HandleRead, AppendCall, AtLoop
  <2> QED BY <1>2, <2>1, MapKeep
<1>3. ASSUME NEW c \in Conns, HandleWrite(c) PROVE UNCHANGED <<Owner, ruined>>
  <2>1. cur' = c /\ UNCHANGED interest
    BY <1>3, ReplyWrite
  <2>2. cur = None
    BY <1>3 DEF HandleWrite, Handle, InLoop, HolderInv, LoopShape, ServerTypeOK
  <2> QED BY <1>3, <2>1, <2>2, MapKeep DEF AtLoop
<1>4. CASE WriteFull \/ WriteLinger \/ WriteClose
  <2>1. PICK c \in Conns : c = cur /\ Registered(c)
    BY <1>4, FetchedRegistered
       DEF WriteFull, WriteLinger, WriteClose, CanLinger, InWrite, HolderInv, LoopShape
  <2>2. \E i \in {"none", "IN", "OUT"} : interest' = [interest EXCEPT ![c] = i]
    BY <1>4, <2>1, Unregister, Rearm DEF WriteFull, WriteLinger, WriteClose
  <2>3. ~ruined /\ cur' = None /\ UNCHANGED <<events, poolVars>>
    BY <1>4 DEF WriteFull, WriteLinger, WriteClose, CanLinger, InWrite
  <2>4. AtLoop(c) /\ ~Appending(c)
    BY <2>1, AtLoopOnly DEF AtLoop
  <2> QED BY <2>1, <2>2, <2>3, <2>4, MapRelease DEF Lifecycle!Next
<1>5. ASSUME NEW n, AcceptNone(n) \/ WriteSome(n) \/ WriteFails \/ EndOfBatch
      PROVE  UNCHANGED <<Owner, ruined>>
  BY <1>5, OwnerFrame DEF AcceptNone, WriteSome, WriteFails, EndOfBatch, poolVars, loopVars,
                          Appending
<1>6. CASE AppendPost /\ UNCHANGED <<conn, loopVars, netVars, user_count, interest>>
  BY <1>6, OwnerFrame DEF AppendPost, loopVars, Appending
<1>7. CASE AppendPush /\ UNCHANGED <<conn, loopVars, netVars, user_count, interest>>
  BY <1>7, MapPush DEF loopVars, Lifecycle!Next
<1>8. ASSUME NEW C \in SUBSET Conns, NEW l, EpollWait(C, l) PROVE Lifecycle!Next
  BY <1>8, MapEpollWait DEF Lifecycle!Next
<1>9. ASSUME NEW c \in Conns, AcceptConn(c) PROVE Lifecycle!Next
  BY <1>9, MapAccept DEF Lifecycle!Next
<1>10. ASSUME NEW c \in Conns, Overrun(c) PROVE Lifecycle!Next
  <2>1. UNCHANGED Owner
    BY <1>10, OwnerFrame DEF Overrun, Ruin, loopVars, Appending
  <2> QED BY <1>10, <2>1 DEF Overrun, Ruin, Lifecycle!Next, Lifecycle!Halt
<1> QED BY <1>1, <1>2, <1>3, <1>4, <1>5, <1>6, <1>7, <1>8, <1>9, <1>10 DEF Main
-----------------------------------------------------------------------------
(***************************************************************************)
(* The actions of a worker.                                                *)
(***************************************************************************)
LEMMA MapWorker ==
    ASSUME HolderInv, ReplyInv, Exclusive', NEW w \in Workers, Worker(w) \/ QueueRace(w)
    PROVE  Lifecycle!Next \/ UNCHANGED <<Owner, ruined>>
<1>1. CASE QueueRace(w)
  <2>1. UNCHANGED Owner
    BY <1>1, OwnerFrame DEF QueueRace, Race, Ruin, loopVars, Appending
  <2> QED BY <1>1, <2>1 DEF QueueRace, Race, Ruin, Lifecycle!Next, Lifecycle!Halt
<1>2. CASE AtQueue(w) /\ (Wait(w) \/ Lock(w))
  BY <1>2, OwnerFrame DEF AtQueue, Wait, Lock, loopVars, Appending
<1>3. CASE AtQueue(w) /\ Pop(w)
  <2>1. UNCHANGED <<cur, events, interest, ruined>> /\ ~ruined
    BY <1>3 DEF AtQueue, Pop, loopVars
  <2>2. CASE UNCHANGED <<work_queue, request, append, work>>
    BY <2>1, <2>2, OwnerFrame DEF Appending
  <2>3. CASE \E c \in Conns : /\ InQueue(c) /\ AtWorker(c)'
                              /\ \A d \in Conns \ {c} : SameHolder(d)
    <3>1. PICK c \in Conns : /\ InQueue(c) /\ AtWorker(c)'
                             /\ \A d \in Conns \ {c} : SameHolder(d)
      BY <2>3
    <3>2. Owner[c] = "queue" /\ Owner'[c] = "worker"
      BY <3>1, OwnerIs, OwnerIsNext DEF HolderInv
    <3> QED BY <2>1, <3>1, <3>2, OwnerMove DEF Lifecycle!Next, Lifecycle!Take, Lifecycle!Move
  <2> QED BY <1>3, <2>1, <2>2, <2>3, HolderPop
<1>4. CASE Process(w)
  <2>1. PICK c \in Conns : c = request[w] /\ AtWorker(c)
    BY <1>4, ProcessRearms
  <2>2. PICK ev \in {"IN", "OUT"} : interest' = [interest EXCEPT ![c] = ev]
    BY <1>4, <2>1, ReplyProcess
  <2>3. InKernel(c)'
    BY <2>2 DEF InKernel, HolderInv, ServerTypeOK
  <2>4. Owner[c] = "worker" /\ Owner'[c] = "kernel"
    BY <2>1, <2>3, OwnerIs, OwnerIsNext DEF HolderInv
  <2>5. \A d \in Conns \ {c} : SameHolder(d)
    BY <1>4, <2>1, HolderProcess
  <2>6. ~ruined /\ UNCHANGED ruined
    BY <1>4 DEF Process, Finish
  <2> QED BY <2>4, <2>5, <2>6, OwnerMove DEF Lifecycle!Next, Lifecycle!Serve, Lifecycle!Move
<1> QED BY <1>1, <1>2, <1>3, <1>4 DEF Worker, AtQueue

(***************************************************************************)
(* The event loop and the workers of note 17 move every connection only as *)
(* ConnLifecycle allows: kernel to loop by epoll_wait, loop to queue by    *)
(* Append, queue to worker by Run, worker back to the kernel by Process,   *)
(* and only from the loop to closed.                                       *)
(***************************************************************************)
THEOREM ImplementsLifecycle == Spec => Lifecycle!Safety
<1>1. Init => Lifecycle!Init
  <2> SUFFICES ASSUME Init PROVE Lifecycle!Init
    OBVIOUS
  <2>1. \A c \in Conns : ~Registered(c)
    BY DEF Init, Registered
  <2>2. Owner = [c \in Conns |-> "none"]
    BY <2>1 DEF Owner
  <2> QED BY <2>2 DEF Lifecycle!Init, Init, PoolInit
<1>2. HolderInv /\ ReplyInv /\ HolderInv' /\ [Next]_vars => [Lifecycle!Next]_(Lifecycle!vars)
  <2> SUFFICES ASSUME HolderInv, ReplyInv, HolderInv', [Next]_vars
               PROVE  Lifecycle!Next \/ UNCHANGED <<Owner, ruined>>
    BY DEF Lifecycle!vars
  <2>0. Exclusive'
    BY DEF HolderInv
  <2>1. CASE Client \/ UNCHANGED vars
    BY <2>1, OwnerFrame
       DEF Client, Connect, Send, Leave, vars, poolVars, loopVars, Appending
  <2>2. CASE Main
    BY <2>0, <2>2, MapMain
  <2>3. ASSUME NEW w \in Workers, Worker(w) \/ QueueRace(w)
        PROVE  Lifecycle!Next \/ UNCHANGED <<Owner, ruined>>
    BY <2>0, <2>3, MapWorker
  <2> QED BY <2>1, <2>2, <2>3 DEF Next
<1> QED BY <1>1, <1>2, ReplyInvariance, PTL DEF Spec, Lifecycle!Safety
=============================================================================
