----------------------------- MODULE ThreadPool -----------------------------
(***************************************************************************)
(* The work queue of the HTTP server (threadpool.h, threadpool.cpp and the *)
(* Sem and Mutex of locker.h): the event loop appends tasks, the worker    *)
(* threads wait for a permit of the semaphore, lock the queue, take its    *)
(* head and process it.  Append() takes no lock: threadpool.h:18 pushes to *)
(* the std::queue while a worker may be inside empty()/front()/pop() under *)
(* queue_mutex.  That overlap is a data race, so it may also end in a      *)
(* state of which nothing can be said: `ruined`.                           *)
(***************************************************************************)
EXTENDS Integers, Sequences, FiniteSets

CONSTANTS Tasks,     \* the T* values that are appended, never null
          Workers,   \* the threads of threads_
          None       \* no task, no thread

ASSUME PoolAssumption == /\ Workers # {}
                         /\ IsFiniteSet(Workers)
                         /\ None \notin Tasks \cup Workers

VARIABLES work_queue,   \* the std::queue, head first
          queuestat,    \* permits of the semaphore
          queue_mutex,  \* the worker that holds the mutex, or None
          append,       \* where the event loop is in Append
          work,         \* the argument of that call
          pc,           \* where each worker is in Run
          request,      \* the local variable of Run
          ruined        \* memory is destroyed, the program may do anything

poolVars == <<work_queue, queuestat, queue_mutex, append, work, pc, request, ruined>>

PoolInit == /\ work_queue = <<>>
            /\ queuestat = 0
            /\ queue_mutex = None
            /\ append = "idle"
            /\ work = None
            /\ pc = [w \in Workers |-> "wait"]
            /\ request = [w \in Workers |-> None]
            /\ ruined = FALSE
-----------------------------------------------------------------------------
(***************************************************************************)
(* Append, called by the event loop.                                       *)
(***************************************************************************)
AppendCall(t) ==
    /\ ~ruined /\ append = "idle"
    /\ append' = "push"
    /\ work' = t
    /\ UNCHANGED <<work_queue, queuestat, queue_mutex, pc, request, ruined>>

AppendPush ==
    /\ ~ruined /\ append = "push"
    /\ work_queue' = Append(work_queue, work)
    /\ append' = "post"
    /\ UNCHANGED <<queuestat, queue_mutex, work, pc, request, ruined>>

AppendPost ==
    /\ ~ruined /\ append = "post"
    /\ queuestat' = queuestat + 1
    /\ append' = "idle"
    /\ work' = None
    /\ UNCHANGED <<work_queue, queue_mutex, pc, request, ruined>>

(***************************************************************************)
(* Run, one iteration of the loop of worker w.  sem_wait blocks until a    *)
(* permit can be taken; no signal handler is installed, so it is not       *)
(* interrupted.                                                            *)
(***************************************************************************)
WaitUnchecked(w) ==  \* defective variant: the result of sem_trywait is ignored
    /\ ~ruined /\ pc[w] = "wait"
    /\ queuestat' = IF queuestat > 0 THEN queuestat - 1 ELSE 0
    /\ pc' = [pc EXCEPT ![w] = "lock"]
    /\ UNCHANGED <<work_queue, queue_mutex, append, work, request, ruined>>

Wait(w) ==
    /\ ~ruined /\ pc[w] = "wait" /\ queuestat > 0
    /\ queuestat' = queuestat - 1
    /\ pc' = [pc EXCEPT ![w] = "lock"]
    /\ UNCHANGED <<work_queue, queue_mutex, append, work, request, ruined>>

Lock(w) ==
    /\ ~ruined /\ pc[w] = "lock" /\ queue_mutex = None
    /\ queue_mutex' = w
    /\ pc' = [pc EXCEPT ![w] = "pop"]
    /\ UNCHANGED <<work_queue, queuestat, append, work, request, ruined>>

Pop(w) ==
    /\ ~ruined /\ pc[w] = "pop"
    /\ queue_mutex' = None
    /\ IF work_queue = <<>>
         THEN /\ pc' = [pc EXCEPT ![w] = "wait"]
              /\ UNCHANGED <<work_queue, request>>
         ELSE /\ request' = [request EXCEPT ![w] = Head(work_queue)]
              /\ work_queue' = Tail(work_queue)
              /\ pc' = [pc EXCEPT ![w] = "process"]
    /\ UNCHANGED <<queuestat, append, work, ruined>>

\* request->Process() returns: what it does to the task is the caller's model.
Finish(w) ==
    /\ ~ruined /\ pc[w] = "process"
    /\ pc' = [pc EXCEPT ![w] = "wait"]
    /\ request' = [request EXCEPT ![w] = None]
    /\ UNCHANGED <<work_queue, queuestat, queue_mutex, append, work, ruined>>

\* The program runs into undefined behaviour, here or elsewhere.
Ruin == /\ ~ruined
        /\ ruined' = TRUE
        /\ UNCHANGED <<work_queue, queuestat, queue_mutex, append, work, pc, request>>

\* push_back moves the end of the deque (and may reallocate its map) while a
\* worker reads and moves its beginning: the worker may take anything.
Race(w) == append = "push" /\ pc[w] = "pop" /\ Ruin

PoolNext ==
    \/ \E t \in Tasks : AppendCall(t)
    \/ AppendPush
    \/ AppendPost
    \/ \E w \in Workers : Wait(w) \/ Lock(w) \/ Pop(w) \/ Finish(w)
    \/ Ruin

PoolSpec == PoolInit /\ [][PoolNext]_poolVars
-----------------------------------------------------------------------------
PoolTypeOK ==
    /\ work_queue \in Seq(Tasks)
    /\ queuestat \in Nat
    /\ queue_mutex \in Workers \cup {None}
    /\ append \in {"idle", "push", "post"}
    /\ work \in Tasks \cup {None}
    /\ work \in Tasks <=> append # "idle"
    /\ pc \in [Workers -> {"wait", "lock", "pop", "process"}]
    /\ request \in [Workers -> Tasks \cup {None}]
    /\ \A w \in Workers : request[w] \in Tasks <=> pc[w] = "process"
    /\ ruined \in BOOLEAN

\* Workers that have taken a permit and not yet the task it stands for.
Admitted == {w \in Workers : pc[w] \in {"lock", "pop"}}

(***************************************************************************)
(* A permit for every task: each queued task is announced by a permit, by  *)
(* a worker that took its permit, or by the Post the event loop still has  *)
(* to do.  So no task is stranded in the queue and no worker that was      *)
(* woken finds the queue empty (the `continue` of threadpool.cpp:62-66).   *)
(***************************************************************************)
PermitPerTask ==
    Len(work_queue) = queuestat + Cardinality(Admitted)
                                + (IF append = "post" THEN 1 ELSE 0)

\* The mutex is held by exactly the worker that is at the queue.
MutexHeld == \A w \in Workers : pc[w] = "pop" <=> queue_mutex = w

(***************************************************************************)
(* threadpool.h:32 calls queue_mutex the lock that protects the work       *)
(* queue.  Then no two threads are at the queue at once.                   *)
(***************************************************************************)
MutexProtectsQueue == ~(append = "push" /\ \E w \in Workers : pc[w] = "pop")
=============================================================================
