------------------------- MODULE SemaphoreExercise --------------------------
(***************************************************************************)
(* The exercise of note 14 (main.cpp): processes print two letters at a    *)
(* time, and a System V semaphore, taken and given with SEM_UNDO, is to    *)
(* keep the pairs whole.  Any of them may be started with an argument,     *)
(* which makes it set the semaphore to 1 at first and remove it at last,   *)
(* and any of them may be killed.                                          *)
(*                                                                         *)
(* The kernel's part: a semaphore is created with value 0; every process   *)
(* has an adjustment that its end adds to the value, not below 0; SETVAL   *)
(* clears all adjustments.                                                 *)
(***************************************************************************)
EXTENDS Integers, FiniteSets

CONSTANTS Procs,
          LOOPS,     \* pairs that a process prints, 10
          MaxStarts  \* how often a process is started, of all of them

ASSUME SemaphoreAssumption == IsFiniteSet(Procs) /\ LOOPS \in Nat /\ MaxStarts \in Nat

VARIABLES sem,       \* kernel: the identifier under the key, 0 if there is none
          val, adj,  \* kernel: its value, and the adjustment of each process
          created,   \* kernel: identifiers given so far
          pc, sem_id, first, i, \* each process; first: it has an argument
          starts,
          isSet,     \* history: the semaphore was set to 1
          disturbed  \* history: it was set or removed although somebody was inside

kernel  == <<sem, val, adj, created>>
local   == <<pc, sem_id, first, i>>
semVars == <<kernel, local, starts, isSet, disturbed>>

SemInit == /\ sem = 0 /\ val = 0 /\ adj = [p \in Procs |-> 0] /\ created = 0
           /\ pc = [p \in Procs |-> "out"]
           /\ sem_id = [p \in Procs |-> 0]
           /\ first = [p \in Procs |-> FALSE]
           /\ i = [p \in Procs |-> 0]
           /\ starts = 0 /\ isSet = FALSE /\ disturbed = FALSE

Inside(p) == pc[p] \in {"print", "again", "leave"}
Others(p) == \E q \in Procs \ {p} : Inside(q)

\* The call meets the semaphore that the process asked for.
Valid(p) == sem # 0 /\ sem_id[p] = sem

Goes(p, from, to) == pc[p] = from /\ pc' = [pc EXCEPT ![p] = to]
-----------------------------------------------------------------------------
\* semget() with IPC_CREAT finds the semaphore or makes one.
Start(p, arg) ==
    /\ starts < MaxStarts
    /\ starts' = starts + 1
    /\ Goes(p, "out", IF arg THEN "set" ELSE "P")
    /\ first' = [first EXCEPT ![p] = arg]
    /\ i' = [i EXCEPT ![p] = 0]
    /\ sem' = IF sem = 0 THEN created + 1 ELSE sem
    /\ sem_id' = [sem_id EXCEPT ![p] = sem']
    /\ created' = IF sem = 0 THEN created + 1 ELSE created
    /\ val' = IF sem = 0 THEN 0 ELSE val
    /\ isSet' = (sem # 0 /\ isSet)
    /\ UNCHANGED <<adj, disturbed>>

\* semctl(SETVAL), whether or not somebody is inside.
SetVal(p) ==
    /\ Valid(p)
    /\ Goes(p, "set", "P")
    /\ val' = 1 /\ adj' = [q \in Procs |-> 0]
    /\ isSet' = TRUE
    /\ disturbed' = (disturbed \/ Others(p))
    /\ UNCHANGED <<sem, created, sem_id, first, i, starts>>

\* Mutant: without SEM_UNDO.
PLasting(p) == /\ Valid(p) /\ i[p] < LOOPS /\ val > 0
               /\ Goes(p, "P", "print")
               /\ val' = val - 1
               /\ UNCHANGED <<sem, adj, created, sem_id, first, i, starts, isSet, disturbed>>

P(p) == /\ Valid(p) /\ i[p] < LOOPS /\ val > 0
        /\ Goes(p, "P", "print")
        /\ val' = val - 1
        /\ adj' = [adj EXCEPT ![p] = @ + 1]
        /\ UNCHANGED <<sem, created, sem_id, first, i, starts, isSet, disturbed>>

\* The two letters.
Letter(p) == /\ Goes(p, "print", "again") \/ Goes(p, "again", "leave")
            /\ UNCHANGED <<kernel, sem_id, first, i, starts, isSet, disturbed>>

\* Mutant: without SEM_UNDO.
VLasting(p) == /\ Valid(p)
               /\ Goes(p, "leave", "P")
               /\ val' = val + 1
               /\ i' = [i EXCEPT ![p] = @ + 1]
               /\ UNCHANGED <<sem, adj, created, sem_id, first, starts, isSet, disturbed>>

V(p) == /\ Valid(p)
        /\ Goes(p, "leave", "P")
        /\ val' = val + 1
        /\ adj' = [adj EXCEPT ![p] = @ - 1]
        /\ i' = [i EXCEPT ![p] = @ + 1]
        /\ UNCHANGED <<sem, created, sem_id, first, starts, isSet, disturbed>>

\* What the kernel does when p ends.
Ends(p) == /\ pc' = [pc EXCEPT ![p] = "out"]
           /\ val' = IF val + adj[p] > 0 THEN val + adj[p] ELSE 0
           /\ adj' = [adj EXCEPT ![p] = 0]
           /\ UNCHANGED <<sem, created, sem_id, first, i, starts, isSet>>

\* A call fails: the semaphore is gone, and the process exits.
Fails(p) == /\ pc[p] \in {"set", "leave", "remove"} \/ (pc[p] = "P" /\ i[p] < LOOPS)
            /\ ~Valid(p)
            /\ Ends(p) /\ UNCHANGED disturbed

\* All pairs are printed.
Done(p) == /\ pc[p] = "P" /\ i[p] = LOOPS
           /\ IF first[p] THEN /\ Goes(p, "P", "remove")
                               /\ UNCHANGED <<kernel, sem_id, first, i, starts, isSet>>
                          ELSE Ends(p)
           /\ UNCHANGED disturbed

\* semctl(IPC_RMID), whether or not somebody is inside.
Remove(p) == /\ Valid(p)
             /\ Goes(p, "remove", "out")
             /\ sem' = 0 /\ val' = 0 /\ adj' = [q \in Procs |-> 0]
             /\ isSet' = FALSE
             /\ disturbed' = (disturbed \/ Others(p))
             /\ UNCHANGED <<created, sem_id, first, i, starts>>

Kill(p) == pc[p] # "out" /\ Ends(p) /\ UNCHANGED disturbed
-----------------------------------------------------------------------------
Run(p) == SetVal(p) \/ P(p) \/ Letter(p) \/ V(p) \/ Fails(p) \/ Done(p) \/ Remove(p)

SemNext == \E p \in Procs : (\E arg \in BOOLEAN : Start(p, arg)) \/ Run(p) \/ Kill(p)

SemSpec == SemInit /\ [][SemNext]_semVars

\* A process that can run runs; nobody has to be started or killed.
SemFairSpec == SemSpec /\ \A p \in Procs : WF_semVars(Run(p))
-----------------------------------------------------------------------------
SemTypeOK == /\ sem \in 0..created /\ val \in Nat /\ created \in Nat
             /\ adj \in [Procs -> {-1, 0, 1}]
             /\ pc \in [Procs -> {"out", "set", "P", "print", "again", "leave", "remove"}]
             /\ sem_id \in [Procs -> 0..created] /\ first \in [Procs -> BOOLEAN]
             /\ i \in [Procs -> 0..LOOPS] /\ starts \in 0..MaxStarts
             /\ isSet \in BOOLEAN /\ disturbed \in BOOLEAN

(***************************************************************************)
(* One process at a time prints its pair, however many start and are       *)
(* killed, as long as nobody sets or removes the semaphore over the head   *)
(* of one that prints (main.cpp:46, 84).                                   *)
(***************************************************************************)
Exclusion == ~disturbed => \A p, q \in Procs : Inside(p) /\ Inside(q) => p = q

(***************************************************************************)
(* The permit that the first process made is never lost, whoever is killed *)
(* where and whoever sets the semaphore again: what is not in its value is *)
(* in the adjustments of those who hold it.                                *)
(***************************************************************************)
Adjusted(by) == {p \in Procs : adj[p] = by}

PermitKept == isSet => val + Cardinality(Adjusted(1)) > Cardinality(Adjusted(-1))

(***************************************************************************)
(* Who waits at a semaphore that was set gets in, or sees it removed.      *)
(***************************************************************************)
Waits(p) == pc[p] = "P" /\ Valid(p) /\ i[p] < LOOPS /\ isSet

WaitersServed == \A p \in Procs : Waits(p) ~> ~Waits(p)
=============================================================================
