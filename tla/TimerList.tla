----------------------------- MODULE TimerList -----------------------------
(***************************************************************************)
(* sort_timer_lst of note 12 (lst_timer.cpp): a doubly linked list of      *)
(* util_timer nodes, ascending in `expire`, with a head and a tail         *)
(* pointer.  Its functions are operators on a record of pointers,          *)
(* assignment by assignment.  A function that follows a null or a freed    *)
(* pointer leaves the list "ruined"; one whose loop never ends, "hung".    *)
(***************************************************************************)
EXTENDS Integers, FiniteSets

CONSTANTS Timers,  \* the nodes
          Null     \* nullptr; as the expire of a node: it is not allocated

ASSUME TimerAssumption == IsFiniteSet(Timers) /\ Null \notin Timers \cup Nat

Nodes(l) == {t \in Timers : l.expire[t] # Null}

EmptyList == [head |-> Null, tail |-> Null,
              prev |-> [t \in Timers |-> Null],
              next |-> [t \in Timers |-> Null],
              expire |-> [t \in Timers |-> Null],
              fate |-> "fine"]

Ruined(l) == [l EXCEPT !.fate = "ruined"]
Hung(l)   == [l EXCEPT !.fate = "hung"]

\* new util_timer: prev and next are null.  delete.
NewTimer(l, t, e) == [l EXCEPT !.prev[t] = Null, !.next[t] = Null, !.expire[t] = e]
Delete(l, t)      == [l EXCEPT !.expire[t] = Null]

\* The n-th node after `from`, as far as the pointers can be followed.
After(l, from) ==
    LET at[n \in 0..Cardinality(Timers)] ==
            IF n = 0 THEN from
            ELSE IF at[n - 1] \in Nodes(l) THEN l.next[at[n - 1]] ELSE at[n - 1]
    IN  at

(***************************************************************************)
(* The private add_timer(timer, lst_head).  It walks from lst_head while   *)
(* timer->expire > temp->expire, and appends at tail where next is null;   *)
(* else it inserts before temp.                                            *)
(***************************************************************************)
InsertFrom(l, t, lst_head) ==
    LET at == After(l, lst_head)
        InFront(s) == s \in Nodes(l) /\ l.expire[t] <= l.expire[s]
        AtEnd(s)   == s \in Nodes(l) /\ l.expire[t] > l.expire[s] /\ l.next[s] = Null
        Ends == {n \in DOMAIN at : \/ at[n] \notin Nodes(l)
                                   \/ InFront(at[n]) \/ AtEnd(at[n])}
        temp == at[CHOOSE n \in Ends : \A m \in Ends : n <= m]
    IN  IF Ends = {} THEN Hung(l)
        ELSE IF temp \notin Nodes(l) THEN Ruined(l)
        ELSE IF AtEnd(temp)
          THEN IF l.tail \in Nodes(l)
                 THEN [l EXCEPT !.next[l.tail] = t, !.prev[t] = l.tail, !.tail = t]
                 ELSE Ruined(l)
        ELSE LET p == l.prev[temp]
             IN  IF p \in Nodes(l)
                   THEN [l EXCEPT !.next = [@ EXCEPT ![t] = temp, ![p] = t],
                                  !.prev = [@ EXCEPT ![t] = p, ![temp] = t]]
                   ELSE Ruined(l)

\* add_timer(timer)
AddTimer(l, t) ==
    IF l.head = Null THEN [l EXCEPT !.head = t, !.tail = t]
    ELSE IF l.head \notin Nodes(l) THEN Ruined(l)
    ELSE IF l.expire[t] < l.expire[l.head]
      THEN IF l.tail \in Nodes(l)
             THEN [l EXCEPT !.head = t, !.next[t] = l.tail, !.prev[l.tail] = t]
             ELSE Ruined(l)
    ELSE InsertFrom(l, t, l.head)

\* adjust_timer(timer), after timer->expire was increased.
AdjustTimer(l, t) ==
    LET n == l.next[t]
        p == l.prev[t]
    IN  IF t = l.tail THEN l
        ELSE IF n \notin Nodes(l) THEN Ruined(l)
        ELSE IF l.expire[t] < l.expire[n] THEN l
        ELSE IF t = l.head
          THEN InsertFrom([l EXCEPT !.head = n, !.prev[n] = Null, !.next[t] = Null], t, n)
        ELSE IF p \notin Nodes(l) THEN Ruined(l)
        ELSE InsertFrom([l EXCEPT !.next[p] = n, !.prev[n] = p], t, n)

\* del_timer(timer)
DelTimer(l, t) ==
    LET n == l.next[t]
        p == l.prev[t]
    IN  IF t = l.head /\ t = l.tail
          THEN Delete([l EXCEPT !.head = Null, !.tail = Null], t)
        ELSE IF t = l.head
          THEN IF n \in Nodes(l) THEN Delete([l EXCEPT !.head = n, !.prev[n] = Null], t)
                                 ELSE Ruined(l)
        ELSE IF t = l.tail
          THEN IF p \in Nodes(l) THEN Delete([l EXCEPT !.tail = p, !.next[p] = Null], t)
                                 ELSE Ruined(l)
        ELSE IF {n, p} \subseteq Nodes(l)
          THEN Delete([l EXCEPT !.next[p] = n, !.prev[n] = p], t)
          ELSE Ruined(l)

(***************************************************************************)
(* tick(), at time cur: from the head on, every timer that is not after    *)
(* cur calls its cb_func and is deleted.                                   *)
(***************************************************************************)
Due(l, cur) == /\ l.fate = "fine"
               /\ l.head # Null
               /\ l.head \notin Nodes(l) \/ l.expire[l.head] <= cur

DropHead(l) ==
    LET temp == l.head
        n == l.next[temp]
    IN  IF temp \notin Nodes(l) THEN Ruined(l)
        ELSE IF n = Null THEN Delete([l EXCEPT !.head = Null], temp)
        ELSE IF n \in Nodes(l) THEN Delete([l EXCEPT !.head = n, !.prev[n] = Null], temp)
        ELSE Ruined(l)

Tick(l, cur) ==
    LET after[n \in 0..Cardinality(Timers)] ==
            IF n = 0 THEN l
            ELSE IF Due(after[n - 1], cur) THEN DropHead(after[n - 1]) ELSE after[n - 1]
    IN  after[Cardinality(Timers)]

(***************************************************************************)
(* lst_timer.cpp:36: the list is ascending, doubly linked, with head and   *)
(* tail.  From head, next leads through every timer there is, once, to     *)
(* tail, where it ends; prev leads back; and expire never decreases.       *)
(***************************************************************************)
SortedDoublyLinked(l) ==
    LET k == Cardinality(Nodes(l))
        at == After(l, l.head)
    IN  IF k = 0 THEN l.head = Null
        ELSE /\ {at[n] : n \in 0..(k - 1)} = Nodes(l)
             /\ at[k - 1] = l.tail /\ l.next[l.tail] = Null
             /\ \A n \in 1..(k - 1) : /\ l.prev[at[n]] = at[n - 1]
                                      /\ l.expire[at[n - 1]] <= l.expire[at[n]]
=============================================================================
