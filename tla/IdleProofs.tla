----------------------------- MODULE IdleProofs -----------------------------
(***************************************************************************)
(* TimerList and IdleServer, for any number of timers, any TIMESLOT and    *)
(* any amount of data.                                                     *)
(*                                                                         *)
(* A list is sound if some numbering at[1] .. at[k] of its nodes is a      *)
(* chain of the pointers (Linked).  Each function of lst_timer.cpp turns a *)
(* chain into a chain, but for one case of adjust_timer (MovedToEnd), or   *)
(* follows a null pointer.  So the server's list is the exact list of its  *)
(* connections up to the first step that meets the case (Misplaced): with  *)
(* two timers no step does, with three idle_three has one that does.       *)
(***************************************************************************)
EXTENDS IdleServer, FiniteSetTheorems, WellFoundedInduction, TLAPS

Lists == [head : Timers \cup {Null}, tail : Timers \cup {Null},
          prev : [Timers -> Timers \cup {Null}],
          next : [Timers -> Timers \cup {Null}],
          expire : [Timers -> 0..Idle \cup {Null}],
          fate : {"fine", "ruined", "hung"}]

\* From head to tail, the pointers lead through at[1] .. at[k], which are the timers
\* of S, and back; and expire never decreases.
Chain(l, S, at, k) ==
    /\ k \in Nat
    /\ \A i \in 1..k : at[i] \in S
    /\ \A t \in S : \E i \in 1..k : at[i] = t
    /\ \A i, j \in 1..k : at[i] = at[j] => i = j
    /\ \A i, j \in 1..k : i <= j => l.expire[at[i]] <= l.expire[at[j]]
    /\ \A i \in 1..k : /\ l.prev[at[i]] = IF i = 1 THEN Null ELSE at[i - 1]
                       /\ l.next[at[i]] = IF i = k THEN Null ELSE at[i + 1]
    /\ IF k = 0 THEN l.head = Null ELSE l.head = at[1] /\ l.tail = at[k]

Linked(l, S) == \E at, k : Chain(l, S, at, k)

\* A set of numbers that is not empty has a least one.
LEMMA Least == ASSUME NEW S \in SUBSET Nat, S # {}
               PROVE  \E x \in S : \A y \in S : x <= y
<1>1. IsWellFoundedOn(OpToRel(<, Nat), Nat)
  BY NatLessThanWellFounded
<1>2. PICK x \in S : \A y \in S : ~(<<y, x>> \in OpToRel(<, Nat))
  BY <1>1, WFMin
<1>3. \A y \in S : ~(y < x)
  BY <1>2 DEF OpToRel
<1> QED BY <1>3

\* A chain has no more links than there are timers.
LEMMA ChainLength ==
    ASSUME NEW l, NEW S \in SUBSET Timers, NEW at, NEW k, Chain(l, S, at, k)
    PROVE  /\ Cardinality(S) = k /\ k <= Cardinality(Timers)
           /\ Cardinality(Timers) \in Nat
<1> DEFINE f == [i \in 1..k |-> at[i]]
<1>1. k \in Nat /\ f \in Bijection(1..k, S)
  BY DEF Chain, Bijection, Injection, Surjection, IsInjective
<1>2. IsFiniteSet(1..k) /\ Cardinality(1..k) = k
  BY <1>1, FS_Interval
<1>3. ExistsBijection(1..k, S)
  BY <1>1 DEF ExistsBijection
<1>4. Cardinality(S) = k
  BY <1>2, <1>3, FS_Bijection
<1> QED BY <1>4, TimerAssumption, FS_Subset, FS_CardinalityType
-----------------------------------------------------------------------------
\* The recursion of After.
LEMMA AfterSteps ==
    ASSUME NEW l, NEW from, Cardinality(Timers) \in Nat
    PROVE  /\ After(l, from)[0] = from /\ DOMAIN After(l, from) = 0..Cardinality(Timers)
           /\ \A n \in 1..Cardinality(Timers) : After(l, from)[n] =
                IF After(l, from)[n - 1] \in Nodes(l)
                  THEN l.next[After(l, from)[n - 1]] ELSE After(l, from)[n - 1]
<1> DEFINE step(x) == IF x \in Nodes(l) THEN l.next[x] ELSE x
           follows(f, n) == f = [i \in 0..n |-> IF i = 0 THEN from ELSE step(f[i - 1])]
           short == {n \in Nat : ~ \E f : follows(f, n)}
<1> HIDE DEF step
<1>1. short = {}
  <2> SUFFICES ASSUME short # {} PROVE FALSE
    OBVIOUS
  <2>1. PICK n \in short : \A m \in short : n <= m
    <3>1. short \in SUBSET Nat
      OBVIOUS
    <3> QED BY <3>1, Least
  <2>2. n # 0
    <3>1. follows([i \in 0..0 |-> from], 0)
      OBVIOUS
    <3> QED BY <2>1, <3>1
  <2>3. n - 1 \in Nat /\ n - 1 \notin short
    <3> HIDE DEF follows
    <3>1. n \in Nat
      BY <2>1
    <3> HIDE DEF short
    <3> QED BY <2>1, <2>2, <3>1
  <2>4. PICK f : follows(f, n - 1)
    BY <2>3
  <2> DEFINE g == [i \in 0..n |-> IF i = n THEN step(f[n - 1]) ELSE f[i]]
  <2>5. \A i \in 0..n : g[i] = IF i = 0 THEN from ELSE step(g[i - 1])
    <3> TAKE i \in 0..n
    <3>1. CASE i = n
      BY <2>2, <2>3, <3>1
    <3>2. CASE i # n
      <4>1. i \in 0..n - 1 /\ g[i] = f[i]
        BY <2>1, <3>2
      <4>2. f[i] = IF i = 0 THEN from ELSE step(f[i - 1])
        BY <2>4, <4>1
      <4>3. i # 0 => g[i - 1] = f[i - 1]
        BY <2>1, <3>2
      <4> QED BY <4>1, <4>2, <4>3
    <3> QED BY <3>1, <3>2
  <2>6. follows(g, n)
    BY <2>5
  <2> QED BY <2>1, <2>6
<1>2. PICK f : follows(f, Cardinality(Timers))
  BY <1>1
<1>3. follows(After(l, from), Cardinality(Timers))
  BY <1>2 DEF After, step
<1> HIDE DEF follows
<1>4. \A i \in 0..Cardinality(Timers) :
        After(l, from)[i] = IF i = 0 THEN from ELSE step(After(l, from)[i - 1])
  BY <1>3 DEF follows
<1>5. DOMAIN After(l, from) = 0..Cardinality(Timers)
  BY <1>3 DEF follows
<1> QED BY <1>4, <1>5 DEF step

\* From the m-th node of a chain, After follows it to its end.
LEMMA AfterChain ==
    ASSUME NEW l, NEW S \in SUBSET Nodes(l), NEW at, NEW k, Chain(l, S, at, k),
           NEW m \in 1..k, NEW n \in 0..k - m
    PROVE  n \in DOMAIN After(l, at[m]) /\ After(l, at[m])[n] = at[m + n]
<1> DEFINE N == Cardinality(Timers)
           path == After(l, at[m])
           off == {j \in 0..k - m : path[j] # at[m + j]}
<1>1. k \in Nat /\ k <= N /\ N \in Nat
  <2>1. S \in SUBSET Timers
    BY DEF Nodes
  <2>2. k \in Nat
    BY DEF Chain
  <2> QED BY <2>1, <2>2, ChainLength
<1>2. /\ path[0] = at[m] /\ DOMAIN path = 0..N
      /\ \A j \in 1..N : path[j] = IF path[j - 1] \in Nodes(l) THEN l.next[path[j - 1]]
                                                                ELSE path[j - 1]
  BY <1>1, AfterSteps
<1> HIDE DEF path, N
<1>3. off = {}
  <2> SUFFICES ASSUME off # {} PROVE FALSE
    OBVIOUS
  <2>1. PICK j \in off : \A i \in off : j <= i
    <3>1. off \in SUBSET Nat
      OBVIOUS
    <3> QED BY <3>1, Least
  <2>2. j # 0
    BY <1>2, <2>1
  <2>3. j - 1 \in 0..k - m /\ j - 1 \notin off /\ j \in 1..N /\ m + (j - 1) \in 1..k - 1
    BY <1>1, <2>1, <2>2
  <2>4. path[j - 1] = at[m + (j - 1)]
    BY <2>3
  <2>5. at[m + (j - 1)] \in Nodes(l)
    BY <2>3 DEF Chain
  <2>6. l.next[at[m + (j - 1)]] = at[m + (j - 1) + 1]
    BY <1>1, <2>3 DEF Chain
  <2>7. (m + (j - 1)) + 1 = m + j
    BY <2>1
  <2>8. path[j] = at[m + j]
    BY <1>2, <2>3, <2>4, <2>5, <2>6, <2>7
  <2> QED BY <2>1, <2>8
<1>4. n \in 0..N /\ path[n] = at[m + n]
  BY <1>1, <1>3
<1> QED BY <1>2, <1>4 DEF path

\* A list of all its nodes is what lst_timer.cpp:36 says.
LEMMA LinkedIsExact ==
    ASSUME NEW l \in Lists, Linked(l, Nodes(l))
    PROVE  SortedDoublyLinked(l)
<1> DEFINE S == Nodes(l)
           path == After(l, l.head)
<1>1. PICK at, k : Chain(l, S, at, k)
  BY DEF Linked
<1>2. S \in SUBSET Timers /\ k \in Nat
  BY <1>1 DEF Nodes, Chain
<1>3. Cardinality(S) = k
  BY <1>1, <1>2, ChainLength
<1>4. CASE k = 0
  BY <1>1, <1>3, <1>4 DEF SortedDoublyLinked, Chain
<1>5. CASE k # 0
  <2>1. l.head = at[1] /\ l.tail = at[k] /\ l.next[at[k]] = Null
    BY <1>1, <1>2, <1>5 DEF Chain
  <2>2. ASSUME NEW n \in 0..k - 1 PROVE path[n] = at[n + 1]
    <3>1. S \in SUBSET Nodes(l) /\ 1 \in 1..k /\ 1 + n = n + 1
      BY <1>2, <1>5
    <3>2. n \in 0..k - 1 /\ k - 1 = k - 1
      OBVIOUS
    <3>3. After(l, at[1])[n] = at[1 + n]
      BY ONLY <1>1, <3>1, <3>2, AfterChain
    <3> QED BY <2>1, <3>1, <3>3
  <2> HIDE DEF path, S
  <2>3. {path[n] : n \in 0..k - 1} = S
    <3>1. \A n \in 0..k - 1 : n + 1 \in 1..k
      BY <1>2
    <3>2. \A i \in 1..k : i - 1 \in 0..k - 1 /\ (i - 1) + 1 = i
      BY <1>2
    <3>3. \A n \in 0..k - 1 : path[n] \in S
      BY <1>1, <2>2, <3>1 DEF Chain
    <3>4. ASSUME NEW t \in S PROVE \E n \in 0..k - 1 : path[n] = t
      <4>1. PICK i \in 1..k : at[i] = t
        BY <1>1 DEF Chain
      <4> QED BY <2>2, <3>2, <4>1
    <3> QED BY <3>3, <3>4
  <2>4. path[k - 1] = l.tail
    BY <1>2, <1>5, <2>1, <2>2
  <2>5. ASSUME NEW n \in 1..k - 1
        PROVE  l.prev[path[n]] = path[n - 1] /\ l.expire[path[n - 1]] <= l.expire[path[n]]
    <3>1. n + 1 \in 1..k /\ n \in 1..k /\ n - 1 \in 0..k - 1 /\ n \in 0..k - 1 /\ (n - 1) + 1 = n
      BY <1>2
    <3>2. path[n] = at[n + 1] /\ path[n - 1] = at[n]
      BY <2>2, <3>1
    <3>3. l.prev[at[n + 1]] = at[n] /\ l.expire[at[n]] <= l.expire[at[n + 1]]
      BY <1>1, <1>2, <3>1 DEF Chain
    <3> QED BY <3>2, <3>3
  <2> QED BY <1>3, <1>5, <2>1, <2>3, <2>4, <2>5 DEF SortedDoublyLinked, path, S
<1> QED BY <1>4, <1>5
-----------------------------------------------------------------------------
(***************************************************************************)
(* What an insertion before the j-th node, and the removal of the j-th     *)
(* node, must do to the pointers.                                          *)
(***************************************************************************)
Inserted(l, r, at, k, t, j) ==
    /\ r.head = l.head /\ r.tail = IF j = k + 1 THEN t ELSE l.tail
    /\ r.prev[t] = at[j - 1] /\ r.next[t] = IF j = k + 1 THEN Null ELSE at[j]
    /\ \A i \in 1..k : /\ r.prev[at[i]] = IF i = j THEN t ELSE l.prev[at[i]]
                       /\ r.next[at[i]] = IF i = j - 1 THEN t ELSE l.next[at[i]]
                       /\ r.expire[at[i]] = l.expire[at[i]]
                       /\ IF i < j THEN r.expire[at[i]] <= r.expire[t]
                                   ELSE r.expire[t] <= r.expire[at[i]]
    /\ r.expire[t] <= r.expire[t]

Removed(l, r, at, k, j) ==
    /\ r.head = IF j = 1 THEN l.next[at[j]] ELSE l.head
    /\ k # 1 => r.tail = IF j = k THEN l.prev[at[j]] ELSE l.tail
    /\ \A i \in 1..k \ {j} :
         /\ r.prev[at[i]] = IF i = j + 1 THEN l.prev[at[j]] ELSE l.prev[at[i]]
         /\ r.next[at[i]] = IF i = j - 1 THEN l.next[at[j]] ELSE l.next[at[i]]
         /\ r.expire[at[i]] = l.expire[at[i]]

LEMMA InsertedChain ==
    ASSUME NEW l, NEW r, NEW S, NEW at, NEW k, NEW t, NEW j, Chain(l, S, at, k),
           t \notin S, j \in 2..k + 1, Inserted(l, r, at, k, t, j)
    PROVE  Linked(r, S \cup {t})
<1> DEFINE new == [i \in 1..k + 1 |-> IF i < j THEN at[i] ELSE IF i = j THEN t ELSE at[i - 1]]
<1>0. k \in Nat /\ j \in Nat /\ j > 1 /\ j <= k + 1
  BY DEF Chain
<1>1. /\ \A i \in 1..k : at[i] \in S
      /\ \A x \in S : \E i \in 1..k : at[i] = x
      /\ \A i, n \in 1..k : at[i] = at[n] => i = n
      /\ \A i, n \in 1..k : i <= n => l.expire[at[i]] <= l.expire[at[n]]
      /\ \A i \in 1..k : /\ l.prev[at[i]] = IF i = 1 THEN Null ELSE at[i - 1]
                         /\ l.next[at[i]] = IF i = k THEN Null ELSE at[i + 1]
      /\ l.head = at[1] /\ l.tail = at[k]
  BY <1>0 DEF Chain
<1>2. ASSUME NEW i \in 1..k + 1
      PROVE  new[i] = IF i < j THEN at[i] ELSE IF i = j THEN t ELSE at[i - 1]
  OBVIOUS
<1> HIDE DEF new
<1>3. ASSUME NEW i \in 1..k + 1 PROVE new[i] \in S \cup {t}
  BY <1>0, <1>1, <1>2
<1>4. ASSUME NEW x \in S \cup {t} PROVE \E i \in 1..k + 1 : new[i] = x
  <2>1. CASE x = t
    BY <1>0, <1>2, <2>1
  <2>2. CASE x \in S
    <3>1. PICK i \in 1..k : at[i] = x
      BY <1>1, <2>2
    <3>2. i < j => new[i] = x /\ i \in 1..k + 1
      BY <1>0, <1>2, <3>1
    <3>3. ~(i < j) => new[i + 1] = x /\ i + 1 \in 1..k + 1
      <4> SUFFICES ASSUME ~(i < j) PROVE new[i + 1] = x /\ i + 1 \in 1..k + 1
        OBVIOUS
      <4>1. i + 1 \in 1..k + 1 /\ ~(i + 1 < j) /\ i + 1 # j /\ (i + 1) - 1 = i
        BY <1>0
      <4> QED BY <1>2, <3>1, <4>1
    <3> QED BY <3>2, <3>3
  <2> QED BY <2>1, <2>2
<1>5. ASSUME NEW i \in 1..k + 1, NEW n \in 1..k + 1, new[i] = new[n] PROVE i = n
  <2>1. /\ i < j => i \in 1..k /\ new[i] = at[i] /\ at[i] \in S
        /\ i > j => i - 1 \in 1..k /\ new[i] = at[i - 1] /\ at[i - 1] \in S
        /\ i = j => new[i] = t
        /\ n < j => n \in 1..k /\ new[n] = at[n] /\ at[n] \in S
        /\ n > j => n - 1 \in 1..k /\ new[n] = at[n - 1] /\ at[n - 1] \in S
        /\ n = j => new[n] = t
    BY <1>0, <1>1, <1>2
  <2> QED BY <1>0, <1>1, <1>5, <2>1
<1>6. ASSUME NEW i \in 1..k + 1, NEW n \in 1..k + 1, i <= n
      PROVE  r.expire[new[i]] <= r.expire[new[n]]
  <2>1. /\ i < j => i \in 1..k /\ new[i] = at[i]
        /\ i > j => i - 1 \in 1..k /\ ~(i - 1 < j) /\ new[i] = at[i - 1]
        /\ i = j => new[i] = t
        /\ n < j => n \in 1..k /\ new[n] = at[n]
        /\ n > j => n - 1 \in 1..k /\ ~(n - 1 < j) /\ new[n] = at[n - 1]
        /\ n = j => new[n] = t
    BY <1>0, <1>2
  <2>2. \A a, b \in 1..k : a <= b => r.expire[at[a]] <= r.expire[at[b]]
    BY <1>1 DEF Inserted
  <2>3. /\ \A a \in 1..k : IF a < j THEN r.expire[at[a]] <= r.expire[t]
                                    ELSE r.expire[t] <= r.expire[at[a]]
        /\ r.expire[t] <= r.expire[t]
    BY DEF Inserted
  <2>4. CASE i < j /\ n < j
    BY <1>6, <2>1, <2>2, <2>4
  <2>5. CASE i < j /\ n > j
    BY <1>0, <1>6, <2>1, <2>2, <2>5
  <2>6. CASE i > j
    BY <1>0, <1>6, <2>1, <2>2, <2>6
  <2>7. CASE i = j \/ n = j
    BY <1>0, <1>6, <2>1, <2>3, <2>7
  <2> QED BY <1>0, <1>6, <2>4, <2>5, <2>6, <2>7
<1>7. ASSUME NEW i \in 1..k + 1
      PROVE  r.prev[new[i]] = IF i = 1 THEN Null ELSE new[i - 1]
  <2>1. CASE i < j
    BY <1>0, <1>1, <1>2, <2>1 DEF Inserted
  <2>2. CASE i = j
    BY <1>0, <1>1, <1>2, <2>2 DEF Inserted
  <2>3. CASE i > j
    <3>1. i - 1 \in 1..k /\ new[i] = at[i - 1] /\ i - 1 \in 1..k + 1 /\ i # 1 /\ i - 1 # 1
      BY <1>0, <1>2, <2>3
    <3>2. r.prev[new[i]] = IF i - 1 = j THEN t ELSE at[(i - 1) - 1]
      BY <1>1, <3>1 DEF Inserted
    <3>3. new[i - 1] = IF i - 1 = j THEN t ELSE at[(i - 1) - 1]
      BY <1>0, <1>2, <2>3, <3>1
    <3> QED BY <3>1, <3>2, <3>3
  <2> QED BY <1>0, <2>1, <2>2, <2>3
<1>8. ASSUME NEW i \in 1..k + 1
      PROVE  r.next[new[i]] = IF i = k + 1 THEN Null ELSE new[i + 1]
  <2>1. CASE i < j
    <3>1. i \in 1..k /\ new[i] = at[i] /\ i + 1 \in 1..k + 1 /\ i # k + 1
      BY <1>0, <1>2, <2>1
    <3>2. r.next[new[i]] = IF i = j - 1 THEN t ELSE l.next[at[i]]
      BY <3>1 DEF Inserted
    <3>3. i # j - 1 => i + 1 < j /\ i # k
      BY <1>0, <2>1, <3>1
    <3>4. new[i + 1] = IF i = j - 1 THEN t ELSE at[i + 1]
      BY <1>0, <1>2, <3>1, <3>3
    <3> QED BY <1>1, <3>1, <3>2, <3>3, <3>4
  <2>2. CASE i = j
    <3>1. i # k + 1 => i + 1 \in 1..k + 1 /\ ~(i + 1 < j) /\ i + 1 # j /\ (i + 1) - 1 = i
      BY <1>0, <2>2
    <3> QED BY <1>0, <1>2, <2>2, <3>1 DEF Inserted
  <2>3. CASE i > j
    <3>1. i - 1 \in 1..k /\ new[i] = at[i - 1] /\ i - 1 # j - 1 /\ (i - 1) + 1 = i
      BY <1>0, <1>2, <2>3
    <3>2. r.next[new[i]] = l.next[at[i - 1]]
      BY <3>1 DEF Inserted
    <3>3. i # k + 1 => /\ i + 1 \in 1..k + 1 /\ ~(i + 1 < j) /\ i + 1 # j
                       /\ (i + 1) - 1 = i /\ i - 1 # k
      BY <1>0, <2>3
    <3>4. i # k + 1 => new[i + 1] = at[i]
      BY <1>2, <3>3
    <3> QED BY <1>0, <1>1, <3>1, <3>2, <3>3, <3>4
  <2> QED BY <1>0, <2>1, <2>2, <2>3
<1>9. r.head = new[1] /\ r.tail = new[k + 1]
  <2>1. r.head = at[1] /\ r.tail = IF j = k + 1 THEN t ELSE at[k]
    BY <1>1 DEF Inserted
  <2>2. new[1] = at[1]
    BY <1>0, <1>2
  <2>3. new[k + 1] = IF j = k + 1 THEN t ELSE at[k]
    BY <1>0, <1>2
  <2> QED BY <2>1, <2>2, <2>3
<1>10. k + 1 \in Nat /\ k + 1 # 0
  BY <1>0
<1>11. Chain(r, S \cup {t}, new, k + 1)
  BY <1>3, <1>4, <1>5, <1>6, <1>7, <1>8, <1>9, <1>10 DEF Chain
<1> QED BY <1>11 DEF Linked

LEMMA RemovedChain ==
    ASSUME NEW l, NEW r, NEW S, NEW at, NEW k, NEW j, Chain(l, S, at, k),
           j \in 1..k, Removed(l, r, at, k, j)
    PROVE  Chain(r, S \ {at[j]}, [i \in 1..k - 1 |-> IF i < j THEN at[i] ELSE at[i + 1]], k - 1)
<1> DEFINE new == [i \in 1..k - 1 |-> IF i < j THEN at[i] ELSE at[i + 1]]
<1>0. k \in Nat /\ j \in Nat /\ j > 0 /\ j <= k
  BY DEF Chain
<1>1. /\ \A i \in 1..k : at[i] \in S
      /\ \A x \in S : \E i \in 1..k : at[i] = x
      /\ \A i, n \in 1..k : at[i] = at[n] => i = n
      /\ \A i, n \in 1..k : i <= n => l.expire[at[i]] <= l.expire[at[n]]
      /\ \A i \in 1..k : /\ l.prev[at[i]] = IF i = 1 THEN Null ELSE at[i - 1]
                         /\ l.next[at[i]] = IF i = k THEN Null ELSE at[i + 1]
      /\ l.head = at[1] /\ l.tail = at[k]
  BY <1>0 DEF Chain
\* The place in the old chain of the i-th node of the new one.
<1> DEFINE old(i) == IF i < j THEN i ELSE i + 1
<1>2. ASSUME NEW i \in 1..k - 1
      PROVE  /\ new[i] = at[old(i)] /\ old(i) \in 1..k \ {j}
             /\ i # 1 => i - 1 \in 1..k - 1 /\ new[i - 1] = at[old(i - 1)]
             /\ i # k - 1 => i + 1 \in 1..k - 1 /\ new[i + 1] = at[old(i + 1)]
  BY <1>0
<1> HIDE DEF new
<1>3. ASSUME NEW i \in 1..k - 1 PROVE new[i] \in S \ {at[j]}
  BY <1>0, <1>1, <1>2
<1>4. ASSUME NEW x \in S \ {at[j]} PROVE \E i \in 1..k - 1 : new[i] = x
  <2>1. PICK i \in 1..k : at[i] = x
    BY <1>1
  <2>2. i < j => i \in 1..k - 1 /\ new[i] = x
    BY <1>0, <1>2, <2>1
  <2>3. i > j => i - 1 \in 1..k - 1 /\ new[i - 1] = x
    <3> SUFFICES ASSUME i > j PROVE i - 1 \in 1..k - 1 /\ new[i - 1] = x
      OBVIOUS
    <3>1. i - 1 \in 1..k - 1 /\ old(i - 1) = i
      BY <1>0
    <3> QED BY <1>2, <2>1, <3>1
  <2> QED BY <1>0, <2>1, <2>2, <2>3
<1>5. ASSUME NEW i \in 1..k - 1, NEW n \in 1..k - 1, new[i] = new[n] PROVE i = n
  <2>1. old(i) = old(n)
    BY <1>1, <1>2, <1>5
  <2> QED BY <1>0, <2>1
<1>6. ASSUME NEW i \in 1..k - 1, NEW n \in 1..k - 1, i <= n
      PROVE  r.expire[new[i]] <= r.expire[new[n]]
  <2>1. old(i) <= old(n)
    BY <1>0, <1>6
  <2>2. old(i) \in 1..k \ {j} /\ old(n) \in 1..k \ {j} /\ new[i] = at[old(i)] /\ new[n] = at[old(n)]
    BY <1>2
  <2> HIDE DEF old
  <2>3. l.expire[at[old(i)]] <= l.expire[at[old(n)]]
    BY <1>1, <2>1, <2>2
  <2> QED BY <2>2, <2>3 DEF Removed
<1>7. ASSUME NEW i \in 1..k - 1
      PROVE  r.prev[new[i]] = IF i = 1 THEN Null ELSE new[i - 1]
  <2>1. r.prev[new[i]] = IF old(i) = j + 1 THEN l.prev[at[j]] ELSE l.prev[at[old(i)]]
    <3>1. old(i) \in 1..k \ {j} /\ new[i] = at[old(i)]
      BY <1>2
    <3> HIDE DEF old
    <3> QED BY <3>1 DEF Removed
  <2>2. r.prev[new[i]] = IF i = 1 THEN Null ELSE at[old(i - 1)]
    <3>1. CASE i < j
      BY <1>0, <1>1, <2>1, <3>1
    <3>2. CASE i = j
      BY <1>0, <1>1, <2>1, <3>2
    <3>3. CASE i > j
      <4>1. old(i) = i + 1 /\ i + 1 # j + 1 /\ i + 1 \in 1..k /\ i # 1 /\ i + 1 # 1
        BY <1>0, <3>3
      <4>2. l.prev[at[i + 1]] = at[i]
        BY <1>1, <4>1
      <4>3. old(i - 1) = i
        BY <1>0, <3>3
      <4> QED BY <2>1, <4>1, <4>2, <4>3
    <3> QED BY <1>0, <3>1, <3>2, <3>3
  <2> QED BY <1>2, <2>2
<1>8. ASSUME NEW i \in 1..k - 1
      PROVE  r.next[new[i]] = IF i = k - 1 THEN Null ELSE new[i + 1]
  <2>1. r.next[new[i]] = IF old(i) = j - 1 THEN l.next[at[j]] ELSE l.next[at[old(i)]]
    <3>1. old(i) \in 1..k \ {j} /\ new[i] = at[old(i)]
      BY <1>2
    <3> HIDE DEF old
    <3> QED BY <3>1 DEF Removed
  <2>2. r.next[new[i]] = IF i = k - 1 THEN Null ELSE at[old(i + 1)]
    <3>1. CASE i < j - 1
      BY <1>0, <1>1, <2>1, <3>1
    <3>2. CASE i = j - 1
      BY <1>0, <1>1, <2>1, <3>2
    <3>3. CASE i > j - 1
      BY <1>0, <1>1, <2>1, <3>3
    <3> QED BY <1>0, <3>1, <3>2, <3>3
  <2> QED BY <1>2, <2>2
<1>9. IF k - 1 = 0 THEN r.head = Null ELSE r.head = new[1] /\ r.tail = new[k - 1]
  <2>1. r.head = IF j = 1 THEN l.next[at[1]] ELSE at[1]
    BY <1>1 DEF Removed
  <2>2. CASE k = 1
    BY <1>0, <1>1, <2>1, <2>2
  <2>3. CASE k # 1
    <3>1. r.tail = IF j = k THEN at[k - 1] ELSE at[k]
      BY <1>0, <1>1, <2>3 DEF Removed
    <3>2. r.head = at[old(1)]
      BY <1>0, <1>1, <2>1, <2>3
    <3>3. r.tail = at[old(k - 1)]
      BY <1>0, <3>1
    <3> QED BY <1>0, <1>2, <2>3, <3>2, <3>3
  <2> QED BY <2>2, <2>3
<1>10. k - 1 \in Nat
  BY <1>0
<1>11. Chain(r, S \ {at[j]}, new, k - 1)
  BY <1>3, <1>4, <1>5, <1>6, <1>7, <1>8, <1>9, <1>10 DEF Chain
<1> QED BY <1>11 DEF new
-----------------------------------------------------------------------------
\* What a node, and the expire of a node, may be.
LEMMA NodeKinds ==
    ASSUME NEW l \in Lists
    PROVE  /\ Nodes(l) \subseteq Timers /\ \A t \in Nodes(l) : l.expire[t] \in 0..Idle
           /\ Null \notin Timers /\ Null \notin 0..Idle /\ Idle \in Nat
<1>1. Idle \in Nat /\ Null \notin Timers /\ Null \notin Nat
  BY TimerAssumption, IdleAssumption DEF Idle
<1> QED BY <1>1 DEF Nodes, Lists

\* r is l with t put behind the last node, which it is later than, or before the
\* j-th one, which it is not later than.
Put(l, r, at, k, t, j) ==
    IF j = k /\ l.expire[at[k]] < l.expire[t]
      THEN r = [l EXCEPT !.next[at[k]] = t, !.prev[t] = at[k], !.tail = t]
      ELSE /\ l.expire[t] <= l.expire[at[j]]
           /\ r = IF j # 1
                    THEN [l EXCEPT !.next = [@ EXCEPT ![t] = at[j], ![at[j - 1]] = t],
                                   !.prev = [@ EXCEPT ![t] = at[j - 1], ![at[j]] = t]]
                    ELSE Ruined(l)

(***************************************************************************)
(* The private add_timer, from the m-th node on, for a timer that no other *)
(* one is later than: it follows a null pointer, or puts the timer in its  *)
(* place.  The premise about next is what lst_timer.cpp:102 needs and      *)
(* adjust_timer does not see to.                                           *)
(***************************************************************************)
LEMMA WalkResult ==
    ASSUME NEW l \in Lists, NEW S \in SUBSET Nodes(l), NEW at, NEW k, Chain(l, S, at, k),
           NEW t \in Nodes(l) \ S, NEW m \in 1..k
    PROVE  \E j \in m..k : Put(l, InsertFrom(l, t, at[m]), at, k, t, j)
<1>1. \A n \in 0..k - m : n \in DOMAIN After(l, at[m]) /\ After(l, at[m])[n] = at[m + n]
  BY AfterChain
<1> DEFINE path == After(l, at[m])
           InFront(s) == s \in Nodes(l) /\ l.expire[t] <= l.expire[s]
           AtEnd(s)   == s \in Nodes(l) /\ l.expire[t] > l.expire[s] /\ l.next[s] = Null
           ends == {n \in DOMAIN path : \/ path[n] \notin Nodes(l)
                                        \/ InFront(path[n]) \/ AtEnd(path[n])}
           least == CHOOSE n \in ends : \A i \in ends : n <= i
           temp == path[least]
           p == l.prev[temp]
<1>2. InsertFrom(l, t, at[m]) =
        IF ends = {} THEN Hung(l)
        ELSE IF temp \notin Nodes(l) THEN Ruined(l)
        ELSE IF AtEnd(temp)
          THEN IF l.tail \in Nodes(l)
                 THEN [l EXCEPT !.next[l.tail] = t, !.prev[t] = l.tail, !.tail = t]
                 ELSE Ruined(l)
        ELSE IF p \in Nodes(l)
          THEN [l EXCEPT !.next = [@ EXCEPT ![t] = temp, ![p] = t],
                         !.prev = [@ EXCEPT ![t] = p, ![temp] = t]]
          ELSE Ruined(l)
  BY DEF InsertFrom
<1>3. /\ k \in Nat /\ m \in Nat /\ m > 0 /\ m <= k /\ l.tail = at[k]
      /\ \A i \in 1..k : /\ at[i] \in Nodes(l)
                         /\ l.prev[at[i]] = IF i = 1 THEN Null ELSE at[i - 1]
                         /\ l.next[at[i]] = IF i = k THEN Null ELSE at[i + 1]
  BY DEF Chain
<1>4. /\ \A s \in Nodes(l) : l.expire[s] \in Nat /\ s # Null
      /\ t \in Nodes(l) /\ Null \notin Nodes(l)
  BY NodeKinds
<1>5. DOMAIN path = 0..Cardinality(Timers) /\ Cardinality(Timers) \in Nat
  BY TimerAssumption, FS_CardinalityType, AfterSteps
<1>6. ends \in SUBSET Nat /\ k - m \in ends /\ m + (k - m) = k
  <2>1. k - m \in 0..k - m /\ m + (k - m) = k /\ k \in 1..k
    BY <1>3
  <2>2. k - m \in DOMAIN path /\ path[k - m] = at[k]
    BY <1>1, <2>1
  <2>3. at[k] \in Nodes(l) /\ l.next[at[k]] = Null
    BY <1>3, <2>1
  <2>4. InFront(at[k]) \/ AtEnd(at[k])
    BY <1>4, <2>3
  <2>5. k - m \in ends
    BY <2>2, <2>4
  <2> HIDE DEF path
  <2>6. ends \in SUBSET Nat
    BY <1>5
  <2> QED BY <2>1, <2>5, <2>6
<1>7. least \in ends /\ least <= k - m
  <2> HIDE DEF ends
  <2>1. \E n \in ends : \A i \in ends : n <= i
    BY <1>6, Least
  <2> QED BY <1>6, <2>1
<1> DEFINE j == m + least
<1>8. j \in m..k /\ j \in 1..k /\ temp = at[j] /\ temp \in Nodes(l) /\ ends # {}
  <2>1. least \in 0..k - m
    <3> HIDE DEF ends, least
    <3>1. least \in Nat /\ least <= k - m
      BY <1>6, <1>7
    <3> QED BY <1>3, <3>1
  <2>2. temp = at[m + least]
    BY <1>1, <2>1
  <2> HIDE DEF temp, least, path
  <2>3. j \in m..k /\ j \in 1..k
    BY <1>3, <2>1
  <2> QED BY <1>3, <1>7, <2>2, <2>3
<1>9. InFront(temp) \/ AtEnd(temp)
  BY <1>7, <1>8
<1> HIDE DEF temp, least, ends, path, j
<1>10. CASE AtEnd(temp)
  <2>1. j = k
    <3>1. j # k => j + 1 \in 1..k /\ l.next[at[j]] = at[j + 1]
      BY <1>3, <1>8
    <3> QED BY <1>3, <1>4, <1>8, <1>10, <3>1
  <2>2. InsertFrom(l, t, at[m]) = [l EXCEPT !.next[at[k]] = t, !.prev[t] = at[k], !.tail = t]
    <3>1. l.tail = at[k] /\ l.tail \in Nodes(l)
      BY <1>3, <1>8, <2>1
    <3> QED BY <1>2, <1>8, <1>10, <3>1
  <2>3. l.expire[at[k]] < l.expire[t]
    BY <1>4, <1>8, <1>10, <2>1
  <2> QED BY <1>8, <2>1, <2>2, <2>3 DEF Put
<1>11. CASE ~AtEnd(temp)
  <2>1. l.expire[t] <= l.expire[at[j]] /\ ~(l.expire[at[j]] < l.expire[t])
    BY <1>4, <1>8, <1>9, <1>11
  <2>2. p = IF j = 1 THEN Null ELSE at[j - 1]
    BY <1>3, <1>8
  <2>3. j # 1 => at[j - 1] \in Nodes(l)
    BY <1>3, <1>8
  <2>4. InsertFrom(l, t, at[m]) =
          IF p \in Nodes(l)
            THEN [l EXCEPT !.next = [@ EXCEPT ![t] = at[j], ![p] = t],
                           !.prev = [@ EXCEPT ![t] = p, ![at[j]] = t]]
            ELSE Ruined(l)
    BY <1>2, <1>8, <1>11
  <2>5. InsertFrom(l, t, at[m]) =
          IF j # 1
            THEN [l EXCEPT !.next = [@ EXCEPT ![t] = at[j], ![at[j - 1]] = t],
                           !.prev = [@ EXCEPT ![t] = at[j - 1], ![at[j]] = t]]
            ELSE Ruined(l)
    BY <1>4, <2>2, <2>3, <2>4
  <2>6. ~(j = k /\ l.expire[at[k]] < l.expire[t])
    BY <2>1
  <2> QED BY <1>8, <2>1, <2>5, <2>6 DEF Put
<1> QED BY <1>10, <1>11

\* All nodes are linked, unless a function went through a null pointer.
Sound(l) == l \in Lists /\ (l.fate = "fine" => Linked(l, Nodes(l)))

LEMMA InsertPlaces ==
    ASSUME NEW l \in Lists, NEW t \in Nodes(l), NEW S, S = Nodes(l) \ {t},
           NEW at, NEW k, Chain(l, S, at, k), NEW m \in 1..k,
           \A s \in S : l.expire[s] <= l.expire[t],
           l.next[t] = Null \/ l.expire[t] <= l.expire[at[k]]
    PROVE  Sound(InsertFrom(l, t, at[m])) /\ InsertFrom(l, t, at[m]).expire = l.expire
<1>0. \E j \in m..k : Put(l, InsertFrom(l, t, at[m]), at, k, t, j)
  <2>1. S \in SUBSET Nodes(l) /\ t \in Nodes(l) \ S
    OBVIOUS
  <2> QED BY <2>1, WalkResult
<1> DEFINE r == InsertFrom(l, t, at[m])
<1>1. PICK j \in m..k : Put(l, r, at, k, t, j)
  BY <1>0
<1> HIDE DEF r
<1>2. /\ k \in Nat /\ k > 0 /\ j \in 1..k
      /\ \A i \in 1..k : at[i] \in S /\ at[i] \in Timers /\ at[i] # t
      /\ \A i, n \in 1..k : at[i] = at[n] => i = n
      /\ \A i, n \in 1..k : i <= n => l.expire[at[i]] <= l.expire[at[n]]
  BY NodeKinds DEF Chain
<1>3. /\ t \in Timers /\ l.expire[t] \in Nat
      /\ \A i \in 1..k : l.expire[at[i]] \in Nat /\ l.expire[at[i]] <= l.expire[t]
  BY <1>2, NodeKinds
<1>4. l.head = at[1] /\ l.tail = at[k] /\ l.next[at[k]] = Null
  BY <1>2 DEF Chain
<1>5. /\ DOMAIN l.next = Timers /\ DOMAIN l.prev = Timers
      /\ l = [head |-> l.head, tail |-> l.tail, prev |-> l.prev, next |-> l.next,
              expire |-> l.expire, fate |-> l.fate]
  BY DEF Lists
<1>6. CASE j = k /\ l.expire[at[k]] < l.expire[t]
  <2>1. r = [l EXCEPT !.next[at[k]] = t, !.prev[t] = at[k], !.tail = t]
    BY <1>1, <1>6 DEF Put
  <2>2. /\ r.head = l.head /\ r.tail = t /\ r.expire = l.expire /\ r.fate = l.fate
        /\ r.next = [l.next EXCEPT ![at[k]] = t] /\ r.prev = [l.prev EXCEPT ![t] = at[k]]
    BY <1>5, <2>1
  <2>3. r \in Lists
    <3>1. r.next \in [Timers -> Timers \cup {Null}] /\ r.prev \in [Timers -> Timers \cup {Null}]
      BY <1>2, <1>3, <2>2 DEF Lists
    <3> QED BY <1>3, <2>1, <2>2, <3>1 DEF Lists
  <2>4. l.next[t] = Null
    BY <1>2, <1>3, <1>6
  <2>5. Inserted(l, r, at, k, t, k + 1)
    BY <1>2, <1>3, <1>4, <1>5, <2>2, <2>4 DEF Inserted
  <2>6. k + 1 \in 2..k + 1 /\ t \notin S
    BY <1>2
  <2>7. Linked(r, Nodes(r))
    <3>1. Linked(r, S \cup {t})
      BY <2>5, <2>6, InsertedChain
    <3>2. Nodes(r) = S \cup {t}
      BY <2>2 DEF Nodes
    <3> QED BY <3>1, <3>2
  <2> QED BY <2>2, <2>3, <2>7 DEF Sound, r
<1>7. CASE ~(j = k /\ l.expire[at[k]] < l.expire[t]) /\ j # 1
  <2>1. /\ l.expire[t] <= l.expire[at[j]]
        /\ r = [l EXCEPT !.next = [@ EXCEPT ![t] = at[j], ![at[j - 1]] = t],
                         !.prev = [@ EXCEPT ![t] = at[j - 1], ![at[j]] = t]]
    BY <1>1, <1>7 DEF Put
  <2>2. /\ r.head = l.head /\ r.tail = l.tail /\ r.expire = l.expire /\ r.fate = l.fate
        /\ r.next = [l.next EXCEPT ![t] = at[j], ![at[j - 1]] = t]
        /\ r.prev = [l.prev EXCEPT ![t] = at[j - 1], ![at[j]] = t]
    BY <1>5, <2>1
  <2>3. j - 1 \in 1..k /\ j \in 2..k + 1 /\ t \notin S /\ j # k + 1
    BY <1>2, <1>7
  <2>4. r.next \in [Timers -> Timers \cup {Null}] /\ r.prev \in [Timers -> Timers \cup {Null}]
    BY <1>2, <1>3, <2>2, <2>3 DEF Lists
  <2>5. r \in Lists
    BY <2>1, <2>2, <2>4 DEF Lists
  <2>6. r.next[t] = at[j] /\ r.prev[t] = at[j - 1]
    BY <1>2, <1>3, <1>5, <2>2, <2>3
  <2>7. ASSUME NEW i \in 1..k
        PROVE  /\ r.prev[at[i]] = IF i = j THEN t ELSE l.prev[at[i]]
               /\ r.next[at[i]] = IF i = j - 1 THEN t ELSE l.next[at[i]]
    BY <1>2, <1>3, <1>5, <2>2, <2>3
  <2>8. ASSUME NEW i \in 1..k
        PROVE  IF i < j THEN l.expire[at[i]] <= l.expire[t] ELSE l.expire[t] <= l.expire[at[i]]
    <3>1. ~(i < j) => l.expire[at[j]] <= l.expire[at[i]]
      BY <1>2
    <3> QED BY <1>2, <1>3, <2>1, <3>1
  <2>9. Inserted(l, r, at, k, t, j)
    BY <1>3, <2>2, <2>3, <2>6, <2>7, <2>8 DEF Inserted
  <2>10. Linked(r, Nodes(r))
    <3>1. Linked(r, S \cup {t})
      BY <2>3, <2>9, InsertedChain
    <3>2. Nodes(r) = S \cup {t}
      BY <2>2 DEF Nodes
    <3> QED BY <3>1, <3>2
  <2> QED BY <2>2, <2>5, <2>10 DEF Sound, r
<1>8. CASE ~(j = k /\ l.expire[at[k]] < l.expire[t]) /\ j = 1
  <2>1. r = [l EXCEPT !.fate = "ruined"]
    BY <1>1, <1>8 DEF Put, Ruined
  <2>2. r \in Lists /\ r.expire = l.expire /\ r.fate = "ruined"
    BY <1>5, <2>1 DEF Lists
  <2> QED BY <2>2 DEF Sound, r
<1> QED BY <1>6, <1>7, <1>8
-----------------------------------------------------------------------------
\* What is known of the node at a place of the list.
LEMMA Places ==
    ASSUME NEW l \in Lists, NEW at, NEW k, Chain(l, Nodes(l), at, k)
    PROVE  /\ k \in Nat
           /\ \A i \in 1..k : /\ at[i] \in Nodes(l) /\ at[i] \in Timers
                              /\ l.expire[at[i]] \in 0..Idle
                              /\ l.prev[at[i]] = IF i = 1 THEN Null ELSE at[i - 1]
                              /\ l.next[at[i]] = IF i = k THEN Null ELSE at[i + 1]
           /\ \A i, n \in 1..k : at[i] = at[n] => i = n
           /\ \A i, n \in 1..k : i <= n => l.expire[at[i]] <= l.expire[at[n]]
           /\ IF k = 0 THEN l.head = Null ELSE l.head = at[1] /\ l.tail = at[k]
           /\ \A t \in Nodes(l) : \E i \in 1..k : at[i] = t
           /\ Null \notin Timers /\ Null \notin 0..Idle /\ Idle \in Nat
BY NodeKinds DEF Chain

\* The fields of a list.
LEMMA Fields ==
    ASSUME NEW l \in Lists
    PROVE  /\ l = [head |-> l.head, tail |-> l.tail, prev |-> l.prev, next |-> l.next,
                   expire |-> l.expire, fate |-> l.fate]
           /\ l.head \in Timers \cup {Null} /\ l.tail \in Timers \cup {Null}
           /\ l.prev \in [Timers -> Timers \cup {Null}]
           /\ l.next \in [Timers -> Timers \cup {Null}]
           /\ l.expire \in [Timers -> 0..Idle \cup {Null}]
           /\ l.fate \in {"fine", "ruined", "hung"}
BY DEF Lists

\* new util_timer and add_timer, for a timer that runs for the full idle time.
LEMMA AddPlaces ==
    ASSUME NEW l \in Lists, Linked(l, Nodes(l)), NEW t \in Timers \ Nodes(l)
    PROVE  /\ Sound(AddTimer(NewTimer(l, t, Idle), t))
           /\ AddTimer(NewTimer(l, t, Idle), t).expire = [l.expire EXCEPT ![t] = Idle]
<1> DEFINE new == NewTimer(l, t, Idle)
           S == Nodes(l)
<1>1. PICK at, k : Chain(l, S, at, k)
  BY DEF Linked
<1>2. /\ k \in Nat
      /\ \A i \in 1..k : /\ at[i] \in S /\ at[i] \in Timers /\ at[i] # t
                         /\ l.expire[at[i]] \in 0..Idle
      /\ IF k = 0 THEN l.head = Null ELSE l.head = at[1]
      /\ \A x \in S : \E i \in 1..k : at[i] = x
      /\ Null \notin Timers /\ Null \notin 0..Idle /\ Idle \in Nat
  BY <1>1, Places
<1>3. /\ new.head = l.head /\ new.tail = l.tail /\ new.fate = l.fate
      /\ new.prev = [l.prev EXCEPT ![t] = Null] /\ new.next = [l.next EXCEPT ![t] = Null]
      /\ new.expire = [l.expire EXCEPT ![t] = Idle]
      /\ new = [head |-> new.head, tail |-> new.tail, prev |-> new.prev, next |-> new.next,
                expire |-> new.expire, fate |-> new.fate]
  <2>1. new = [l EXCEPT !.prev[t] = Null, !.next[t] = Null, !.expire[t] = Idle]
    BY DEF NewTimer
  <2> HIDE DEF new
  <2> QED BY <2>1 DEF Lists
<1> HIDE DEF new
<1>4. new.expire \in [Timers -> 0..Idle \cup {Null}]
  BY <1>2, <1>3, Fields
<1>5. new.prev \in [Timers -> Timers \cup {Null}] /\ new.next \in [Timers -> Timers \cup {Null}]
  BY <1>3, Fields
<1>6. new \in Lists
  BY <1>3, <1>4, <1>5, Fields DEF Lists
<1>7. Nodes(new) = S \cup {t} /\ S = Nodes(new) \ {t}
  BY <1>2, <1>3, Fields DEF Nodes
<1>8. new.prev[t] = Null /\ new.next[t] = Null /\ new.expire[t] = Idle
  BY <1>3, Fields
<1>9. ASSUME NEW i \in 1..k
      PROVE  /\ new.prev[at[i]] = l.prev[at[i]] /\ new.next[at[i]] = l.next[at[i]]
             /\ new.expire[at[i]] = l.expire[at[i]]
  BY <1>2, <1>3, Fields
<1>10. Chain(new, S, at, k)
  BY <1>1, <1>3, <1>9 DEF Chain
<1>11. Sound(AddTimer(new, t)) /\ AddTimer(new, t).expire = new.expire
  <2>1. CASE k = 0
    <3> DEFINE r == [new EXCEPT !.head = t, !.tail = t]
               one == [i \in 1..1 |-> t]
    <3>1. AddTimer(new, t) = r
      BY <1>2, <1>3, <2>1 DEF AddTimer
    <3>2. /\ r.head = t /\ r.tail = t /\ r.prev = new.prev /\ r.next = new.next
          /\ r.expire = new.expire /\ r.fate = new.fate /\ r \in Lists
      BY <1>6 DEF Lists
    <3>3. Nodes(r) = {t}
      <4>1. S = {}
        BY <1>2, <2>1
      <4>2. Nodes(r) = Nodes(new)
        BY <3>2 DEF Nodes
      <4> QED BY <1>7, <4>1, <4>2
    <3>4. Chain(r, {t}, one, 1)
      BY <1>2, <1>8, <3>2 DEF Chain
    <3> QED BY <3>1, <3>2, <3>3, <3>4 DEF Sound, Linked
  <2>2. CASE k # 0
    <3>1. /\ 1 \in 1..k /\ new.head = at[1] /\ new.head # Null /\ new.head \in Nodes(new)
          /\ ~(new.expire[t] < new.expire[new.head])
      BY <1>2, <1>3, <1>7, <1>8, <1>9, <2>2
    <3>2. AddTimer(new, t) = InsertFrom(new, t, at[1])
      BY <3>1 DEF AddTimer
    <3>3. \A s \in S : new.expire[s] <= new.expire[t]
      BY <1>2, <1>8, <1>9
    <3>4. t \in Nodes(new) /\ S = Nodes(new) \ {t}
      BY <1>7
    <3>5. Sound(InsertFrom(new, t, at[1])) /\ InsertFrom(new, t, at[1]).expire = new.expire
      BY <1>6, <1>8, <1>10, <3>1, <3>3, <3>4, InsertPlaces
    <3> QED BY <3>2, <3>5
  <2> QED BY <2>1, <2>2
<1> QED BY <1>3, <1>11 DEF new

(***************************************************************************)
(* The renewal after which adjust_timer leaves a cycle: of a timer in the  *)
(* middle, while the last one was not renewed in the same second.  It is   *)
(* put behind the last one, and its next still points to the node that it  *)
(* stood before (lst_timer.cpp:102).                                       *)
(***************************************************************************)
MovedToEnd(l, t) == t # l.head /\ t # l.tail /\ l.expire[l.tail] < Idle

\* adjust_timer takes a node out of the middle and leaves its next alone.
LEMMA TakenOut ==
    ASSUME NEW l \in Lists, NEW at, NEW k, Chain(l, Nodes(l), at, k), NEW j \in 2..k - 1
    PROVE  \E out \in Lists :
             /\ AdjustTimer([l EXCEPT !.expire[at[j]] = Idle], at[j])
                  = InsertFrom(out, at[j], at[j + 1])
             /\ out.expire = [l.expire EXCEPT ![at[j]] = Idle]
             /\ Removed(l, out, at, k, j)
             /\ out.fate = l.fate /\ out.next[at[j]] = at[j + 1]
<1> DEFINE t == at[j]
           n == at[j + 1]
           p == at[j - 1]
           new == [l EXCEPT !.expire[t] = Idle]
           S == Nodes(l)
<1>1. /\ k \in Nat /\ j \in Nat /\ j > 1 /\ j < k /\ j \in 1..k /\ j - 1 \in 1..k /\ j + 1 \in 1..k
      /\ \A i \in 1..k : /\ at[i] \in S /\ at[i] \in Timers
                         /\ l.expire[at[i]] \in 0..Idle
                         /\ l.prev[at[i]] = IF i = 1 THEN Null ELSE at[i - 1]
                         /\ l.next[at[i]] = IF i = k THEN Null ELSE at[i + 1]
      /\ \A i, m \in 1..k : at[i] = at[m] => i = m
      /\ l.head = at[1] /\ l.tail = at[k]
      /\ Null \notin Timers /\ Null \notin 0..Idle /\ Idle \in Nat
  <2>1. k \in Nat
    BY DEF Chain
  <2> QED BY <2>1, Places
<1>2. /\ new.head = l.head /\ new.tail = l.tail /\ new.prev = l.prev /\ new.next = l.next
      /\ new.fate = l.fate /\ new.expire = [l.expire EXCEPT ![t] = Idle]
      /\ new = [head |-> new.head, tail |-> new.tail, prev |-> new.prev, next |-> new.next,
                expire |-> new.expire, fate |-> new.fate]
  BY DEF Lists
<1> HIDE DEF new
<1>3. new.expire \in [Timers -> 0..Idle \cup {Null}]
  BY <1>1, <1>2, Fields
<1>4. new \in Lists
  BY <1>2, <1>3, Fields DEF Lists
<1>5. /\ Nodes(new) = S /\ new.expire[t] = Idle
      /\ \A i \in 1..k : i # j => new.expire[at[i]] = l.expire[at[i]]
  BY <1>1, <1>2, Fields DEF Nodes
<1>6. /\ n \in S /\ n \in Timers /\ new.next[t] = n /\ n # t /\ t # new.tail
      /\ p \in S /\ p \in Timers /\ new.prev[t] = p /\ p # t /\ p # n /\ t # new.head
      /\ ~(new.expire[t] < new.expire[n])
  BY <1>1, <1>2, <1>5
<1> DEFINE out == [new EXCEPT !.next[p] = n, !.prev[n] = p]
<1>7. AdjustTimer(new, t) = InsertFrom(out, t, n)
  BY <1>5, <1>6 DEF AdjustTimer
<1>8. /\ out.head = l.head /\ out.tail = l.tail /\ out.fate = l.fate /\ out.expire = new.expire
      /\ out.prev = [l.prev EXCEPT ![n] = p] /\ out.next = [l.next EXCEPT ![p] = n]
      /\ out = [head |-> out.head, tail |-> out.tail, prev |-> out.prev, next |-> out.next,
                expire |-> out.expire, fate |-> out.fate]
  <2>1. out = [new EXCEPT !.next[p] = n, !.prev[n] = p]
    OBVIOUS
  <2> HIDE DEF out
  <2>2. /\ out.head = new.head /\ out.tail = new.tail /\ out.fate = new.fate
        /\ out.expire = new.expire /\ out.prev = [new.prev EXCEPT ![n] = p]
        /\ out.next = [new.next EXCEPT ![p] = n]
        /\ out = [head |-> out.head, tail |-> out.tail, prev |-> out.prev, next |-> out.next,
                  expire |-> out.expire, fate |-> out.fate]
    BY <1>4, <2>1 DEF Lists
  <2> QED BY <1>2, <2>2
<1> HIDE DEF out
<1>9. out.prev \in [Timers -> Timers \cup {Null}] /\ out.next \in [Timers -> Timers \cup {Null}]
  BY <1>6, <1>8 DEF Lists
<1>10. out \in Lists
  BY <1>3, <1>8, <1>9, Fields DEF Lists
<1>11. Removed(l, out, at, k, j)
  <2>1. \A i \in 1..k \ {j} : /\ at[i] = n <=> i = j + 1
                              /\ at[i] = p <=> i = j - 1
    BY <1>1
  <2>2. l.next[at[j]] = n /\ l.prev[at[j]] = p
    BY <1>1
  <2>3. \A i \in 1..k \ {j} :
           /\ out.prev[at[i]] = IF i = j + 1 THEN p ELSE l.prev[at[i]]
           /\ out.next[at[i]] = IF i = j - 1 THEN n ELSE l.next[at[i]]
    BY <1>1, <1>8, <2>1, Fields
  <2> QED BY <1>1, <1>5, <1>8, <2>2, <2>3 DEF Removed
<1>12. out.next[t] = n
  BY <1>1, <1>6, <1>8, Fields
<1> QED BY <1>2, <1>7, <1>8, <1>10, <1>11, <1>12 DEF new

\* adjust_timer, for a timer whose time starts again.
LEMMA AdjustPlaces ==
    ASSUME NEW l \in Lists, Linked(l, Nodes(l)), NEW t \in Nodes(l), ~MovedToEnd(l, t)
    PROVE  /\ Sound(AdjustTimer([l EXCEPT !.expire[t] = Idle], t))
           /\ AdjustTimer([l EXCEPT !.expire[t] = Idle], t).expire = [l.expire EXCEPT ![t] = Idle]
<1> DEFINE new == [l EXCEPT !.expire[t] = Idle]
           S == Nodes(l)
<1>1. PICK at, k : Chain(l, S, at, k)
  BY DEF Linked
<1>2. PICK j \in 1..k : at[j] = t
  BY <1>1 DEF Chain
<1>3. /\ k \in Nat /\ j \in Nat /\ j > 0 /\ j <= k
      /\ \A i \in 1..k : /\ at[i] \in S /\ at[i] \in Timers
                         /\ l.expire[at[i]] \in 0..Idle
                         /\ l.prev[at[i]] = IF i = 1 THEN Null ELSE at[i - 1]
                         /\ l.next[at[i]] = IF i = k THEN Null ELSE at[i + 1]
      /\ \A i, n \in 1..k : at[i] = at[n] => i = n
      /\ \A i, n \in 1..k : i <= n => l.expire[at[i]] <= l.expire[at[n]]
      /\ l.head = at[1] /\ l.tail = at[k]
      /\ \A x \in S : \E i \in 1..k : at[i] = x
      /\ Null \notin Timers /\ Null \notin 0..Idle /\ Idle \in Nat
  BY <1>1, <1>2, Places
<1>4. /\ new.head = l.head /\ new.tail = l.tail /\ new.prev = l.prev /\ new.next = l.next
      /\ new.fate = l.fate /\ new.expire = [l.expire EXCEPT ![t] = Idle]
      /\ new = [head |-> new.head, tail |-> new.tail, prev |-> new.prev, next |-> new.next,
                expire |-> new.expire, fate |-> new.fate]
  BY DEF Lists
<1> HIDE DEF new
<1>5. new.expire \in [Timers -> 0..Idle \cup {Null}]
  BY <1>3, <1>4, Fields
<1>6. new \in Lists
  BY <1>4, <1>5, Fields DEF Lists
<1>7. /\ Nodes(new) = S /\ new.expire[t] = Idle
      /\ \A i \in 1..k : i # j => new.expire[at[i]] = l.expire[at[i]]
  BY <1>2, <1>3, <1>4, Fields DEF Nodes
<1>8. AdjustTimer(new, t) = IF t = new.tail THEN new
        ELSE IF new.next[t] \notin S THEN Ruined(new)
        ELSE IF new.expire[t] < new.expire[new.next[t]] THEN new
        ELSE IF t = new.head
          THEN InsertFrom([new EXCEPT !.head = new.next[t], !.prev[new.next[t]] = Null,
                                      !.next[t] = Null], t, new.next[t])
        ELSE IF new.prev[t] \notin S THEN Ruined(new)
        ELSE InsertFrom([new EXCEPT !.next[new.prev[t]] = new.next[t],
                                    !.prev[new.next[t]] = new.prev[t]], t, new.next[t])
  BY <1>7 DEF AdjustTimer
<1>9. CASE j = k
  <2>1. Chain(new, S, at, k)
    <3>1. \A i, n \in 1..k : i <= n => new.expire[at[i]] <= new.expire[at[n]]
      BY <1>2, <1>3, <1>7, <1>9
    <3> QED BY <1>1, <1>4, <3>1 DEF Chain
  <2>2. AdjustTimer(new, t) = new
    BY <1>2, <1>3, <1>4, <1>8, <1>9
  <2> QED BY <1>4, <1>6, <1>7, <2>1, <2>2 DEF Sound, Linked, new
<1> DEFINE n == at[j + 1]
           rest == [i \in 1..k - 1 |-> IF i < j THEN at[i] ELSE at[i + 1]]
<1>10. ASSUME j # k, NEW out, out \in Lists, out.expire = new.expire,
              Removed(l, out, at, k, j),
              out.next[t] = Null \/ Idle <= l.expire[at[k]]
       PROVE  Sound(InsertFrom(out, t, n)) /\ InsertFrom(out, t, n).expire = new.expire
  <2>1. Chain(out, S \ {t}, rest, k - 1)
    BY <1>1, <1>2, <1>10, RemovedChain
  <2>2. Nodes(out) = S /\ t \in Nodes(out)
    BY <1>7, <1>10 DEF Nodes
  <2>3. j \in 1..k - 1 /\ rest[j] = n /\ rest[k - 1] = at[k]
    BY <1>3, <1>10
  <2>4. \A s \in S \ {t} : out.expire[s] <= out.expire[t]
    BY <1>2, <1>3, <1>7, <1>10
  <2>5. out.expire[t] = Idle /\ out.expire[at[k]] = l.expire[at[k]]
    BY <1>3, <1>7, <1>10
  <2> HIDE DEF rest
  <2>6. out.next[t] = Null \/ out.expire[t] <= out.expire[rest[k - 1]]
    BY <1>10, <2>3, <2>5
  <2>7. Sound(InsertFrom(out, t, rest[j])) /\ InsertFrom(out, t, rest[j]).expire = out.expire
    <3>1. S \ {t} = Nodes(out) \ {t}
      BY <2>2
    <3> QED BY <1>10, <2>1, <2>2, <2>3, <2>4, <2>6, <3>1, InsertPlaces
  <2> QED BY <1>10, <2>3, <2>7
<1>11. ASSUME j # k
       PROVE  /\ j + 1 \in 1..k /\ n \in S /\ n \in Timers /\ new.next[t] = n /\ n # t /\ t # new.tail
              /\ ~(new.expire[t] < new.expire[n])
  BY <1>2, <1>3, <1>4, <1>7, <1>11
<1>12. CASE j # k /\ j = 1
  <2> DEFINE out == [new EXCEPT !.head = n, !.prev[n] = Null, !.next[t] = Null]
  <2>1. AdjustTimer(new, t) = InsertFrom(out, t, n)
    BY <1>2, <1>3, <1>4, <1>8, <1>11, <1>12
  <2>2. /\ out.head = n /\ out.tail = l.tail /\ out.fate = l.fate /\ out.expire = new.expire
        /\ out.prev = [l.prev EXCEPT ![n] = Null] /\ out.next = [l.next EXCEPT ![t] = Null]
        /\ out = [head |-> out.head, tail |-> out.tail, prev |-> out.prev, next |-> out.next,
                  expire |-> out.expire, fate |-> out.fate]
    <3>1. out = [new EXCEPT !.head = n, !.prev[n] = Null, !.next[t] = Null]
      OBVIOUS
    <3> HIDE DEF out
    <3>2. /\ out.head = n /\ out.tail = new.tail /\ out.fate = new.fate
          /\ out.expire = new.expire /\ out.prev = [new.prev EXCEPT ![n] = Null]
          /\ out.next = [new.next EXCEPT ![t] = Null]
          /\ out = [head |-> out.head, tail |-> out.tail, prev |-> out.prev, next |-> out.next,
                    expire |-> out.expire, fate |-> out.fate]
      BY <1>6, <3>1 DEF Lists
    <3> QED BY <1>4, <3>2
  <2> HIDE DEF out
  <2>3. /\ out.prev \in [Timers -> Timers \cup {Null}] /\ out.next \in [Timers -> Timers \cup {Null}]
    BY <2>2 DEF Lists
  <2>4. out \in Lists
    BY <1>5, <1>11, <1>12, <2>2, <2>3, Fields DEF Lists
  <2>5. Removed(l, out, at, k, j)
    BY <1>2, <1>3, <1>7, <1>11, <1>12, <2>2, Fields DEF Removed
  <2>6. out.next[t] = Null
    BY <1>2, <1>3, <2>2 DEF Lists
  <2>7. Sound(InsertFrom(out, t, n)) /\ InsertFrom(out, t, n).expire = new.expire
    BY <1>10, <1>12, <2>2, <2>4, <2>5, <2>6
  <2> QED BY <1>4, <2>1, <2>7 DEF new
<1>13. CASE j # k /\ j # 1
  <2>1. PICK out \in Lists : /\ AdjustTimer(new, t) = InsertFrom(out, t, n)
                             /\ out.expire = new.expire /\ Removed(l, out, at, k, j)
    <3>1. j \in 2..k - 1
      BY <1>3, <1>13
    <3> QED BY <1>1, <1>2, <1>4, <3>1, TakenOut DEF new
  <2>2. Idle <= l.expire[at[k]]
    <3>1. t # l.head /\ t # l.tail
      BY <1>2, <1>3, <1>13
    <3> QED BY <1>3, <3>1 DEF MovedToEnd
  <2>3. Sound(InsertFrom(out, t, n)) /\ InsertFrom(out, t, n).expire = new.expire
    BY <1>10, <1>13, <2>1, <2>2
  <2> QED BY <1>4, <2>1, <2>3 DEF new
<1> QED BY <1>9, <1>12, <1>13

\* In the case left out, the list is broken.
LEMMA MovedBreaks ==
    ASSUME NEW l \in Lists, l.fate = "fine", Linked(l, Nodes(l)), NEW t \in Nodes(l),
           MovedToEnd(l, t)
    PROVE  LET r == AdjustTimer([l EXCEPT !.expire[t] = Idle], t)
           IN  r.fate = "fine" /\ ~SortedDoublyLinked(r)
<1> DEFINE r == AdjustTimer([l EXCEPT !.expire[t] = Idle], t)
           S == Nodes(l)
<1>1. PICK at, k : Chain(l, S, at, k)
  BY DEF Linked
<1>2. PICK j \in 1..k : at[j] = t
  BY <1>1 DEF Chain
<1>3. /\ k \in Nat /\ j \in 2..k - 1 /\ l.expire[at[k]] < Idle
      /\ \A i \in 1..k : at[i] \in S /\ at[i] \in Timers /\ l.expire[at[i]] \in 0..Idle
      /\ \A i, n \in 1..k : at[i] = at[n] => i = n
      /\ \A i, n \in 1..k : i <= n => l.expire[at[i]] <= l.expire[at[n]]
      /\ Null \notin Timers /\ Null \notin 0..Idle /\ Idle \in Nat
  BY <1>1, <1>2, Places, NodeKinds DEF MovedToEnd
<1>4. PICK out \in Lists : /\ r = InsertFrom(out, t, at[j + 1])
                           /\ out.expire = [l.expire EXCEPT ![t] = Idle]
                           /\ Removed(l, out, at, k, j)
                           /\ out.fate = l.fate /\ out.next[t] = at[j + 1]
  BY <1>1, <1>2, <1>3, TakenOut
<1> HIDE DEF r
<1> DEFINE rest == [i \in 1..k - 1 |-> IF i < j THEN at[i] ELSE at[i + 1]]
<1>5. Chain(out, S \ {t}, rest, k - 1)
  BY <1>1, <1>2, <1>4, RemovedChain
<1>6. /\ j \in 1..k - 1 /\ rest[j] = at[j + 1] /\ rest[k - 1] = at[k] /\ at[k] # t
      /\ \A i \in 1..k - 1 : \E m \in 1..k : m # j /\ rest[i] = at[m]
  <2>1. /\ j \in 1..k - 1 /\ k - 1 \in 1..k - 1 /\ ~(k - 1 < j)
        /\ (k - 1) + 1 = k /\ k \in 1..k /\ k # j
    BY <1>3
  <2>2. rest[j] = at[j + 1] /\ rest[k - 1] = at[k]
    BY <2>1
  <2>3. ASSUME NEW i \in 1..k - 1 PROVE \E m \in 1..k : m # j /\ rest[i] = at[m]
    <3>1. CASE i < j
      BY <1>3, <3>1
    <3>2. CASE ~(i < j)
      <4>1. i + 1 \in 1..k /\ i + 1 # j /\ rest[i] = at[i + 1]
        BY <1>3, <3>2
      <4> QED BY <4>1
    <3> QED BY <3>1, <3>2
  <2> QED BY <1>2, <1>3, <2>1, <2>2, <2>3
<1> HIDE DEF rest
<1>7. Nodes(out) = S /\ t \in Nodes(out) \ (S \ {t}) /\ S \ {t} \in SUBSET Nodes(out)
  BY <1>3, <1>4, Fields DEF Nodes
<1>8. PICK i \in j..k - 1 : Put(out, InsertFrom(out, t, rest[j]), rest, k - 1, t, i)
  BY <1>5, <1>6, <1>7, WalkResult
<1>9. out.expire[t] = Idle /\ ~(out.expire[t] <= out.expire[rest[i]])
  <2>1. out.expire[t] = Idle /\ \A s \in Timers \ {t} : out.expire[s] = l.expire[s]
    BY <1>4, Fields DEF Nodes
  <2>2. PICK m \in 1..k : m # j /\ rest[i] = at[m]
    BY <1>3, <1>6
  <2>3. out.expire[rest[i]] = l.expire[at[m]] /\ l.expire[at[m]] <= l.expire[at[k]]
    BY <1>2, <1>3, <2>1, <2>2
  <2> QED BY <1>3, <2>1, <2>3
<1>10. r = [out EXCEPT !.next[at[k]] = t, !.prev[t] = at[k], !.tail = t]
  BY <1>4, <1>6, <1>8, <1>9 DEF Put
<1>11. r.fate = "fine" /\ r.tail = t /\ r.expire = out.expire /\ r.next[t] = at[j + 1]
  BY <1>4, <1>6, <1>10 DEF Lists
<1>12. at[j + 1] # Null
  BY <1>3
<1>13. Cardinality(Nodes(r)) # 0
  <2>1. Nodes(r) = Nodes(out) /\ Nodes(r) # {} /\ Nodes(r) \in SUBSET Timers
    BY <1>7, <1>11 DEF Nodes
  <2> QED BY <2>1, TimerAssumption, FS_Subset, FS_EmptySet
<1>14. ~SortedDoublyLinked(r)
  BY <1>11, <1>12, <1>13 DEF SortedDoublyLinked
<1> QED BY <1>11, <1>14 DEF r

\* A node is taken out and deleted.
LEMMA CutPlaces ==
    ASSUME NEW l \in Lists, NEW at, NEW k, Chain(l, Nodes(l), at, k), NEW j \in 1..k,
           NEW r \in Lists, Removed(l, r, at, k, j), r.expire = [l.expire EXCEPT ![at[j]] = Null]
    PROVE  Sound(r) /\ Linked(r, Nodes(r)) /\ Cardinality(Nodes(r)) = k - 1
<1> DEFINE rest == [i \in 1..k - 1 |-> IF i < j THEN at[i] ELSE at[i + 1]]
<1>1. Nodes(r) = Nodes(l) \ {at[j]} /\ Nodes(r) \in SUBSET Timers
  BY DEF Nodes, Lists
<1>2. Chain(r, Nodes(r), rest, k - 1)
  BY <1>1, RemovedChain
<1> HIDE DEF rest
<1>3. Cardinality(Nodes(r)) = k - 1
  BY <1>1, <1>2, ChainLength
<1> QED BY <1>2, <1>3 DEF Sound, Linked

\* del_timer.
LEMMA DelPlaces ==
    ASSUME NEW l \in Lists, Linked(l, Nodes(l)), NEW t \in Nodes(l)
    PROVE  /\ Sound(DelTimer(l, t)) /\ DelTimer(l, t).fate = l.fate
           /\ DelTimer(l, t).expire = [l.expire EXCEPT ![t] = Null]
<1> DEFINE S == Nodes(l)
           r == DelTimer(l, t)
<1>1. PICK at, k : Chain(l, S, at, k)
  BY DEF Linked
<1>2. PICK j \in 1..k : at[j] = t
  BY <1>1 DEF Chain
<1>3. /\ k \in Nat /\ j \in Nat /\ j > 0 /\ j <= k
      /\ \A i \in 1..k : /\ at[i] \in S /\ at[i] \in Timers
                         /\ l.prev[at[i]] = IF i = 1 THEN Null ELSE at[i - 1]
                         /\ l.next[at[i]] = IF i = k THEN Null ELSE at[i + 1]
      /\ \A i, n \in 1..k : at[i] = at[n] => i = n
      /\ l.head = at[1] /\ l.tail = at[k]
      /\ Null \notin Timers
  BY <1>1, <1>2, Places
<1>4. t = l.head <=> j = 1
  BY <1>2, <1>3
<1>5. t = l.tail <=> j = k
  BY <1>2, <1>3
<1>6. /\ j # 1 => j - 1 \in 1..k /\ at[j - 1] \in S /\ at[j - 1] \in Timers /\ l.prev[t] = at[j - 1]
      /\ j # k => j + 1 \in 1..k /\ at[j + 1] \in S /\ at[j + 1] \in Timers /\ l.next[t] = at[j + 1]
      /\ \A i \in 1..k : (at[i] = at[j - 1] /\ j # 1) => i = j - 1
      /\ \A i \in 1..k : (at[i] = at[j + 1] /\ j # k) => i = j + 1
  BY <1>2, <1>3
<1> DEFINE cut(h, u, p, n) == /\ r.head = h /\ r.tail = u /\ r.prev = p /\ r.next = n /\ r.fate = l.fate
                              /\ r.expire = [l.expire EXCEPT ![t] = Null]
                              /\ r = [head |-> h, tail |-> u, prev |-> p, next |-> n,
                                      expire |-> r.expire, fate |-> l.fate]
<1>7. r.expire = [l.expire EXCEPT ![t] = Null] => r.expire \in [Timers -> 0..Idle \cup {Null}]
  BY DEF Lists
<1>8. CASE j = 1 /\ j = k
  <2>1. r = Delete([l EXCEPT !.head = Null, !.tail = Null], t)
    BY <1>4, <1>5, <1>8 DEF DelTimer
  <2> HIDE DEF r
  <2>2. cut(Null, Null, l.prev, l.next)
    BY <2>1 DEF Delete, Lists
  <2>3. r \in Lists
    BY <1>7, <2>2, Fields DEF Lists
  <2>4. Removed(l, r, at, k, j)
    BY <1>2, <1>3, <1>8, <2>2 DEF Removed
  <2> QED BY <1>1, <1>2, <2>2, <2>3, <2>4, CutPlaces DEF r
<1>9. CASE j = 1 /\ j # k
  <2>1. r = Delete([l EXCEPT !.head = at[2], !.prev[at[2]] = Null], t)
    <3>1. l.next[t] = at[2] /\ at[2] \in S /\ t = l.head /\ t # l.tail
      BY <1>4, <1>5, <1>6, <1>9
    <3> QED BY <3>1 DEF DelTimer
  <2> HIDE DEF r
  <2>2. cut(at[2], l.tail, [l.prev EXCEPT ![at[2]] = Null], l.next)
    BY <2>1 DEF Delete, Lists
  <2>3. r.prev \in [Timers -> Timers \cup {Null}] /\ at[2] \in Timers
    BY <1>6, <1>9, <2>2 DEF Lists
  <2>4. r \in Lists
    BY <1>7, <2>2, <2>3, Fields DEF Lists
  <2>5. Removed(l, r, at, k, j)
    <3>1. \A i \in 1..k \ {j} : r.prev[at[i]] = IF i = 2 THEN Null ELSE l.prev[at[i]]
      BY <1>3, <1>6, <1>9, <2>2 DEF Lists
    <3>2. \A i \in 1..k \ {j} : r.expire[at[i]] = l.expire[at[i]]
      BY <1>2, <1>3, <2>2 DEF Lists
    <3> QED BY <1>2, <1>3, <1>6, <1>9, <2>2, <3>1, <3>2 DEF Removed
  <2> QED BY <1>1, <1>2, <2>2, <2>4, <2>5, CutPlaces DEF r
<1>10. CASE j # 1 /\ j = k
  <2> DEFINE p == at[j - 1]
  <2>1. r = Delete([l EXCEPT !.tail = p, !.next[p] = Null], t)
    BY <1>4, <1>5, <1>6, <1>10 DEF DelTimer
  <2> HIDE DEF r
  <2>2. cut(l.head, p, l.prev, [l.next EXCEPT ![p] = Null])
    BY <2>1 DEF Delete, Lists
  <2>3. r.next \in [Timers -> Timers \cup {Null}] /\ p \in Timers
    BY <1>6, <1>10, <2>2 DEF Lists
  <2>4. r \in Lists
    BY <1>7, <2>2, <2>3, Fields DEF Lists
  <2>5. Removed(l, r, at, k, j)
    <3>1. \A i \in 1..k \ {j} : r.next[at[i]] = IF i = j - 1 THEN Null ELSE l.next[at[i]]
      BY <1>3, <1>6, <1>10, <2>2 DEF Lists
    <3>2. \A i \in 1..k \ {j} : r.expire[at[i]] = l.expire[at[i]]
      BY <1>2, <1>3, <2>2 DEF Lists
    <3> QED BY <1>2, <1>3, <1>6, <1>10, <2>2, <3>1, <3>2 DEF Removed
  <2> QED BY <1>1, <1>2, <2>2, <2>4, <2>5, CutPlaces DEF r
<1>11. CASE j # 1 /\ j # k
  <2> DEFINE p == at[j - 1]
             n == at[j + 1]
  <2>1. r = Delete([l EXCEPT !.next[p] = n, !.prev[n] = p], t)
    BY <1>4, <1>5, <1>6, <1>11 DEF DelTimer
  <2> HIDE DEF r
  <2>2. cut(l.head, l.tail, [l.prev EXCEPT ![n] = p], [l.next EXCEPT ![p] = n])
    BY <2>1 DEF Delete, Lists
  <2>3. /\ r.next \in [Timers -> Timers \cup {Null}] /\ r.prev \in [Timers -> Timers \cup {Null}]
    BY <1>6, <1>11, <2>2 DEF Lists
  <2>4. r \in Lists
    BY <1>7, <2>2, <2>3, Fields DEF Lists
  <2>5. Removed(l, r, at, k, j)
    <3>1. \A i \in 1..k \ {j} : /\ r.next[at[i]] = IF i = j - 1 THEN n ELSE l.next[at[i]]
                                /\ r.prev[at[i]] = IF i = j + 1 THEN p ELSE l.prev[at[i]]
      BY <1>3, <1>6, <1>11, <2>2 DEF Lists
    <3>2. \A i \in 1..k \ {j} : r.expire[at[i]] = l.expire[at[i]]
      BY <1>2, <1>3, <2>2 DEF Lists
    <3> QED BY <1>2, <1>3, <1>6, <1>11, <2>2, <3>1, <3>2 DEF Removed
  <2> QED BY <1>1, <1>2, <2>2, <2>4, <2>5, CutPlaces DEF r
<1> QED BY <1>8, <1>9, <1>10, <1>11

\* One turn of the loop of tick().
LEMMA DropPlaces ==
    ASSUME NEW l \in Lists, NEW at, NEW k, Chain(l, Nodes(l), at, k), k # 0
    PROVE  /\ DropHead(l) \in Lists /\ DropHead(l).fate = l.fate
           /\ DropHead(l).expire = [l.expire EXCEPT ![at[1]] = Null]
           /\ Linked(DropHead(l), Nodes(DropHead(l)))
           /\ Cardinality(Nodes(DropHead(l))) = k - 1
<1> DEFINE S == Nodes(l)
           r == DropHead(l)
           t == at[1]
<1>1. /\ k \in Nat /\ 1 \in 1..k
      /\ \A i \in 1..k : /\ at[i] \in S /\ at[i] \in Timers
                         /\ l.prev[at[i]] = IF i = 1 THEN Null ELSE at[i - 1]
                         /\ l.next[at[i]] = IF i = k THEN Null ELSE at[i + 1]
      /\ \A i, n \in 1..k : at[i] = at[n] => i = n
      /\ l.head = at[1] /\ l.tail = at[k]
      /\ Null \notin Timers /\ Null \notin S
  BY Places, NodeKinds
<1>2. r.expire = [l.expire EXCEPT ![t] = Null] => r.expire \in [Timers -> 0..Idle \cup {Null}]
  BY DEF Lists
<1>3. ASSUME r \in Lists, Removed(l, r, at, k, 1), r.expire = [l.expire EXCEPT ![t] = Null]
      PROVE  Linked(r, Nodes(r)) /\ Cardinality(Nodes(r)) = k - 1
  <2> HIDE DEF r
  <2>1. 1 \in 1..k
    BY <1>1
  <2> QED BY <1>3, <2>1, CutPlaces
<1>4. CASE k = 1
  <2>1. r = Delete([l EXCEPT !.head = Null], t)
    BY <1>1, <1>4 DEF DropHead
  <2> HIDE DEF r
  <2>2. /\ r.head = Null /\ r.tail = l.tail /\ r.prev = l.prev /\ r.next = l.next
        /\ r.fate = l.fate /\ r.expire = [l.expire EXCEPT ![t] = Null]
        /\ r = [head |-> Null, tail |-> l.tail, prev |-> l.prev, next |-> l.next,
                expire |-> r.expire, fate |-> l.fate]
    BY <2>1 DEF Delete, Lists
  <2>3. r \in Lists
    BY <1>2, <2>2, Fields DEF Lists
  <2>4. Removed(l, r, at, k, 1)
    BY <1>1, <1>4, <2>2 DEF Removed
  <2> QED BY <1>3, <2>2, <2>3, <2>4 DEF r
<1>5. CASE k # 1
  <2>0. 2 \in 1..k /\ at[2] \in S /\ at[2] \in Timers /\ l.next[t] = at[2] /\ at[2] # Null
    BY <1>1, <1>5
  <2>1. r = Delete([l EXCEPT !.head = at[2], !.prev[at[2]] = Null], t)
    BY <1>1, <2>0 DEF DropHead
  <2> HIDE DEF r
  <2>2. /\ r.head = at[2] /\ r.tail = l.tail /\ r.prev = [l.prev EXCEPT ![at[2]] = Null]
        /\ r.next = l.next /\ r.fate = l.fate /\ r.expire = [l.expire EXCEPT ![t] = Null]
        /\ r = [head |-> at[2], tail |-> l.tail, prev |-> r.prev, next |-> l.next,
                expire |-> r.expire, fate |-> l.fate]
    BY <2>1 DEF Delete, Lists
  <2>3. r.prev \in [Timers -> Timers \cup {Null}]
    BY <2>0, <2>2 DEF Lists
  <2>4. r \in Lists
    BY <1>2, <2>0, <2>2, <2>3, Fields DEF Lists
  <2>5. Removed(l, r, at, k, 1)
    <3>1. \A i \in 1..k \ {1} : r.prev[at[i]] = IF i = 2 THEN Null ELSE l.prev[at[i]]
      BY <1>1, <2>0, <2>2 DEF Lists
    <3>2. \A i \in 1..k \ {1} : r.expire[at[i]] = l.expire[at[i]]
      BY <1>1, <2>2 DEF Lists
    <3>3. \A i \in 1..k \ {1} : i # 1 - 1 /\ (i = 1 + 1 <=> i = 2)
      OBVIOUS
    <3>4. l.prev[at[1]] = Null /\ l.next[at[1]] = at[2]
      BY <1>1, <2>0
    <3> QED BY <1>5, <2>2, <3>1, <3>2, <3>3, <3>4 DEF Removed
  <2> QED BY <1>3, <2>2, <2>4, <2>5 DEF r
<1> QED BY <1>4, <1>5

\* The recursion of Tick.
LEMMA TickSteps ==
    ASSUME NEW l, NEW cur, Cardinality(Timers) \in Nat
    PROVE  \E lists : /\ lists[0] = l /\ Tick(l, cur) = lists[Cardinality(Timers)]
                      /\ \A n \in 1..Cardinality(Timers) : lists[n] = IF Due(lists[n - 1], cur)
                                                      THEN DropHead(lists[n - 1])
                                                      ELSE lists[n - 1]
<1> DEFINE step(x) == IF Due(x, cur) THEN DropHead(x) ELSE x
           follows(f, n) == f = [i \in 0..n |-> IF i = 0 THEN l ELSE step(f[i - 1])]
           short == {n \in Nat : ~ \E f : follows(f, n)}
<1> HIDE DEF step
<1>1. short = {}
  <2> SUFFICES ASSUME short # {} PROVE FALSE
    OBVIOUS
  <2>1. PICK n \in short : \A m \in short : n <= m
    <3>1. short \in SUBSET Nat
      OBVIOUS
    <3> QED BY <3>1, Least
  <2>2. n # 0
    <3>1. follows([i \in 0..0 |-> l], 0)
      OBVIOUS
    <3> QED BY <2>1, <3>1
  <2>3. n - 1 \in Nat /\ n - 1 \notin short
    <3> HIDE DEF follows
    <3>1. n \in Nat
      BY <2>1
    <3> HIDE DEF short
    <3> QED BY <2>1, <2>2, <3>1
  <2>4. PICK f : follows(f, n - 1)
    BY <2>3
  <2> DEFINE g == [i \in 0..n |-> IF i = n THEN step(f[n - 1]) ELSE f[i]]
  <2>5. \A i \in 0..n : g[i] = IF i = 0 THEN l ELSE step(g[i - 1])
    <3> TAKE i \in 0..n
    <3>1. CASE i = n
      BY <2>2, <2>3, <3>1
    <3>2. CASE i # n
      <4>1. i \in 0..n - 1 /\ g[i] = f[i]
        BY <2>1, <3>2
      <4>2. f[i] = IF i = 0 THEN l ELSE step(f[i - 1])
        BY <2>4, <4>1
      <4>3. i # 0 => g[i - 1] = f[i - 1]
        BY <2>1, <3>2
      <4> QED BY <4>1, <4>2, <4>3
    <3> QED BY <3>1, <3>2
  <2>6. follows(g, n)
    BY <2>5
  <2> QED BY <2>1, <2>6
<1> DEFINE N == Cardinality(Timers)
           lists == CHOOSE f : follows(f, N)
<1>2. follows(lists, N)
  <2>1. \E f : follows(f, N)
    BY <1>1
  <2> HIDE DEF follows
  <2> QED BY <2>1
<1>3. Tick(l, cur) = lists[N]
  BY DEF Tick, step
<1> HIDE DEF lists, N
<1>4. \A i \in 0..N : lists[i] = IF i = 0 THEN l ELSE step(lists[i - 1])
  BY <1>2
<1>5. lists[0] = l /\ \A n \in 1..N : lists[n] = step(lists[n - 1])
  BY <1>4 DEF N
<1> QED BY <1>3, <1>5 DEF step, N

\* tick() takes out and deletes the timers whose time is over, and no other.
LEMMA TickPlaces ==
    ASSUME NEW l \in Lists, l.fate = "fine", Linked(l, Nodes(l))
    PROVE  /\ Sound(Tick(l, 0)) /\ Tick(l, 0).fate = "fine"
           /\ Tick(l, 0).expire = [t \in Timers |-> IF l.expire[t] = 0 THEN Null ELSE l.expire[t]]
<1> DEFINE N == Cardinality(Timers)
           size(x) == Cardinality(Nodes(x))
           swept(x, n) ==
              /\ x \in Lists /\ x.fate = "fine" /\ Linked(x, Nodes(x))
              /\ \A t \in Timers : x.expire[t] = l.expire[t] \/ (l.expire[t] = 0 /\ x.expire[t] = Null)
              /\ ~Due(x, 0) \/ size(x) + n <= size(l)
<1>1. N \in Nat /\ size(l) \in Nat /\ size(l) <= N
  BY TimerAssumption, FS_CardinalityType, FS_Subset DEF Nodes
<1>2. PICK lists : /\ lists[0] = l /\ Tick(l, 0) = lists[N]
                   /\ \A n \in 1..N : lists[n] = IF Due(lists[n - 1], 0) THEN DropHead(lists[n - 1])
                                                                       ELSE lists[n - 1]
  BY <1>1, TickSteps
<1>3. ASSUME NEW x \in Lists, Linked(x, Nodes(x))
      PROVE  /\ size(x) \in Nat
             /\ x.fate = "fine" /\ ~Due(x, 0) => \A t \in Nodes(x) : x.expire[t] # 0
             /\ Due(x, 0) => /\ size(x) # 0 /\ x.head \in Nodes(x) /\ x.expire[x.head] = 0
                             /\ DropHead(x) \in Lists /\ DropHead(x).fate = x.fate
                             /\ DropHead(x).expire = [x.expire EXCEPT ![x.head] = Null]
                             /\ Linked(DropHead(x), Nodes(DropHead(x)))
                             /\ size(DropHead(x)) = size(x) - 1
  <2>1. PICK at, k : Chain(x, Nodes(x), at, k)
    BY <1>3 DEF Linked
  <2>2. /\ k \in Nat
        /\ \A i \in 1..k : at[i] \in Nodes(x) /\ at[i] \in Timers /\ x.expire[at[i]] \in 0..Idle
        /\ \A i, n \in 1..k : i <= n => x.expire[at[i]] <= x.expire[at[n]]
        /\ IF k = 0 THEN x.head = Null ELSE x.head = at[1]
        /\ \A t \in Nodes(x) : \E i \in 1..k : at[i] = t
        /\ Null \notin Timers /\ Idle \in Nat
    BY <2>1, Places
  <2>3. size(x) = k
    <3>1. Nodes(x) \in SUBSET Timers
      BY DEF Nodes
    <3> QED BY <2>1, <3>1, ChainLength
  <2>4. ASSUME x.fate = "fine", ~Due(x, 0), NEW t \in Nodes(x) PROVE x.expire[t] # 0
    <3>1. PICK i \in 1..k : at[i] = t
      BY <2>2
    <3>2. 1 \in 1..k /\ 1 <= i /\ x.head = at[1] /\ x.head # Null
      BY <2>2, <3>1
    <3>3. x.expire[at[1]] > 0
      BY <2>2, <2>4, <3>2 DEF Due
    <3>4. x.expire[at[1]] <= x.expire[at[i]]
      BY <2>2, <3>2
    <3> QED BY <2>2, <3>1, <3>2, <3>3, <3>4
  <2>5. ASSUME Due(x, 0)
        PROVE  /\ size(x) # 0 /\ x.head \in Nodes(x) /\ x.expire[x.head] = 0
               /\ DropHead(x) \in Lists /\ DropHead(x).fate = x.fate
               /\ DropHead(x).expire = [x.expire EXCEPT ![x.head] = Null]
               /\ Linked(DropHead(x), Nodes(DropHead(x)))
               /\ size(DropHead(x)) = size(x) - 1
    <3>1. k # 0 /\ 1 \in 1..k /\ x.head = at[1]
      BY <2>2, <2>5 DEF Due
    <3>2. x.expire[at[1]] = 0
      BY <2>2, <2>5, <3>1 DEF Due
    <3> HIDE DEF size
    <3>3. /\ DropHead(x) \in Lists /\ DropHead(x).fate = x.fate
          /\ DropHead(x).expire = [x.expire EXCEPT ![at[1]] = Null]
          /\ Linked(DropHead(x), Nodes(DropHead(x)))
          /\ Cardinality(Nodes(DropHead(x))) = k - 1
      BY <2>1, <3>1, DropPlaces
    <3> QED BY <2>2, <2>3, <3>1, <3>2, <3>3 DEF size
  <2> QED BY <2>2, <2>3, <2>4, <2>5
<1> HIDE DEF size, N
<1>4. swept(lists[0], 0)
  BY <1>1, <1>2
<1>5. ASSUME NEW n \in 1..N, swept(lists[n - 1], n - 1) PROVE swept(lists[n], n)
  <2> DEFINE x == lists[n - 1]
  <2>1. CASE ~Due(x, 0)
    BY <1>2, <1>5, <2>1
  <2>2. CASE Due(x, 0)
    <3>1. lists[n] = DropHead(x)
      BY <1>2, <2>2
    <3>2. size(x) + (n - 1) <= size(l) /\ size(x) \in Nat
      BY <1>3, <1>5, <2>2
    <3>3. size(DropHead(x)) + n <= size(l)
      <4>1. size(DropHead(x)) = size(x) - 1
        BY <1>3, <1>5, <2>2
      <4> QED BY <1>1, <3>2, <4>1
    <3>4. ASSUME NEW t \in Timers
          PROVE  \/ DropHead(x).expire[t] = l.expire[t]
                 \/ (l.expire[t] = 0 /\ DropHead(x).expire[t] = Null)
      <4>1. /\ DropHead(x).expire = [x.expire EXCEPT ![x.head] = Null] /\ x.expire[x.head] = 0
            /\ x.head \in Nodes(x) /\ x.expire \in [Timers -> 0..Idle \cup {Null}]
        BY <1>3, <1>5, <2>2 DEF Lists
      <4>2. 0 # Null
        BY TimerAssumption
      <4>3. x.expire[t] = l.expire[t] \/ (l.expire[t] = 0 /\ x.expire[t] = Null)
        BY <1>5
      <4> QED BY <4>1, <4>2, <4>3
    <3> QED BY <1>3, <1>5, <2>2, <3>1, <3>3, <3>4
  <2> QED BY <2>1, <2>2
<1> HIDE DEF swept
<1>6. swept(lists[N], N)
  <2> DEFINE off == {n \in 0..N : ~swept(lists[n], n)}
  <2>1. off = {}
    <3> SUFFICES ASSUME off # {} PROVE FALSE
      OBVIOUS
    <3>1. PICK n \in off : \A i \in off : n <= i
      <4>1. off \in SUBSET Nat
        BY <1>1
      <4> QED BY <4>1, Least
    <3>2. n # 0
      BY <1>4, <3>1
    <3>3. n \in 1..N /\ n - 1 \in 0..N /\ n - 1 \notin off
      BY <1>1, <3>1, <3>2
    <3> QED BY <1>5, <3>1, <3>3
  <2> QED BY <1>1, <2>1
<1> DEFINE r == Tick(l, 0)
<1>7. swept(r, N)
  BY <1>2, <1>6
<1> HIDE DEF r
<1>8. ~Due(r, 0)
  <2> SUFFICES ASSUME Due(r, 0) PROVE FALSE
    OBVIOUS
  <2>1. size(r) + N <= size(l) /\ size(r) \in Nat /\ size(r) # 0
    BY <1>3, <1>7 DEF swept
  <2> QED BY <1>1, <2>1
<1>9. /\ r \in Lists /\ r.fate = "fine" /\ Linked(r, Nodes(r))
      /\ \A t \in Timers : r.expire[t] = l.expire[t] \/ (l.expire[t] = 0 /\ r.expire[t] = Null)
  BY <1>7 DEF swept
<1>10. \A t \in Nodes(r) : r.expire[t] # 0
  BY <1>3, <1>8, <1>9
<1>11. \A t \in Timers : r.expire[t] = IF l.expire[t] = 0 THEN Null ELSE l.expire[t]
  BY <1>9, <1>10, TimerAssumption DEF Nodes
<1>12. r.expire = [t \in Timers |-> IF l.expire[t] = 0 THEN Null ELSE l.expire[t]]
  BY <1>9, <1>11 DEF Lists
<1> QED BY <1>9, <1>12 DEF Sound, r
-----------------------------------------------------------------------------
(***************************************************************************)
(* The server.  Unless a null pointer was followed, the list is linked; it *)
(* has the timers of the open connections; and the kernel holds data of    *)
(* open connections only, so that Receive never meets a timer that is not  *)
(* in the list.                                                            *)
(***************************************************************************)
Opened == {c \in Conns : peer[c] # "none"}

IdleInv == /\ TypeOK
           /\ timer_lst.fate = "fine" => Linked(timer_lst, Nodes(timer_lst))
           /\ Nodes(timer_lst) = Opened
           /\ \A c \in Conns : peer[c] = "none" => rx[c] = 0

\* A step that misplaces a timer, lst_timer.cpp:102.
Misplaced == \E c \in Conns : Receive(c) /\ MovedToEnd(timer_lst, c)

\* The invariant says what ListExact says, and more.
LEMMA InvIsExact == IdleInv => ListExact
<1> SUFFICES ASSUME IdleInv PROVE ListExact
  OBVIOUS
<1>1. TypeOK /\ timer_lst \in Lists
  BY DEF IdleInv, TypeOK, Lists
<1>2. ASSUME timer_lst.fate = "fine" PROVE SortedDoublyLinked(timer_lst)
  BY <1>1, <1>2, LinkedIsExact DEF IdleInv
<1> QED BY <1>1, <1>2 DEF ListExact, IdleInv, Opened

LEMMA InitIdle == Init => IdleInv
<1> SUFFICES ASSUME Init PROVE IdleInv
  OBVIOUS
<1>1. Idle \in Nat /\ TIMESLOT \in Nat /\ MaxRx \in Nat /\ Cardinality(Conns) \in Nat
  BY IdleAssumption, TimerAssumption, FS_CardinalityType DEF Idle, Conns
<1>2. TypeOK
  <2>1. timer_lst \in Lists
    <3>1. timer_lst = EmptyList
      BY DEF Init
    <3> QED BY <3>1, <1>1 DEF EmptyList, Lists
  <2>2. rx \in [Conns -> 0..MaxRx] /\ peer \in [Conns -> {"none", "open", "ended", "reset"}]
    BY <1>1 DEF Init
  <2>3. pcm = "wait" /\ events = {} /\ timeout = FALSE /\ stop_server = FALSE
        /\ alarm = TIMESLOT /\ pipe = {} /\ edge = {} /\ backlog = 0
    BY DEF Init
  <2>4. 0 \in 0..Cardinality(Conns) /\ TIMESLOT \in 0..TIMESLOT
    BY <1>1
  <2> QED BY <2>1, <2>2, <2>3, <2>4 DEF TypeOK, Lists
<1>3. Nodes(timer_lst) = {} /\ timer_lst.head = Null
  BY DEF Init, EmptyList, Nodes
<1>4. Chain(timer_lst, {}, <<>>, 0)
  BY <1>3 DEF Chain
<1> QED BY <1>2, <1>3, <1>4 DEF Linked, IdleInv, Opened, Init

\* What the steps that change the list make of it.
LEMMA AcceptList ==
    ASSUME IdleInv, NEW c \in Conns, Accept(c)
    PROVE  Sound(timer_lst') /\ timer_lst'.expire = [timer_lst.expire EXCEPT ![c] = Idle]
<1>1. timer_lst \in Lists /\ Linked(timer_lst, Nodes(timer_lst)) /\ c \in Timers \ Nodes(timer_lst)
  BY DEF Accept, Handle, Running, IdleInv, Opened, TypeOK, Lists, Conns
<1>2. timer_lst' = AddTimer(NewTimer(timer_lst, c, Idle), c)
  BY DEF Accept
<1> QED BY <1>1, <1>2, AddPlaces

LEMMA ReceiveList ==
    ASSUME IdleInv, NEW c \in Conns, Receive(c), ~Misplaced
    PROVE  Sound(timer_lst') /\ timer_lst'.expire = [timer_lst.expire EXCEPT ![c] = Idle]
<1>1. ~MovedToEnd(timer_lst, c)
  BY DEF Misplaced
<1>2. timer_lst.fate = "fine" /\ rx[c] > 0
  BY DEF Receive, Handle, Running
<1>3. rx[c] # 0
  BY <1>2
<1>4. /\ timer_lst \in Lists /\ Linked(timer_lst, Nodes(timer_lst))
      /\ c \in Nodes(timer_lst)
  BY <1>2, <1>3 DEF IdleInv, Opened, TypeOK, Lists
<1>5. timer_lst' = AdjustTimer([timer_lst EXCEPT !.expire[c] = Idle], c)
  BY DEF Receive
<1> QED BY <1>1, <1>4, <1>5, AdjustPlaces

LEMMA HangUpList ==
    ASSUME IdleInv, NEW c \in Conns, HangUp(c)
    PROVE  /\ Sound(timer_lst') /\ timer_lst'.fate = "fine"
           /\ timer_lst'.expire = [timer_lst.expire EXCEPT ![c] = Null]
<1>1. /\ timer_lst \in Lists /\ Linked(timer_lst, Nodes(timer_lst)) /\ c \in Nodes(timer_lst)
      /\ timer_lst.fate = "fine"
  BY DEF HangUp, Handle, Running, IdleInv, Opened, TypeOK, Lists
<1>2. timer_lst' = DelTimer(timer_lst, c)
  BY DEF HangUp
<1> QED BY <1>1, <1>2, DelPlaces

LEMMA SweepList ==
    ASSUME IdleInv, EndOfBatch, timeout
    PROVE  /\ Sound(timer_lst') /\ timer_lst'.fate = "fine"
           /\ timer_lst'.expire = [t \in Timers |-> IF timer_lst.expire[t] = 0 THEN Null
                                                    ELSE timer_lst.expire[t]]
<1>1. /\ timer_lst \in Lists /\ Linked(timer_lst, Nodes(timer_lst)) /\ timer_lst.fate = "fine"
  BY DEF EndOfBatch, Running, IdleInv, TypeOK, Lists
<1>2. timer_lst' = Tick(timer_lst, 0)
  BY DEF EndOfBatch
<1> QED BY <1>1, <1>2, TickPlaces

LEMMA SecondList ==
    ASSUME IdleInv, Second
    PROVE  /\ Sound(timer_lst') /\ timer_lst'.fate = "fine"
           /\ timer_lst'.expire = [c \in Timers |-> IF timer_lst.expire[c] \in {Null, 0}
                                                      THEN timer_lst.expire[c]
                                                      ELSE timer_lst.expire[c] - 1]
<1> DEFINE l == timer_lst
           r == timer_lst'
<1>1. l \in Lists /\ Linked(l, Nodes(l)) /\ l.fate = "fine"
  BY DEF Second, Running, IdleInv, TypeOK, Lists
<1>2. /\ r.head = l.head /\ r.tail = l.tail /\ r.prev = l.prev /\ r.next = l.next
      /\ r.fate = l.fate
      /\ r.expire = [c \in Timers |-> IF l.expire[c] \in {Null, 0} THEN l.expire[c]
                                                                  ELSE l.expire[c] - 1]
      /\ r = [head |-> r.head, tail |-> r.tail, prev |-> r.prev, next |-> r.next,
              expire |-> r.expire, fate |-> r.fate]
  BY <1>1 DEF Second, Lists, Conns
<1> HIDE DEF l, r
<1>3. PICK at, k : Chain(l, Nodes(l), at, k)
  BY <1>1 DEF Linked
<1>4. /\ \A i \in 1..k : at[i] \in Timers /\ l.expire[at[i]] \in 0..Idle
      /\ \A i, n \in 1..k : i <= n => l.expire[at[i]] <= l.expire[at[n]]
      /\ Null \notin 0..Idle /\ Idle \in Nat /\ Null \notin Nat
  BY <1>1, <1>3, Places, TimerAssumption
<1>5. \A c \in Timers : /\ r.expire[c] \in 0..Idle \cup {Null}
                        /\ r.expire[c] = Null <=> l.expire[c] = Null
  <2> TAKE c \in Timers
  <2>1. l.expire[c] \in 0..Idle \cup {Null}
    BY <1>1 DEF Lists
  <2> QED BY <1>2, <1>4, <2>1
<1>6. r \in Lists
  <2>1. r.expire \in [Timers -> 0..Idle \cup {Null}]
    BY <1>2, <1>5
  <2> QED BY <1>1, <1>2, <2>1, Fields DEF Lists
<1>7. Nodes(r) = Nodes(l)
  BY <1>5 DEF Nodes
<1>8. ASSUME NEW i \in 1..k, NEW n \in 1..k, i <= n PROVE r.expire[at[i]] <= r.expire[at[n]]
  <2>1. \A m \in 1..k : r.expire[at[m]] = IF l.expire[at[m]] = 0 THEN 0 ELSE l.expire[at[m]] - 1
    BY <1>2, <1>4
  <2> QED BY <1>4, <1>8, <2>1
<1>9. Chain(r, Nodes(r), at, k)
  BY <1>2, <1>3, <1>7, <1>8 DEF Chain
<1> QED BY <1>1, <1>2, <1>6, <1>9 DEF Sound, Linked, l, r
-----------------------------------------------------------------------------
\* The invariant, the list apart from the rest.
LoopOK == /\ pcm \in {"wait", "loop", "done"}
          /\ events \subseteq Fds /\ edge \subseteq Fds
          /\ timeout \in BOOLEAN /\ stop_server \in BOOLEAN
          /\ alarm \in 0..TIMESLOT
          /\ pipe \subseteq {"SIGALRM", "SIGTERM"}
          /\ backlog \in 0..Cardinality(Conns)
          /\ rx \in [Conns -> 0..MaxRx]
          /\ peer \in [Conns -> {"none", "open", "ended", "reset"}]
          /\ \A c \in Conns : peer[c] = "none" => rx[c] = 0

ListOK == Sound(timer_lst) /\ Nodes(timer_lst) = Opened

LEMMA InvParts == IdleInv <=> ListOK /\ LoopOK
BY DEF IdleInv, TypeOK, ListOK, LoopOK, Sound, Lists

LEMMA PartsAfter == ListOK' /\ LoopOK' => IdleInv'
BY DEF IdleInv, TypeOK, ListOK, LoopOK, Sound, Lists

LEMMA SizeOfConns == Cardinality(Conns) \in Nat /\ TIMESLOT \in Nat \ {0} /\ MaxRx \in Nat
BY IdleAssumption, TimerAssumption, FS_CardinalityType DEF Conns

\* A step that lets the list alone and opens or closes no connection.
LEMMA SameList ==
    ASSUME IdleInv, timer_lst' = timer_lst, \A c \in Conns : peer'[c] = "none" <=> peer[c] = "none"
    PROVE  ListOK'
<1>1. Opened' = Opened
  BY DEF Opened
<1>2. ListOK
  BY InvParts
<1>3. Sound(timer_lst') /\ Nodes(timer_lst') = Opened
  BY <1>2 DEF ListOK
<1> QED BY <1>1, <1>3 DEF ListOK

\* A step that leaves the nodes of Opened'.
LEMMA NewList ==
    ASSUME Sound(timer_lst'),
           \A c \in Conns : timer_lst'.expire[c] # Null <=> peer'[c] # "none"
    PROVE  ListOK'
<1>1. Nodes(timer_lst') = Opened'
  BY DEF Nodes, Opened, Conns
<1> QED BY <1>1 DEF ListOK

LEMMA OpenNodes ==
    ASSUME IdleInv, Running
    PROVE  /\ \A c \in Conns : timer_lst.expire[c] # Null <=> peer[c] # "none"
           /\ timer_lst.expire \in [Conns -> 0..Idle \cup {Null}]
           /\ Idle \in Nat /\ Idle # Null /\ timer_lst \in Lists
<1>1. Nodes(timer_lst) = Opened /\ timer_lst \in Lists
  BY DEF IdleInv, Running, TypeOK, Lists
<1>2. Idle \in Nat
  BY SizeOfConns DEF Idle
<1> QED BY <1>1, <1>2, TimerAssumption DEF Nodes, Opened, Conns, Lists

\* Clients and signals.
LEMMA ConnectInv == IdleInv /\ Connect => IdleInv'
<1> SUFFICES ASSUME IdleInv, Connect PROVE IdleInv'
  OBVIOUS
<1> DEFINE free == {c \in Conns : peer[c] = "none"}
<1>1. Cardinality(free) \in Nat /\ Cardinality(free) <= Cardinality(Conns)
  <2>1. free \in SUBSET Conns /\ IsFiniteSet(Conns)
    BY TimerAssumption DEF Conns
  <2> QED BY <2>1, FS_Subset, FS_CardinalityType
<1>2. LoopOK /\ backlog < Cardinality(free)
  BY InvParts DEF Connect
<1>3. backlog + 1 \in 0..Cardinality(Conns)
  BY <1>1, <1>2, SizeOfConns DEF LoopOK
<1>4. LoopOK'
  BY <1>2, <1>3 DEF Connect, loopVars, LoopOK, Fds
<1>5. ListOK'
  BY SameList DEF Connect
<1> QED BY <1>4, <1>5, PartsAfter

LEMMA SendInv == ASSUME NEW c \in Conns PROVE IdleInv /\ Send(c) => IdleInv'
<1> SUFFICES ASSUME IdleInv, Send(c) PROVE IdleInv'
  OBVIOUS
<1>1. LoopOK
  BY InvParts
<1>2. rx'[c] \in 0..MaxRx /\ rx' = [rx EXCEPT ![c] = rx'[c]]
  BY <1>1, SizeOfConns DEF Send, LoopOK
<1>3. rx' \in [Conns -> 0..MaxRx] /\ \A d \in Conns : peer'[d] = "none" => rx'[d] = 0
  BY <1>1, <1>2 DEF Send, LoopOK
<1>4. LoopOK'
  BY <1>1, <1>3 DEF Send, loopVars, LoopOK, Fds
<1>5. ListOK'
  BY SameList DEF Send
<1> QED BY <1>4, <1>5, PartsAfter

LEMMA LeaveInv == ASSUME NEW c \in Conns, NEW how \in {"ended", "reset"}, NEW kept \in {0, rx[c]}
                  PROVE  IdleInv /\ Leave(c, how, kept) => IdleInv'
<1> SUFFICES ASSUME IdleInv, Leave(c, how, kept) PROVE IdleInv'
  OBVIOUS
<1>1. LoopOK
  BY InvParts
<1>2. /\ rx' \in [Conns -> 0..MaxRx] /\ peer' \in [Conns -> {"none", "open", "ended", "reset"}]
      /\ \A d \in Conns : peer'[d] = "none" <=> peer[d] = "none"
  BY <1>1, SizeOfConns DEF Leave, LoopOK
<1>3. \A d \in Conns : peer'[d] = "none" => rx'[d] = 0
  BY <1>1, <1>2 DEF Leave, LoopOK
<1>4. LoopOK'
  BY <1>1, <1>2, <1>3 DEF Leave, loopVars, LoopOK, Fds
<1>5. ListOK'
  BY <1>2, SameList DEF Leave
<1> QED BY <1>4, <1>5, PartsAfter

LEMMA TerminateInv == IdleInv /\ Terminate => IdleInv'
<1> SUFFICES ASSUME IdleInv, Terminate PROVE IdleInv'
  OBVIOUS
<1>1. LoopOK'
  BY InvParts DEF Terminate, loopVars, LoopOK, Fds
<1>2. ListOK'
  BY SameList DEF Terminate
<1> QED BY <1>1, <1>2, PartsAfter

LEMMA SecondInv == IdleInv /\ Second => IdleInv'
<1> SUFFICES ASSUME IdleInv, Second PROVE IdleInv'
  OBVIOUS
<1>1. LoopOK /\ alarm' = IF alarm = 0 THEN 0 ELSE alarm - 1
  BY InvParts DEF Second
<1>2. alarm' \in 0..TIMESLOT
  BY <1>1, SizeOfConns DEF LoopOK
<1>3. pipe' \subseteq {"SIGALRM", "SIGTERM"} /\ edge' \subseteq Fds
  BY <1>1 DEF Second, LoopOK, Fds
<1>4. LoopOK'
  BY <1>1, <1>2, <1>3 DEF Second, loopVars, LoopOK
<1>5. Sound(timer_lst') /\ \A c \in Conns : timer_lst'.expire[c] =
                              IF timer_lst.expire[c] \in {Null, 0} THEN timer_lst.expire[c]
                                                                  ELSE timer_lst.expire[c] - 1
  BY SecondList DEF Conns
<1>6. ListOK'
  <2>1. Running /\ peer' = peer
    BY DEF Second
  <2>2. \A c \in Conns : timer_lst'.expire[c] # Null <=> timer_lst.expire[c] # Null
    BY <1>5, <2>1, OpenNodes, TimerAssumption
  <2> QED BY <1>5, <2>1, <2>2, OpenNodes, NewList
<1> QED BY <1>4, <1>6, PartsAfter

\* The event loop.
LEMMA EpollWaitInv == IdleInv /\ EpollWait => IdleInv'
<1> SUFFICES ASSUME IdleInv, EpollWait PROVE IdleInv'
  OBVIOUS
<1>1. LoopOK'
  BY InvParts DEF EpollWait, LoopOK
<1>2. ListOK'
  BY SameList DEF EpollWait
<1> QED BY <1>1, <1>2, PartsAfter

LEMMA ReadSignalsInv == IdleInv /\ ReadSignals => IdleInv'
<1> SUFFICES ASSUME IdleInv, ReadSignals PROVE IdleInv'
  OBVIOUS
<1>1. timeout' \in BOOLEAN /\ stop_server' \in BOOLEAN
  BY DEF ReadSignals
<1>2. LoopOK'
  BY <1>1, InvParts DEF ReadSignals, Handle, LoopOK
<1>3. ListOK'
  BY SameList DEF ReadSignals
<1> QED BY <1>2, <1>3, PartsAfter

LEMMA AcceptInv == ASSUME NEW c \in Conns PROVE IdleInv /\ Accept(c) => IdleInv'
<1> SUFFICES ASSUME IdleInv, Accept(c) PROVE IdleInv'
  OBVIOUS
<1>1. LoopOK /\ Running
  BY InvParts DEF Accept, Handle
<1>2. backlog' \in 0..Cardinality(Conns)
  BY <1>1, SizeOfConns DEF Accept, LoopOK
<1>3. /\ peer' \in [Conns -> {"none", "open", "ended", "reset"}]
      /\ \A d \in Conns : peer'[d] = "none" => rx'[d] = 0
  BY <1>1 DEF Accept, LoopOK
<1>4. LoopOK'
  BY <1>1, <1>2, <1>3 DEF Accept, Handle, LoopOK
<1>5. Sound(timer_lst') /\ timer_lst'.expire = [timer_lst.expire EXCEPT ![c] = Idle]
  BY AcceptList
<1>6. peer' = [peer EXCEPT ![c] = "open"] /\ peer \in [Conns -> {"none", "open", "ended", "reset"}]
  BY <1>1 DEF Accept, LoopOK
<1>7. ListOK'
  BY <1>1, <1>5, <1>6, OpenNodes, NewList
<1> QED BY <1>4, <1>7, PartsAfter

LEMMA ReceiveInv == ASSUME NEW c \in Conns PROVE IdleInv /\ Receive(c) /\ ~Misplaced => IdleInv'
<1> SUFFICES ASSUME IdleInv, Receive(c), ~Misplaced PROVE IdleInv'
  OBVIOUS
<1>1. LoopOK /\ Running /\ peer' = peer
  BY InvParts DEF Receive, Handle
<1>2. rx' = [rx EXCEPT ![c] = rx[c] - 1] /\ rx[c] > 0
  BY DEF Receive
<1>3. /\ rx' \in [Conns -> 0..MaxRx]
      /\ \A d \in Conns : peer'[d] = "none" => rx'[d] = 0
  BY <1>1, <1>2, SizeOfConns DEF LoopOK
<1>4. LoopOK'
  BY <1>1, <1>3 DEF Receive, Handle, LoopOK
<1>5. Sound(timer_lst') /\ timer_lst'.expire = [timer_lst.expire EXCEPT ![c] = Idle]
  BY ReceiveList
<1>6. peer[c] # "none"
  BY <1>1, <1>2 DEF LoopOK
<1>7. ListOK'
  BY <1>1, <1>5, <1>6, OpenNodes, NewList
<1> QED BY <1>4, <1>7, PartsAfter

\* Closing connections.
LEMMA CloseLoop ==
    ASSUME LoopOK, NEW C, Close(C)
    PROVE  /\ edge' \subseteq Fds /\ rx' \in [Conns -> 0..MaxRx]
           /\ peer' \in [Conns -> {"none", "open", "ended", "reset"}]
           /\ \A d \in Conns : peer'[d] = "none" => rx'[d] = 0
<1>1. edge' \subseteq Fds
  BY DEF Close, LoopOK
<1>2. rx' \in [Conns -> 0..MaxRx]
  BY SizeOfConns DEF Close, LoopOK
<1>3. /\ peer' \in [Conns -> {"none", "open", "ended", "reset"}]
      /\ \A d \in Conns : peer'[d] = "none" => rx'[d] = 0
  BY DEF Close, LoopOK
<1> QED BY <1>1, <1>2, <1>3

LEMMA HangUpInv == ASSUME NEW c \in Conns PROVE IdleInv /\ HangUp(c) => IdleInv'
<1> SUFFICES ASSUME IdleInv, HangUp(c) PROVE IdleInv'
  OBVIOUS
<1>1. LoopOK /\ Running /\ Close({c})
  BY InvParts DEF HangUp, Handle
<1>2. LoopOK'
  BY <1>1, CloseLoop DEF HangUp, Handle, LoopOK
<1>3. Sound(timer_lst') /\ timer_lst'.expire = [timer_lst.expire EXCEPT ![c] = Null]
  BY HangUpList
<1>4. \A d \in Conns : peer'[d] = IF d = c THEN "none" ELSE peer[d]
  BY <1>1 DEF Close
<1>5. ListOK'
  BY <1>1, <1>3, <1>4, OpenNodes, NewList
<1> QED BY <1>2, <1>5, PartsAfter

LEMMA EndOfBatchInv == IdleInv /\ EndOfBatch => IdleInv'
<1> SUFFICES ASSUME IdleInv, EndOfBatch PROVE IdleInv'
  OBVIOUS
<1>1. LoopOK /\ Running /\ pcm' \in {"wait", "loop", "done"} /\ timeout' = FALSE
      /\ UNCHANGED <<events, stop_server, pipe, backlog>>
  BY InvParts DEF EndOfBatch
<1>2. CASE timeout
  <2> DEFINE C == Nodes(timer_lst) \ Nodes(timer_lst')
  <2>1. Close(C) /\ alarm' = TIMESLOT
    BY <1>2 DEF EndOfBatch
  <2>2. /\ Sound(timer_lst')
        /\ timer_lst'.expire = [t \in Timers |-> IF timer_lst.expire[t] = 0 THEN Null
                                                 ELSE timer_lst.expire[t]]
    BY <1>2, SweepList
  <2>3. \A d \in Conns : peer'[d] = IF d \in C THEN "none" ELSE peer[d]
    BY <2>1 DEF Close
  <2>4. \A d \in Conns : d \in C <=> timer_lst.expire[d] # Null /\ timer_lst'.expire[d] = Null
    BY DEF Nodes, Conns
  <2>5. \A d \in Conns : timer_lst'.expire[d] = IF timer_lst.expire[d] = 0 THEN Null
                                                 ELSE timer_lst.expire[d]
    BY <2>2 DEF Conns
  <2> HIDE DEF C
  <2>6. LoopOK'
    <3>1. alarm' \in 0..TIMESLOT
      BY <2>1, SizeOfConns
    <3>2. /\ edge' \subseteq Fds /\ rx' \in [Conns -> 0..MaxRx]
          /\ peer' \in [Conns -> {"none", "open", "ended", "reset"}]
          /\ \A d \in Conns : peer'[d] = "none" => rx'[d] = 0
      BY <1>1, <2>1, CloseLoop
    <3> QED BY <1>1, <3>1, <3>2 DEF LoopOK
  <2>7. ListOK'
    BY <1>1, <2>2, <2>3, <2>4, <2>5, OpenNodes, NewList
  <2> QED BY <2>6, <2>7, PartsAfter
<1>3. CASE ~timeout
  <2>1. UNCHANGED <<timer_lst, peer, rx, edge, alarm>>
    BY <1>3 DEF EndOfBatch
  <2>2. LoopOK'
    BY <1>1, <2>1 DEF LoopOK
  <2>3. ListOK'
    BY <2>1, SameList
  <2> QED BY <2>2, <2>3, PartsAfter
<1> QED BY <1>2, <1>3

LEMMA UnchangedInv == IdleInv /\ UNCHANGED vars => IdleInv'
<1> SUFFICES ASSUME IdleInv, UNCHANGED vars PROVE IdleInv'
  OBVIOUS
<1>1. LoopOK'
  BY InvParts DEF vars, loopVars, LoopOK
<1>2. ListOK'
  BY SameList DEF vars
<1> QED BY <1>1, <1>2, PartsAfter

LEMMA StepIdle == IdleInv /\ [Next]_vars /\ ~Misplaced => IdleInv'
<1> SUFFICES ASSUME IdleInv, [Next]_vars, ~Misplaced PROVE IdleInv'
  OBVIOUS
<1>1. CASE Client
  BY <1>1, ConnectInv, TerminateInv, SendInv, LeaveInv DEF Client
<1>2. CASE Main
  BY <1>2, EpollWaitInv, ReadSignalsInv, EndOfBatchInv, AcceptInv, ReceiveInv, HangUpInv DEF Main
<1> QED BY <1>1, <1>2, SecondInv, UnchangedInv DEF Next
-----------------------------------------------------------------------------
(***************************************************************************)
(* The list is ascending, doubly linked, and has a timer for exactly the   *)
(* connections that are open (lst_timer.cpp:36), up to the first step that *)
(* adjusts the timer of a connection in the middle past the last one       *)
(* (lst_timer.cpp:102), for any number of connections.                     *)
(***************************************************************************)
THEOREM ListStaysExact == Spec /\ [][~Misplaced]_vars => []ListExact
<1>1. IdleInv /\ [Next]_vars /\ [~Misplaced]_vars => IdleInv'
  BY StepIdle, UnchangedInv
<1> QED BY <1>1, InitIdle, InvIsExact, PTL DEF Spec

\* A step that misplaces a timer breaks the list.
LEMMA MisplacedBreaks == IdleInv /\ Misplaced => ~ListExact'
<1> SUFFICES ASSUME IdleInv, NEW c \in Conns, Receive(c), MovedToEnd(timer_lst, c)
             PROVE  ~ListExact'
  BY DEF Misplaced
<1>1. timer_lst.fate = "fine" /\ rx[c] > 0
  BY DEF Receive, Handle, Running
<1>2. rx[c] # 0
  BY <1>1
<1>3. timer_lst \in Lists /\ Linked(timer_lst, Nodes(timer_lst)) /\ c \in Nodes(timer_lst)
  BY <1>1, <1>2 DEF IdleInv, Opened, TypeOK, Lists
<1>4. timer_lst' = AdjustTimer([timer_lst EXCEPT !.expire[c] = Idle], c)
  BY DEF Receive
<1>5. timer_lst'.fate = "fine" /\ ~SortedDoublyLinked(timer_lst')
  BY <1>1, <1>3, <1>4, MovedBreaks
<1> QED BY <1>5 DEF ListExact

(***************************************************************************)
(* So the list is exact just as long as no timer is misplaced: the case of *)
(* lst_timer.cpp:102 is the only one that breaks it, and always does.      *)
(***************************************************************************)
THEOREM ExactUnlessMisplaced == Spec => ([]ListExact <=> [][~Misplaced]_vars)
<1>1. IdleInv /\ [Next]_vars /\ ListExact' => IdleInv' /\ [~Misplaced]_vars
  BY MisplacedBreaks, StepIdle
<1> QED BY <1>1, ListStaysExact, InitIdle, PTL DEF Spec

\* Of two timers, none is in the middle.
LEMMA TwoInPlace == Cardinality(Timers) <= 2 /\ IdleInv => ~Misplaced
<1> SUFFICES ASSUME Cardinality(Timers) <= 2, IdleInv, NEW c \in Conns, Receive(c),
                    MovedToEnd(timer_lst, c)
             PROVE  FALSE
  BY DEF Misplaced
<1> DEFINE l == timer_lst
<1>1. l \in Lists /\ Linked(l, Nodes(l)) /\ c # l.head /\ c # l.tail
  BY DEF Receive, Handle, Running, IdleInv, TypeOK, Lists, MovedToEnd
<1>2. c \in Nodes(l)
  <2>1. Running /\ rx[c] > 0
    BY DEF Receive, Handle
  <2>2. rx[c] # 0
    BY <2>1
  <2> QED BY <2>2 DEF IdleInv, Opened
<1> HIDE DEF l
<1>3. PICK at, k : Chain(l, Nodes(l), at, k)
  BY <1>1 DEF Linked
<1>4. k \in Nat /\ k <= Cardinality(Timers)
  <2>1. Nodes(l) \in SUBSET Timers
    BY DEF Nodes
  <2>2. k <= Cardinality(Timers)
    BY <1>3, <2>1, ChainLength
  <2> QED BY <1>3, <2>2 DEF Chain
<1>5. k = 0 \/ k = 1 \/ k = 2
  BY <1>4, TimerAssumption, FS_CardinalityType
<1>6. PICK i \in 1..k : at[i] = c
  BY <1>2, <1>3 DEF Chain
<1>7. i = 1 \/ i = k
  BY <1>5, <1>6
<1> QED BY <1>1, <1>3, <1>5, <1>6, <1>7 DEF Chain

\* With at most two connections at a time the list is always exact.
THEOREM TwoTimersExact == ASSUME Cardinality(Timers) <= 2 PROVE Spec => []ListExact
<1>1. IdleInv /\ [Next]_vars => IdleInv'
  BY TwoInPlace, StepIdle
<1> QED BY <1>1, InitIdle, InvIsExact, PTL DEF Spec
-----------------------------------------------------------------------------
(***************************************************************************)
(* The alarm.  Its signal is in the pipe only while epoll watches or       *)
(* reports the pipe, which holds at the end of a batch because nothing of  *)
(* a batch is left when epoll_wait is called.                              *)
(***************************************************************************)
AlarmInv == /\ alarm \in 0..TIMESLOT
            /\ pcm = "wait" => events = {}
            /\ alarm > 0 \/ ("SIGALRM" \in pipe /\ "pipe" \in edge \cup events) \/ timeout

LEMMA InitAlarm == Init => AlarmInv
BY SizeOfConns DEF Init, AlarmInv

LEMMA NamesOfFds == "pipe" \notin Conns /\ "listen" # "pipe"
BY IdleAssumption

\* An event of another descriptor changes nothing of it.
LEMMA HandleAlarm ==
    ASSUME AlarmInv, NEW fd, Handle(fd), fd # "pipe", timeout' = timeout, pipe' = pipe,
           "pipe" \in edge => "pipe" \in edge'
    PROVE  AlarmInv'
BY DEF AlarmInv, Handle

LEMMA StepAlarm == AlarmInv /\ [Next]_vars => AlarmInv'
<1> SUFFICES ASSUME AlarmInv, [Next]_vars PROVE AlarmInv'
  OBVIOUS
<1>1. CASE Client
  <2>1. /\ UNCHANGED <<pcm, events, timeout, alarm>>
        /\ pipe \subseteq pipe' /\ edge \subseteq edge'
    <3>1. CASE Connect
      BY <3>1 DEF Connect, loopVars
    <3>2. CASE Terminate
      BY <3>2 DEF Terminate, loopVars
    <3>3. ASSUME NEW c \in Conns, Send(c) PROVE <2>1
      BY <3>3 DEF Send, loopVars
    <3>4. ASSUME NEW c \in Conns, NEW how, NEW kept, Leave(c, how, kept) PROVE <2>1
      BY <3>4 DEF Leave, loopVars
    <3> QED BY <1>1, <3>1, <3>2, <3>3, <3>4 DEF Client
  <2> QED BY <2>1 DEF AlarmInv
<1>2. CASE Second
  <2>1. UNCHANGED <<pcm, events, timeout>> /\ alarm' = IF alarm = 0 THEN 0 ELSE alarm - 1
    BY <1>2 DEF Second, loopVars
  <2>2. IF alarm = 1 THEN "SIGALRM" \in pipe' /\ "pipe" \in edge'
                     ELSE pipe' = pipe /\ edge' = edge
    BY <1>2 DEF Second
  <2> QED BY <2>1, <2>2, SizeOfConns DEF AlarmInv
<1>3. CASE EpollWait
  BY <1>3 DEF EpollWait, AlarmInv
<1>4. CASE ReadSignals
  BY <1>4 DEF ReadSignals, Handle, AlarmInv
<1>5. CASE EndOfBatch
  <2>1. /\ events = {} /\ events' = events /\ pipe' = pipe /\ timeout' = FALSE
        /\ timeout => alarm' = TIMESLOT
        /\ ~timeout => edge' = edge /\ alarm' = alarm
    BY <1>5 DEF EndOfBatch
  <2> QED BY <2>1, SizeOfConns DEF AlarmInv
<1>6. ASSUME NEW c \in Conns, Accept(c) PROVE AlarmInv'
  BY <1>6, HandleAlarm, NamesOfFds DEF Accept
<1>7. ASSUME NEW c \in Conns, Receive(c) PROVE AlarmInv'
  BY <1>7, HandleAlarm, NamesOfFds DEF Receive
<1>8. ASSUME NEW c \in Conns, HangUp(c) PROVE AlarmInv'
  BY <1>8, HandleAlarm, NamesOfFds DEF HangUp, Close
<1>9. CASE UNCHANGED vars
  BY <1>9 DEF vars, loopVars, AlarmInv
<1> QED BY <1>1, <1>2, <1>3, <1>4, <1>5, <1>6, <1>7, <1>8, <1>9 DEF Next, Main

(***************************************************************************)
(* The alarm chain does not break (main.cpp:31-37, 64-68, 154-158,         *)
(* 206-210): at any moment an alarm is set, or its signal is in the pipe   *)
(* and the pipe is reported or about to be, or timeout is set; whatever    *)
(* becomes of the list.                                                    *)
(***************************************************************************)
THEOREM AlarmChain == Spec => []AlarmPending
<1>1. AlarmInv => AlarmPending
  BY DEF AlarmInv, AlarmPending
<1> QED BY <1>1, InitAlarm, StepAlarm, PTL DEF Spec
-----------------------------------------------------------------------------
(***************************************************************************)
(* The promise, step by step: what the server does to its list, seen as    *)
(* what is left of each connection's time.                                 *)
(***************************************************************************)
LEMMA LeftType == IdleInv => Left \in [Conns -> 0..Idle + 1]
<1> SUFFICES ASSUME IdleInv, NEW c \in Conns
             PROVE  (IF peer[c] = "none" THEN Idle + 1 ELSE timer_lst.expire[c]) \in 0..Idle + 1
  BY DEF Left
<1>1. Idle \in Nat
  BY SizeOfConns DEF Idle
<1>2. timer_lst.expire[c] \in 0..Idle \cup {Null}
  BY DEF IdleInv, TypeOK, Conns
<1>3. peer[c] # "none" => timer_lst.expire[c] # Null
  BY DEF IdleInv, Nodes, Opened
<1> QED BY <1>1, <1>2, <1>3

LEMMA LeftTypeAfter == IdleInv' => Left' \in [Conns -> 0..Idle + 1]
<1> SUFFICES ASSUME IdleInv', NEW c \in Conns
             PROVE  (IF peer'[c] = "none" THEN Idle + 1 ELSE timer_lst'.expire[c]) \in 0..Idle + 1
  BY DEF Left
<1>1. Idle \in Nat
  BY SizeOfConns DEF Idle
<1>2. timer_lst'.expire[c] \in 0..Idle \cup {Null}
  BY DEF IdleInv, TypeOK, Conns
<1>3. peer'[c] # "none" => timer_lst'.expire[c] # Null
  BY DEF IdleInv, Nodes, Opened
<1> QED BY <1>1, <1>2, <1>3

\* Whatever the step is in which the server stops or dies, Halt allows it.
LEMMA HaltStep == Running /\ IdleInv' /\ ~Running' => Promise!Halt
<1>1. IdleInv' => Left' \in [Conns -> 0..Idle + 1]
  BY LeftTypeAfter
<1> QED BY <1>1 DEF Promise!Halt, Promise!Closed

\* What Left says of a connection, before and after a step.
LEMMA LeftOf ==
    ASSUME IdleInv
    PROVE  \A c \in Conns : /\ Left[c] = IF peer[c] = "none" THEN Idle + 1 ELSE timer_lst.expire[c]
                            /\ peer[c] # "none" => timer_lst.expire[c] \in 0..Idle
                            /\ (Left[c] = Idle + 1) <=> (peer[c] = "none")
<1> SUFFICES ASSUME NEW c \in Conns
             PROVE  /\ Left[c] = IF peer[c] = "none" THEN Idle + 1 ELSE timer_lst.expire[c]
                    /\ peer[c] # "none" => timer_lst.expire[c] \in 0..Idle
                    /\ (Left[c] = Idle + 1) <=> (peer[c] = "none")
  OBVIOUS
<1>1. Left[c] = IF peer[c] = "none" THEN Idle + 1 ELSE timer_lst.expire[c]
  BY DEF Left
<1>2. Idle \in Nat
  BY SizeOfConns DEF Idle
<1>3. timer_lst.expire[c] \in 0..Idle \cup {Null}
  BY DEF IdleInv, TypeOK, Conns
<1>4. peer[c] # "none" => timer_lst.expire[c] # Null
  BY DEF IdleInv, Nodes, Opened
<1> QED BY <1>1, <1>2, <1>3, <1>4

\* A step that lets list and connections alone says nothing of the promise.
LEMMA Stutters ==
    ASSUME timer_lst' = timer_lst, Running, pcm' # "done",
           \A c \in Conns : peer'[c] = "none" <=> peer[c] = "none"
    PROVE  UNCHANGED Promise!vars
<1>1. Running'
  BY DEF Running
<1>2. Left' = Left
  BY DEF Left
<1> QED BY <1>1, <1>2 DEF Promise!vars

\* The seconds left after a step, spelled out.
LEMMA LeftAfter == Left' = [c \in Conns |-> IF peer'[c] = "none" THEN Idle + 1
                                                               ELSE timer_lst'.expire[c]]
BY DEF Left

LEMMA ClientPromise == ASSUME IdleInv, Client PROVE UNCHANGED Promise!vars
<1>1. /\ timer_lst' = timer_lst /\ Running /\ pcm' = pcm
      /\ \A c \in Conns : peer'[c] = "none" <=> peer[c] = "none"
  <2>1. CASE Connect
    BY <2>1 DEF Connect, loopVars
  <2>2. CASE Terminate
    BY <2>2 DEF Terminate, loopVars
  <2>3. ASSUME NEW c \in Conns, Send(c) PROVE <1>1
    BY <2>3 DEF Send, loopVars
  <2>4. ASSUME NEW c \in Conns, NEW how \in {"ended", "reset"}, NEW kept, Leave(c, how, kept)
        PROVE  <1>1
    <3>1. peer \in [Conns -> {"none", "open", "ended", "reset"}]
      BY DEF IdleInv, TypeOK
    <3> QED BY <2>4, <3>1 DEF Leave, loopVars
  <2> QED BY <2>1, <2>2, <2>3, <2>4 DEF Client
<1>2. pcm' # "done"
  BY <1>1 DEF Running
<1> QED BY <1>1, <1>2, Stutters

LEMMA SecondPromise == ASSUME IdleInv, Second PROVE Promise!Second /\ UNCHANGED Running
<1>1. /\ Running /\ peer' = peer /\ pcm' = pcm
  BY DEF Second, loopVars
<1>2. /\ timer_lst'.fate = "fine"
      /\ \A c \in Conns : timer_lst'.expire[c] = IF timer_lst.expire[c] \in {Null, 0}
                                                   THEN timer_lst.expire[c]
                                                   ELSE timer_lst.expire[c] - 1
  BY SecondList DEF Conns
<1>3. Running'
  BY <1>1, <1>2 DEF Running
<1>4. ASSUME NEW c \in Conns
      PROVE  (IF peer'[c] = "none" THEN Idle + 1 ELSE timer_lst'.expire[c])
                 = IF Left[c] \in {0, Idle + 1} THEN Left[c] ELSE Left[c] - 1
  <2>1. Idle \in Nat /\ Null \notin 0..Idle
    BY SizeOfConns, TimerAssumption DEF Idle
  <2> QED BY <1>1, <1>2, <2>1, LeftOf
<1>5. Left' = [c \in Conns |-> IF Left[c] \in {0, Idle + 1} THEN Left[c] ELSE Left[c] - 1]
  BY <1>4, LeftAfter
<1> QED BY <1>1, <1>3, <1>5 DEF Promise!Second, Promise!Closed

LEMMA AcceptPromise == ASSUME IdleInv, NEW c \in Conns, Accept(c) PROVE Promise!Accept(c)
<1>1. /\ peer[c] = "none" /\ peer' = [peer EXCEPT ![c] = "open"]
      /\ peer \in [Conns -> {"none", "open", "ended", "reset"}]
      /\ timer_lst.expire \in [Conns -> 0..Idle \cup {Null}]
  BY DEF Accept, IdleInv, TypeOK, Conns
<1>2. timer_lst'.expire = [timer_lst.expire EXCEPT ![c] = Idle]
  BY AcceptList
<1>3. \A d \in Conns : (IF peer'[d] = "none" THEN Idle + 1 ELSE timer_lst'.expire[d])
                          = IF d = c THEN Idle ELSE Left[d]
  BY <1>1, <1>2, LeftOf
<1>4. Left' = [Left EXCEPT ![c] = Idle]
  BY <1>3, LeftAfter DEF Left
<1>5. Left[c] = Idle + 1
  BY <1>1, LeftOf
<1> QED BY <1>4, <1>5 DEF Promise!Accept, Promise!Closed

LEMMA ReceivePromise ==
    ASSUME IdleInv, NEW c \in Conns, Receive(c), ~Misplaced PROVE Promise!Receive(c)
<1>1. /\ rx[c] > 0 /\ peer' = peer
      /\ timer_lst.expire \in [Conns -> 0..Idle \cup {Null}]
  BY DEF Receive, IdleInv, TypeOK, Conns
<1>2. peer[c] # "none"
  <2>1. rx[c] # 0
    BY <1>1
  <2> QED BY <2>1 DEF IdleInv
<1>3. timer_lst'.expire = [timer_lst.expire EXCEPT ![c] = Idle]
  BY ReceiveList
<1>4. \A d \in Conns : (IF peer'[d] = "none" THEN Idle + 1 ELSE timer_lst'.expire[d])
                          = IF d = c THEN Idle ELSE Left[d]
  BY <1>1, <1>2, <1>3, LeftOf
<1>5. Left' = [Left EXCEPT ![c] = Idle]
  BY <1>4, LeftAfter DEF Left
<1>6. Left[c] # Idle + 1
  BY <1>2, LeftOf
<1> QED BY <1>5, <1>6 DEF Promise!Receive, Promise!Closed

LEMMA HangUpPromise == ASSUME IdleInv, NEW c \in Conns, HangUp(c) PROVE Promise!HangUp(c)
<1>1. /\ peer[c] # "none" /\ Close({c})
      /\ timer_lst.expire \in [Conns -> 0..Idle \cup {Null}]
  BY DEF HangUp, IdleInv, TypeOK, Conns
<1>2. timer_lst'.expire = [timer_lst.expire EXCEPT ![c] = Null]
  BY HangUpList
<1>3. \A d \in Conns : peer'[d] = IF d = c THEN "none" ELSE peer[d]
  BY <1>1 DEF Close
<1>4. \A d \in Conns : (IF peer'[d] = "none" THEN Idle + 1 ELSE timer_lst'.expire[d])
                          = IF d = c THEN Idle + 1 ELSE Left[d]
  BY <1>1, <1>2, <1>3, LeftOf
<1>5. Left' = [Left EXCEPT ![c] = Idle + 1]
  BY <1>4, LeftAfter DEF Left
<1>6. Left[c] # Idle + 1
  BY <1>1, LeftOf
<1> QED BY <1>5, <1>6 DEF Promise!HangUp, Promise!Closed

LEMMA SweepPromise == ASSUME IdleInv, EndOfBatch, timeout PROVE Promise!Sweep
<1> DEFINE C == Nodes(timer_lst) \ Nodes(timer_lst')
<1>1. Close(C)
  BY DEF EndOfBatch
<1>2. timer_lst'.expire = [t \in Timers |-> IF timer_lst.expire[t] = 0 THEN Null
                                            ELSE timer_lst.expire[t]]
  BY SweepList
<1>3. \A d \in Conns : peer'[d] = IF d \in C THEN "none" ELSE peer[d]
  BY <1>1 DEF Close
<1>4. \A d \in Conns : d \in C <=> timer_lst.expire[d] = 0
  <2>1. 0 # Null
    BY TimerAssumption
  <2> QED BY <1>2, <2>1 DEF Nodes, Conns
<1> HIDE DEF C
<1>5. ASSUME NEW d \in Conns
      PROVE  (IF peer'[d] = "none" THEN Idle + 1 ELSE timer_lst'.expire[d])
                 = IF Left[d] = 0 THEN Idle + 1 ELSE Left[d]
  <2>1. timer_lst'.expire[d] = IF timer_lst.expire[d] = 0 THEN Null ELSE timer_lst.expire[d]
    BY <1>2 DEF Conns
  <2>2. peer[d] # "none" <=> timer_lst.expire[d] # Null
    BY DEF IdleInv, Nodes, Opened, Conns
  <2>3. 0 # Null /\ Idle \in Nat
    BY TimerAssumption, SizeOfConns DEF Idle
  <2> QED BY <1>3, <1>4, <2>1, <2>2, <2>3, LeftOf
<1>6. Left' = [d \in Conns |-> IF Left[d] = 0 THEN Idle + 1 ELSE Left[d]]
  BY <1>5, LeftAfter
<1> QED BY <1>6 DEF Promise!Sweep, Promise!Closed

\* A step of the server keeps the promise, or is its end.
LEMMA StepPromise ==
    ASSUME IdleInv, IdleInv', [Next]_vars, ~Misplaced PROVE [Promise!Next]_(Promise!vars)
<1>1. CASE Client
  BY <1>1, ClientPromise
<1>2. CASE Second
  <2>1. Promise!Second /\ Running /\ Running'
    BY <1>2, SecondPromise DEF Second
  <2> QED BY <2>1 DEF Promise!Next, Promise!Live
<1>3. CASE EpollWait
  <2>1. timer_lst' = timer_lst /\ peer' = peer /\ Running /\ pcm' # "done"
    BY <1>3 DEF EpollWait
  <2> QED BY <2>1, Stutters
<1>4. CASE ReadSignals
  <2>1. timer_lst' = timer_lst /\ peer' = peer /\ Running /\ pcm' = "loop"
    BY <1>4 DEF ReadSignals, Handle
  <2> QED BY <2>1, Stutters
<1>5. ASSUME NEW c \in Conns, Accept(c) \/ Receive(c) \/ HangUp(c)
      PROVE  [Promise!Next]_(Promise!vars)
  <2>1. Running
    BY <1>5 DEF Accept, Receive, HangUp, Handle
  <2>2. Promise!Accept(c) \/ Promise!Receive(c) \/ Promise!HangUp(c)
    BY <1>5, AcceptPromise, ReceivePromise, HangUpPromise
  <2>3. CASE Running'
    BY <2>1, <2>2, <2>3 DEF Promise!Next, Promise!Live
  <2>4. CASE ~Running'
    BY <2>1, <2>4, HaltStep DEF Promise!Next
  <2> QED BY <2>3, <2>4
<1>6. CASE EndOfBatch
  <2>1. Running
    BY <1>6 DEF EndOfBatch
  <2>2. CASE ~Running'
    BY <2>1, <2>2, HaltStep DEF Promise!Next
  <2>3. CASE Running' /\ timeout
    <3>1. Promise!Sweep
      BY <1>6, <2>3, SweepPromise
    <3> QED BY <2>1, <2>3, <3>1 DEF Promise!Next, Promise!Live
  <2>4. CASE Running' /\ ~timeout
    <3>1. timer_lst' = timer_lst /\ peer' = peer /\ pcm' # "done"
      BY <1>6, <2>4 DEF EndOfBatch, Running
    <3> QED BY <2>1, <3>1, Stutters
  <2> QED BY <2>2, <2>3, <2>4
<1>7. CASE UNCHANGED vars
  <2>1. Running' = Running
    BY <1>7 DEF vars, loopVars, Running
  <2>2. Left' = Left
    BY <1>7 DEF vars, loopVars, Left
  <2> QED BY <2>1, <2>2 DEF Promise!vars
<1> QED BY <1>1, <1>2, <1>3, <1>4, <1>5, <1>6, <1>7 DEF Next, Main

LEMMA InitPromise == Init => Promise!Init
<1> SUFFICES ASSUME Init PROVE Promise!Init
  OBVIOUS
<1>1. Running
  BY DEF Init, EmptyList, Running
<1>2. Left = [c \in Conns |-> Idle + 1]
  BY DEF Init, Left
<1> QED BY <1>1, <1>2 DEF Promise!Init, Promise!Closed

LEMMA UnchangedPromise == UNCHANGED vars => UNCHANGED Promise!vars
<1> SUFFICES ASSUME UNCHANGED vars PROVE UNCHANGED Promise!vars
  OBVIOUS
<1>1. Running' = Running
  BY DEF vars, loopVars, Running
<1>2. Left' = Left
  BY DEF vars, loopVars, Left
<1> QED BY <1>1, <1>2 DEF Promise!vars

(***************************************************************************)
(* The server does what IdleConnections allows, up to the first misplaced  *)
(* timer: data restart a connection's time, a sweep closes all connections *)
(* whose time is over and no other (lst_timer.cpp:53-192, main.cpp:57-68,  *)
(* 167-210).                                                               *)
(***************************************************************************)
THEOREM KeepsPromise == Spec /\ [][~Misplaced]_vars => Promise!Safety
<1>1. IdleInv /\ [Next]_vars /\ [~Misplaced]_vars => IdleInv' /\ [Promise!Next]_(Promise!vars)
  <2> SUFFICES ASSUME IdleInv, [Next]_vars, [~Misplaced]_vars
               PROVE  IdleInv' /\ [Promise!Next]_(Promise!vars)
    OBVIOUS
  <2>1. CASE ~Misplaced
    <3>1. IdleInv'
      BY <2>1, StepIdle
    <3> QED BY <2>1, <3>1, StepPromise
  <2>2. CASE UNCHANGED vars
    BY <2>2, UnchangedInv, UnchangedPromise
  <2> QED BY <2>1, <2>2
<1> QED BY <1>1, InitIdle, InitPromise, PTL DEF Spec, Promise!Safety

\* With at most two connections at a time it always does.
THEOREM TwoTimersPromise == ASSUME Cardinality(Timers) <= 2 PROVE Spec => Promise!Safety
<1>1. IdleInv /\ [Next]_vars => IdleInv' /\ [Promise!Next]_(Promise!vars)
  <2> SUFFICES ASSUME IdleInv, [Next]_vars PROVE IdleInv' /\ [Promise!Next]_(Promise!vars)
    OBVIOUS
  <2>1. ~Misplaced
    BY TwoInPlace
  <2>2. IdleInv'
    BY <2>1, StepIdle
  <2> QED BY <2>1, <2>2, StepPromise
<1> QED BY <1>1, InitIdle, InitPromise, PTL DEF Spec, Promise!Safety
=============================================================================
