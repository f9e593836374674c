----------------------------- MODULE ChatProofs -----------------------------
(***************************************************************************)
(* TableExact of ChatServer, and that it implements ChatRoom, for any      *)
(* number of clients and any limit.                                        *)
(***************************************************************************)
EXTENDS ChatServer, FiniteSetTheorems, WellFoundedInduction, TLAPS

\* A set of numbers that is not empty has a least one.
LEMMA Least == ASSUME NEW S \in SUBSET Nat, S # {}
               PROVE  \E x \in S : \A y \in S : x <= y
<1>1. IsWellFoundedOn(OpToRel(<, Nat), Nat)
  BY NatLessThanWellFounded
<1>2. PICK x \in S : \A y \in S : ~(<<y, x>> \in OpToRel(<, Nat))
  BY <1>1, WFMin
<1>3. \A y \in S : ~(y < x)
  BY <1>2 DEF OpToRel
<1> QED BY <1>3

\* The loop goes on at an entry of the table, or ends.
LEMMA GoesOn == ASSUME NEW table, Len(table) \in Nat, NEW k \in Nat, k > 0, GoOn(table, k)
                PROVE  i' \in InPoll..Len(table)
<1> DEFINE todo == {j \in k..Len(table) : table[j].revents # "none"}
<1>1. CASE todo = {}
  BY <1>1 DEF GoOn, InPoll
<1>2. CASE todo # {}
  <2>1. todo \in SUBSET Nat
    OBVIOUS
  <2>2. \E j \in todo : \A m \in todo : j <= m
    BY <1>2, <2>1, Least
  <2>3. i' \in todo
    BY <1>2, <2>2 DEF GoOn
  <2> QED BY <2>3 DEF InPoll
<1> QED BY <1>1, <1>2

\* Where the table has room there is a free descriptor, and connfd is one.
LEMMA FreeFd == ASSUME TableExact, user_count < USER_LIMIT
                PROVE  \E f \in Fds : /\ conn[f] = Null
                                      /\ \A g \in Fds : conn[g] = Null => f <= g
<1> DEFINE free == {f \in Fds : conn[f] = Null}
           n == user_count
           taken == {fds[j].fd : j \in 1..n}
<1>1. n \in Nat /\ USER_LIMIT \in Nat /\ taken = Fds \ free
  BY ChatAssumption DEF TableExact, TypeOK, user_count
<1>2. free # {}
  <2> SUFFICES ASSUME free = {} PROVE FALSE
    OBVIOUS
  <2>1. IsFiniteSet(1..n) /\ Cardinality(1..n) = n
    BY <1>1, FS_Interval
  <2>2. IsFiniteSet(Fds) /\ Cardinality(Fds) = USER_LIMIT
    BY <1>1, FS_Interval DEF Fds
  <2>3. [j \in 1..n |-> fds[j].fd] \in Surjection(1..n, Fds)
    BY <1>1 DEF Surjection
  <2>4. Cardinality(Fds) <= Cardinality(1..n)
    BY <2>1, <2>3, FS_Surjection
  <2> QED BY <1>1, <2>1, <2>2, <2>4
<1>3. free \in SUBSET Nat
  BY DEF Fds
<1>4. PICK f \in free : \A g \in free : f <= g
  BY <1>2, <1>3, Least
<1> QED BY <1>4

Entry == [fd : Fds, out : BOOLEAN, revents : {"none", "ERR", "RDHUP", "IN", "OUT"}]

\* The initial state has the invariant.
LEMMA InitTable == Init => TableExact
<1> SUFFICES ASSUME Init PROVE TableExact
  OBVIOUS
<1> USE ChatAssumption
<1>1. fds = <<>> /\ user_count = 0
  BY DEF Init, user_count
<1>2. TypeOK
  <2>1. fds \in Seq(Entry) /\ user_count <= USER_LIMIT
    BY <1>1
  <2>4. listen \in BOOLEAN
    BY DEF Init
  <2>5. i \in InPoll..user_count
    <3>1. i = -1 /\ user_count = 0
      BY <1>1 DEF Init, InPoll
    <3> QED BY <3>1 DEF InPoll
  <2>2. users \in [Fds -> [write_buff : Fds \cup {Null}, buf : Clients \cup {Null}]]
    BY DEF Init
  <2>3. /\ client \in [Clients -> {"out", "waiting", "in", "left"}]
        /\ conn \in [Fds -> Clients \cup {Null}] /\ rx \in [Fds -> 0..MaxRx]
        /\ peer \in [Fds -> {"none", "open", "ended", "reset", "gone"}]
    BY DEF Init
  <2> QED BY <2>1, <2>2, <2>3, <2>4, <2>5 DEF TypeOK, Entry
<1> QED BY <1>1, <1>2 DEF Init, TableExact

\* A step that leaves the descriptors of the entries and who is connected alone.
LEMMA SameEntries ==
    ASSUME TableExact, TypeOK', user_count' = user_count,
           \A j \in 1..user_count : fds'[j].fd = fds[j].fd,
           \A f \in Fds : conn'[f] = Null <=> conn[f] = Null
    PROVE  TableExact'
<1>1. {fds'[j].fd : j \in 1..user_count'} = {fds[j].fd : j \in 1..user_count}
  OBVIOUS
<1>2. {f \in Fds : conn'[f] # Null} = {f \in Fds : conn[f] # Null}
  OBVIOUS
<1>3. \A j, k \in 1..user_count' : fds'[j].fd = fds'[k].fd => j = k
  BY DEF TableExact
<1> QED BY <1>1, <1>2, <1>3 DEF TableExact

LEMMA PeopleTable == ASSUME TableExact, People  PROVE  TableExact'
<1>1. TypeOK
  BY DEF TableExact
<1>2. ASSUME NEW c \in Clients, Connect(c) PROVE TableExact'
  <2>1. client' \in [Clients -> {"out", "waiting", "in", "left"}]
    BY <1>1, <1>2 DEF Connect, TypeOK
  <2>2. TypeOK'
    BY <1>1, <1>2, <2>1 DEF Connect, TypeOK, kernelVars, user_count
  <2> QED BY <1>2, <2>2, SameEntries DEF Connect, kernelVars, user_count
<1>3. ASSUME NEW f \in Fds, Send(f) PROVE TableExact'
  <2>1. rx' \in [Fds -> 0..MaxRx]
    BY <1>1, <1>3, ChatAssumption DEF Send, TypeOK
  <2>2. TypeOK'
    BY <1>1, <1>3, <2>1 DEF Send, TypeOK, user_count
  <2> QED BY <1>3, <2>2, SameEntries DEF Send, user_count
<1>4. ASSUME NEW f \in Fds, NEW how \in {"ended", "reset"}, NEW kept \in {0, rx[f]},
             Leave(f, how, kept)
      PROVE  TableExact'
  <2>1. rx' \in [Fds -> 0..MaxRx] /\ peer' \in [Fds -> {"none", "open", "ended", "reset", "gone"}]
    BY <1>1, <1>4, ChatAssumption DEF Leave, TypeOK
  <2>2. TypeOK'
    BY <1>1, <1>4, <2>1 DEF Leave, TypeOK, user_count
  <2> QED BY <1>4, <2>2, SameEntries DEF Leave, user_count
<1> QED BY <1>2, <1>3, <1>4 DEF People

LEMMA PollTable == ASSUME TableExact, Poll  PROVE  TableExact'
<1> DEFINE table == [j \in 1..user_count |-> [fds[j] EXCEPT !.revents = Revents(fds[j])]]
           n == user_count
<1>1. TypeOK /\ n \in Nat /\ fds \in Seq(Entry) /\ n = Len(fds)
  BY DEF TableExact, TypeOK, user_count, Entry
<1>2. \A j \in 1..n : table[j] \in Entry /\ table[j].fd = fds[j].fd
  <2> SUFFICES ASSUME NEW j \in 1..n PROVE table[j] \in Entry /\ table[j].fd = fds[j].fd
    OBVIOUS
  <2>1. Revents(fds[j]) \in {"none", "ERR", "RDHUP", "IN", "OUT"}
    BY DEF Revents
  <2>2. fds[j] \in Entry /\ table[j] = [fds[j] EXCEPT !.revents = Revents(fds[j])]
    BY <1>1
  <2> HIDE DEF table
  <2> QED BY <2>1, <2>2 DEF Entry
<1>3. table \in Seq(Entry) /\ Len(table) = n
  BY <1>1, <1>2
<1>4. fds' = table /\ listen' \in BOOLEAN /\ UNCHANGED <<users, client, kernelVars>>
  BY DEF Poll
<1>5. i' \in InPoll..n
  <2>1. i' = 0 \/ GoOn(table, 1)
    BY DEF Poll
  <2>2. ASSUME GoOn(table, 1) PROVE i' \in InPoll..n
    BY <1>1, <1>3, <2>2, GoesOn
  <2> QED BY <1>1, <2>1, <2>2 DEF InPoll
<1>6. user_count' = n
  BY <1>3, <1>4 DEF user_count
<1>7. TypeOK'
  BY <1>1, <1>3, <1>4, <1>5, <1>6 DEF TypeOK, kernelVars, Entry
<1> QED BY <1>2, <1>4, <1>6, <1>7, SameEntries DEF kernelVars

LEMMA AcceptTable == ASSUME TableExact, NEW c \in Clients, Accept(c)  PROVE  TableExact'
<1> DEFINE connfd == CHOOSE f \in Fds : /\ conn[f] = Null
                                        /\ \A g \in Fds : conn[g] = Null => f <= g
           entry == [fd |-> connfd, out |-> FALSE, revents |-> "none"]
           table == Append(fds, entry)
           n == user_count
<1>1. /\ TypeOK /\ n \in Nat /\ fds \in Seq(Entry) /\ n = Len(fds) /\ n < USER_LIMIT
      /\ USER_LIMIT \in Nat
  BY ChatAssumption DEF TableExact, TypeOK, user_count, Entry, Accept
<1>2. connfd \in Fds /\ conn[connfd] = Null
  BY <1>1, FreeFd
<1>3. /\ client' = [client EXCEPT ![c] = "in"] /\ conn' = [conn EXCEPT ![connfd] = c]
      /\ peer' = [peer EXCEPT ![connfd] = "open"] /\ fds' = table /\ GoOn(table, 1)
      /\ listen' = FALSE /\ users' = users /\ rx' = rx
  BY DEF Accept
<1> HIDE DEF connfd
<1>4. entry \in Entry
  BY <1>2 DEF Entry
<1> HIDE DEF entry
<1>5. /\ table \in Seq(Entry) /\ Len(table) = n + 1 /\ table[n + 1] = entry
      /\ \A j \in 1..n : table[j] = fds[j]
  BY <1>1, <1>4 DEF Entry
<1> HIDE DEF table
<1>6. user_count' = n + 1
  BY <1>3, <1>5 DEF user_count
<1>7. i' \in InPoll..n + 1
  BY <1>1, <1>3, <1>5, GoesOn
<1>8. TypeOK'
  <2>1. client' \in [Clients -> {"out", "waiting", "in", "left"}]
    BY <1>1, <1>3 DEF TypeOK
  <2>2. conn' \in [Fds -> Clients \cup {Null}]
    BY <1>1, <1>2, <1>3 DEF TypeOK
  <2>3. peer' \in [Fds -> {"none", "open", "ended", "reset", "gone"}]
    BY <1>1, <1>2, <1>3 DEF TypeOK
  <2>4. user_count' <= USER_LIMIT
    BY <1>1, <1>6
  <2> QED BY <1>1, <1>3, <1>5, <1>6, <1>7, <2>1, <2>2, <2>3, <2>4 DEF TypeOK, Entry
<1>9. entry.fd = connfd
  BY DEF entry
<1>10. {fds'[j].fd : j \in 1..user_count'} = {f \in Fds : conn'[f] # Null}
  <2>1. {fds'[j].fd : j \in 1..n + 1} = {fds[j].fd : j \in 1..n} \cup {connfd}
    <3>1. \A j \in 1..n : fds'[j].fd = fds[j].fd
      BY <1>3, <1>5
    <3>2. fds'[n + 1].fd = connfd /\ 1..n + 1 = 1..n \cup {n + 1}
      BY <1>1, <1>3, <1>5, <1>9
    <3> QED BY <3>1, <3>2
  <2>2. {f \in Fds : conn'[f] # Null} = {f \in Fds : conn[f] # Null} \cup {connfd}
    BY <1>1, <1>2, <1>3, ChatAssumption DEF TypeOK
  <2> QED BY <1>6, <2>1, <2>2 DEF TableExact
<1>11. \A j, k \in 1..user_count' : fds'[j].fd = fds'[k].fd => j = k
  <2>1. \A j \in 1..n : fds[j].fd # connfd
    BY <1>2 DEF TableExact
  <2> QED BY <1>1, <1>3, <1>5, <1>6, <1>9, <2>1 DEF TableExact
<1> QED BY <1>8, <1>10, <1>11 DEF TableExact

LEMMA RefuseTable == ASSUME TableExact, NEW c \in Clients, Refuse(c)  PROVE  TableExact'
<1>1. TypeOK /\ user_count \in Nat /\ Len(fds) = user_count
  BY DEF TableExact, TypeOK, user_count
<1>2. i' \in InPoll..user_count
  BY <1>1, GoesOn DEF Refuse
<1>3. client' \in [Clients -> {"out", "waiting", "in", "left"}]
  BY <1>1 DEF Refuse, TypeOK
<1>4. TypeOK'
  BY <1>1, <1>2, <1>3 DEF Refuse, TypeOK, kernelVars, user_count
<1> QED BY <1>4, SameEntries DEF Refuse, kernelVars, user_count

\* The entry that the loop is at.
LEMMA InTable == ASSUME TypeOK, NEW event, Handle(event)
                 PROVE  /\ user_count \in Nat /\ fds \in Seq(Entry) /\ user_count = Len(fds)
                        /\ i \in 1..user_count /\ fds[i] \in Entry /\ listen' = listen
<1>1. fds \in Seq(Entry) /\ user_count = Len(fds)
  BY DEF TypeOK, Entry, user_count
<1>2. user_count \in Nat
  BY <1>1
<1>3. i \in InPoll..user_count /\ i > 0 /\ listen' = listen
  BY DEF TypeOK, Handle
<1>4. i \in 1..user_count
  BY <1>2, <1>3 DEF InPoll
<1> QED BY <1>1, <1>2, <1>3, <1>4

\* The branches that take nobody out of the table.
LEMMA EventTable == ASSUME TableExact, HandleError \/ Read \/ Write  PROVE  TableExact'
<1> DEFINE n == user_count
<1>1. /\ TypeOK /\ n \in Nat /\ fds \in Seq(Entry) /\ n = Len(fds)
      /\ i \in 1..n /\ fds[i] \in Entry /\ listen' = listen
  <2>1. (\E event : Handle(event)) /\ TypeOK
    BY DEF TableExact, HandleError, Read, Write
  <2> QED BY <2>1, InTable
<1>2. \A table : /\ table \in Seq(Entry) /\ Len(table) = n
                 /\ \A j \in 1..n : table[j].fd = fds[j].fd
        => /\ Done(table) \in Seq(Entry) /\ Len(Done(table)) = n
           /\ \A j \in 1..n : Done(table)[j].fd = fds[j].fd
  <2> SUFFICES ASSUME NEW table \in Seq(Entry), Len(table) = n,
                      \A j \in 1..n : table[j].fd = fds[j].fd
               PROVE  /\ Done(table) \in Seq(Entry) /\ Len(Done(table)) = n
                      /\ \A j \in 1..n : Done(table)[j].fd = fds[j].fd
    OBVIOUS
  <2>1. [table[i] EXCEPT !.revents = "none"] \in Entry
    <3>1. table[i] \in Entry
      BY <1>1
    <3> QED BY <3>1 DEF Entry
  <2>2. Done(table) = [table EXCEPT ![i] = [table[i] EXCEPT !.revents = "none"]]
    BY DEF Done
  <2>3. [table[i] EXCEPT !.revents = "none"].fd = table[i].fd
    <3>1. table[i] \in Entry
      BY <1>1
    <3> QED BY <3>1 DEF Entry
  <2> QED BY <1>1, <2>1, <2>2, <2>3
<1>3. CASE HandleError
  <2>1. /\ fds' \in Seq(Entry) /\ user_count' = n /\ i' \in InPoll..n
        /\ \A j \in 1..n : fds'[j].fd = fds[j].fd
    BY <1>1, <1>2, <1>3, GoesOn DEF HandleError, user_count
  <2>2. peer' \in [Fds -> {"none", "open", "ended", "reset", "gone"}]
    BY <1>1, <1>3 DEF HandleError, TypeOK
  <2>3. TypeOK'
    BY <1>1, <1>3, <2>1, <2>2 DEF HandleError, TypeOK, Entry
  <2> QED BY <1>3, <2>1, <2>3, SameEntries DEF HandleError
<1>4. CASE Write
  <2>1. /\ fds' \in Seq(Entry) /\ user_count' = n /\ i' \in InPoll..n
        /\ \A j \in 1..n : fds'[j].fd = fds[j].fd
    BY <1>1, <1>2, <1>4, GoesOn DEF Write, user_count
  <2>2. users' \in [Fds -> [write_buff : Fds \cup {Null}, buf : Clients \cup {Null}]]
    <3>1. users \in [Fds -> [write_buff : Fds \cup {Null}, buf : Clients \cup {Null}]]
      BY <1>1 DEF TypeOK
    <3>2. users' = [users EXCEPT ![fds[i].fd].write_buff = Null]
      BY <1>4 DEF Write
    <3> QED BY <3>1, <3>2
  <2>3. TypeOK'
    BY <1>1, <1>4, <2>1, <2>2 DEF Write, TypeOK, Entry, kernelVars
  <2> QED BY <1>4, <2>1, <2>3, SameEntries DEF Write, kernelVars
<1>5. CASE Read
  <2> DEFINE connfd == fds[i].fd
             table == [j \in 1..n |->
                        IF fds[j].fd = connfd THEN fds[j] ELSE [fds[j] EXCEPT !.out = TRUE]]
             others == {fds[j].fd : j \in 1..n} \ {connfd}
  <2>1. ASSUME NEW j \in 1..n PROVE table[j] \in Entry /\ table[j].fd = fds[j].fd
    <3>1. fds[j] \in Entry
      BY <1>1
    <3>2. /\ [fds[j] EXCEPT !.out = TRUE] \in Entry
          /\ [fds[j] EXCEPT !.out = TRUE].fd = fds[j].fd
      BY <3>1 DEF Entry
    <3> QED BY <3>1, <3>2
  <2>2. table \in Seq(Entry) /\ Len(table) = n
    BY <1>1, <2>1
  <2>3. /\ fds' = Done(table) /\ GoOn(table, i + 1)
        /\ rx[connfd] > 0 /\ rx' = [rx EXCEPT ![connfd] = @ - 1]
        /\ users' = [f \in Fds |->
                       [write_buff |-> IF f \in others THEN connfd ELSE users[f].write_buff,
                        buf |-> IF f = connfd THEN conn[f] ELSE users[f].buf]]
        /\ UNCHANGED <<client, conn, peer>>
    BY <1>5 DEF Read
  <2>4. connfd \in Fds
    BY <1>1 DEF Entry
  <2> HIDE DEF table, connfd, others
  <2>5. users' \in [Fds -> [write_buff : Fds \cup {Null}, buf : Clients \cup {Null}]]
    BY <1>1, <2>3, <2>4 DEF TypeOK
  <2>6. rx' \in [Fds -> 0..MaxRx]
    BY <1>1, <2>3, <2>4, ChatAssumption DEF TypeOK
  <2>7. /\ fds' \in Seq(Entry) /\ user_count' = n
        /\ \A j \in 1..n : fds'[j].fd = fds[j].fd
    BY <1>2, <2>1, <2>2, <2>3 DEF user_count
  <2>8. i' \in InPoll..n
    BY <1>1, <2>2, <2>3, GoesOn
  <2>9. TypeOK'
    BY <1>1, <2>3, <2>5, <2>6, <2>7, <2>8 DEF TypeOK, Entry
  <2> QED BY <2>3, <2>7, <2>9, SameEntries
<1> QED BY <1>3, <1>4, <1>5

\* The last entry takes the place of the one that leaves.
LEMMA RemoveTable ==
    ASSUME TableExact, NEW event, Handle(event), Remove  PROVE  TableExact'
<1> DEFINE n == user_count
           leaver == fds[i].fd
           table == SubSeq([fds EXCEPT ![i] = fds[n]], 1, n - 1)
<1>1. /\ TypeOK /\ n \in Nat /\ fds \in Seq(Entry) /\ n = Len(fds)
      /\ i \in 1..n /\ fds[i] \in Entry /\ listen' = listen
  BY InTable DEF TableExact
<1>2. fds[n] \in Entry /\ leaver \in Fds /\ fds[n].fd \in Fds
  <2>1. fds[n] \in Entry
    BY <1>1
  <2> QED BY <1>1, <2>1 DEF Entry
<1>3. /\ users' = [users EXCEPT ![leaver] = users[fds[n].fd]] /\ fds' = table /\ GoOn(table, i)
      /\ client' = [client EXCEPT ![conn[leaver]] = "left"]
      /\ conn' = [conn EXCEPT ![leaver] = Null]
      /\ peer' = [peer EXCEPT ![leaver] = "none"] /\ rx' = [rx EXCEPT ![leaver] = 0]
  BY DEF Remove
<1>4. /\ table \in Seq(Entry) /\ Len(table) = n - 1
      /\ \A j \in 1..n - 1 : table[j] = IF j = i THEN fds[n] ELSE fds[j]
  <2>1. [fds EXCEPT ![i] = fds[n]] \in Seq(Entry) /\ Len([fds EXCEPT ![i] = fds[n]]) = n
    BY <1>1, <1>2
  <2>2. \A j \in 1..n : [fds EXCEPT ![i] = fds[n]][j] = IF j = i THEN fds[n] ELSE fds[j]
    BY <1>1
  <2> HIDE DEF n
  <2> QED BY <1>1, <2>1, <2>2
<1> HIDE DEF table, leaver
<1>5. user_count' = n - 1 /\ n - 1 \in Nat
  BY <1>1, <1>3, <1>4 DEF user_count
<1>6. TypeOK'
  <2>1. i' \in InPoll..n - 1
    <3>1. Len(table) \in Nat /\ i \in Nat /\ i > 0 /\ GoOn(table, i)
      BY <1>1, <1>3, <1>4, <1>5
    <3>2. i' \in InPoll..Len(table)
      BY <3>1, GoesOn
    <3> QED BY <1>4, <3>2
  <2>2. users' \in [Fds -> [write_buff : Fds \cup {Null}, buf : Clients \cup {Null}]]
    BY <1>1, <1>2, <1>3 DEF TypeOK
  <2>3. client' \in [Clients -> {"out", "waiting", "in", "left"}]
    BY <1>1, <1>3 DEF TypeOK
  <2>4. conn' \in [Fds -> Clients \cup {Null}]
    BY <1>1, <1>3 DEF TypeOK
  <2>5. rx' \in [Fds -> 0..MaxRx]
    <3>1. rx \in [Fds -> 0..MaxRx] /\ 0 \in 0..MaxRx
      BY <1>1, ChatAssumption DEF TypeOK
    <3> QED BY <1>3, <3>1
  <2>7. peer' \in [Fds -> {"none", "open", "ended", "reset", "gone"}]
    BY <1>1, <1>3 DEF TypeOK
  <2>6. user_count' <= USER_LIMIT
    BY <1>1, <1>5, ChatAssumption DEF TypeOK
  <2> QED BY <1>1, <1>3, <1>4, <1>5, <2>1, <2>2, <2>3, <2>4, <2>5, <2>6, <2>7 DEF TypeOK, Entry
<1>7. /\ {fds[j].fd : j \in 1..n} = {f \in Fds : conn[f] # Null}
      /\ \A j, k \in 1..n : fds[j].fd = fds[k].fd => j = k
  BY DEF TableExact
<1> DEFINE from(j) == IF j = i THEN n ELSE j
<1>8. \A j \in 1..n - 1 : from(j) \in 1..n /\ from(j) # i /\ table[j] = fds[from(j)]
  BY <1>1, <1>4
<1>9. \A j, k \in 1..n - 1 : from(j) = from(k) => j = k
  BY <1>1
<1> HIDE DEF from
<1>10. {table[j].fd : j \in 1..n - 1} = {fds[j].fd : j \in 1..n} \ {leaver}
  <2>1. ASSUME NEW j \in 1..n - 1
        PROVE  table[j].fd \in {fds[k].fd : k \in 1..n} \ {leaver}
    <3>1. from(j) \in 1..n /\ fds[from(j)].fd # fds[i].fd /\ table[j] = fds[from(j)]
      BY <1>1, <1>7, <1>8
    <3> QED BY <3>1 DEF leaver
  <2>2. ASSUME NEW k \in 1..n, fds[k].fd # leaver
        PROVE  \E j \in 1..n - 1 : table[j].fd = fds[k].fd
    <3> DEFINE to == IF k = n THEN i ELSE k
    <3>1. k # i
      BY <2>2 DEF leaver
    <3>2. to \in 1..n - 1
      BY <1>1, <3>1
    <3>3. table[to] = fds[k]
      BY <1>4, <3>1, <3>2
    <3> QED BY <3>2, <3>3
  <2> QED BY <2>1, <2>2
<1>11. {f \in Fds : conn'[f] # Null} = {f \in Fds : conn[f] # Null} \ {leaver}
  BY <1>1, <1>2, <1>3 DEF TypeOK, leaver
<1>12. \A j, k \in 1..n - 1 : table[j].fd = table[k].fd => j = k
  BY <1>7, <1>8, <1>9
<1>13. {fds'[j].fd : j \in 1..user_count'} = {f \in Fds : conn'[f] # Null}
  <2>1. {fds'[j].fd : j \in 1..user_count'} = {table[j].fd : j \in 1..n - 1}
    BY <1>3, <1>5
  <2>2. {f \in Fds : conn'[f] # Null} = {fds[j].fd : j \in 1..n} \ {leaver}
    BY <1>7, <1>11
  <2> QED BY <1>10, <2>1, <2>2
<1>14. \A j, k \in 1..user_count' : fds'[j].fd = fds'[k].fd => j = k
  BY <1>3, <1>5, <1>12
<1> QED BY <1>6, <1>13, <1>14 DEF TableExact

LEMMA NextTable == TableExact /\ [Next]_vars => TableExact'
<1> SUFFICES ASSUME TableExact, [Next]_vars PROVE TableExact'
  OBVIOUS
<1>1. CASE HandleLeft \/ ReadFails
  BY <1>1, RemoveTable DEF HandleLeft, ReadFails
<1>2. CASE UNCHANGED vars
  <2>1. TypeOK'
    BY <1>2 DEF vars, kernelVars, TableExact, TypeOK, user_count
  <2> QED BY <1>2, <2>1, SameEntries DEF vars, kernelVars, user_count
<1> QED BY <1>1, <1>2, PeopleTable, PollTable, AcceptTable, RefuseTable, EventTable
        DEF Next, Server

(***************************************************************************)
(* For any number of clients and places, whoever joins, leaves or resets   *)
(* in whatever order, and wherever in the loop an entry moves, the table   *)
(* has every open descriptor once and no other (CHAT_SERVER.c:80-123).     *)
(***************************************************************************)
THEOREM TableInvariance == Spec => []TableExact
  BY InitTable, NextTable, PTL DEF Spec
-----------------------------------------------------------------------------
(***************************************************************************)
(* The room.  A pointer into users[] still leads to the words of the       *)
(* client it was set for exactly when that client has the descriptor:      *)
(*  - a client has one descriptor, and the members are those that have one *)
(*    (ConnOnce, Inside);                                                  *)
(*  - whose text a buffer holds has been in the room, so that it is not    *)
(*    the next one to be accepted there (BufSaid);                         *)
(*  - nobody has its own text to get (NoEcho), or it would change with the *)
(*    next thing it says.                                                  *)
(***************************************************************************)
Members == {c \in Clients : client[c] = "in"}

ConnOnce == \A f, g \in Fds : conn[f] # Null /\ conn[f] = conn[g] => f = g

Inside == Members = {conn[f] : f \in {g \in Fds : conn[g] # Null}}

BufSaid == \A f \in Fds : users[f].buf # Null => client[users[f].buf] \in {"in", "left"}

NoEcho == \A f \in Fds : Pending(f) => users[f].write_buff # f

RoomInv == TableExact /\ ConnOnce /\ Inside /\ BufSaid /\ NoEcho

Wants(f) == \E j \in 1..user_count : fds[j].fd = f /\ fds[j].out

Hears == [c \in Clients |-> IF client[c] = "in" THEN Words(CHOOSE f \in Fds : conn[f] = c)
                                               ELSE Null]

\* What a member gets are the words that its descriptor has to be sent.
HearsWords == /\ \A f \in Fds : conn[f] # Null =>
                    conn[f] \in Members /\ Hears[conn[f]] = Words(f)
              /\ \A m \in Members : \E f \in Fds : conn[f] = m /\ conn[f] # Null

LEMMA HearsFunction == /\ Hears = [c \in Clients |-> Hears[c]]
                       /\ Hears' = [c \in Clients |-> Hears'[c]]
  BY DEF Hears

LEMMA OwnWords == RoomInv => HearsWords
<1> SUFFICES ASSUME RoomInv PROVE HearsWords
  OBVIOUS
<1> USE ChatAssumption
<1>1. \A m \in Members : \E f \in Fds : conn[f] = m /\ conn[f] # Null
  BY DEF RoomInv, Inside
<1>2. ASSUME NEW f \in Fds, conn[f] # Null
      PROVE  conn[f] \in Members /\ Hears[conn[f]] = Words(f)
  <2>1. conn[f] \in Members
    BY <1>2 DEF RoomInv, Inside
  <2>2. (CHOOSE g \in Fds : conn[g] = conn[f]) = f
    BY <1>2 DEF RoomInv, ConnOnce
  <2>3. conn[f] \in Clients /\ client[conn[f]] = "in"
    BY <2>1 DEF Members
  <2>4. Hears[conn[f]] = Words(CHOOSE g \in Fds : conn[g] = conn[f])
    BY <2>3 DEF Hears
  <2> QED BY <2>1, <2>2, <2>4
<1> QED BY <1>1, <1>2 DEF HearsWords

\* The room does not see a step that leaves the descriptors, the buffers, the
\* members and what is wanted alone.
LEMMA Quiet ==
    ASSUME RoomInv, TableExact', conn' = conn, users' = users,
           \A f \in Fds : Wants(f)' <=> Wants(f),
           \A c \in Clients : client'[c] = "in" <=> client[c] = "in",
           \A c \in Clients : client[c] = "left" => client'[c] = "left"
    PROVE  RoomInv' /\ UNCHANGED <<Members, Hears>>
<1>1. Members' = Members
  BY DEF Members
<1>2. ConnOnce' /\ Inside'
  BY <1>1 DEF RoomInv, ConnOnce, Inside
<1>3. BufSaid'
  <2> SUFFICES ASSUME NEW f \in Fds, users[f].buf # Null
               PROVE  client'[users[f].buf] \in {"in", "left"}
    BY DEF BufSaid
  <2>1. users[f].buf \in Clients /\ client[users[f].buf] \in {"in", "left"}
    BY DEF RoomInv, BufSaid, TableExact, TypeOK
  <2> QED BY <2>1
<1>4. \A f \in Fds : Pending(f)' <=> Pending(f)
  BY DEF Pending, Wants
<1>5. NoEcho'
  BY <1>4 DEF RoomInv, NoEcho
<1>6. RoomInv'
  BY <1>2, <1>3, <1>5 DEF RoomInv
<1>7. HearsWords /\ HearsWords'
  <2>1. RoomInv' => HearsWords'
    BY OwnWords, PTL
  <2> QED BY <1>6, <2>1, OwnWords
<1>8. \A f \in Fds : Words(f)' = Words(f)
  BY <1>4 DEF Words
<1>9. ASSUME NEW m \in Clients PROVE Hears'[m] = Hears[m]
  <2>1. CASE m \in Members
    <3>1. PICK f \in Fds : conn[f] = m /\ conn[f] # Null
      BY <1>7, <2>1 DEF HearsWords
    <3>2. Hears[m] = Words(f) /\ Hears'[m] = Words(f)'
      BY <1>7, <3>1 DEF HearsWords
    <3> QED BY <1>8, <3>2
  <2>2. CASE m \notin Members
    BY <2>2 DEF Hears, Members
  <2> QED BY <2>1, <2>2
<1>10. Hears' = Hears
  BY <1>9 DEF Hears
<1> QED BY <1>1, <1>6, <1>10

LEMMA InitRoom == Init => RoomInv /\ Room!Init
<1> SUFFICES ASSUME Init PROVE RoomInv /\ Room!Init
  OBVIOUS
<1> USE ChatAssumption
<1>1. TableExact
  BY InitTable
<1>2. Members = {} /\ Inside /\ ConnOnce /\ BufSaid
  BY DEF Init, Members, Inside, ConnOnce, BufSaid
<1>3. NoEcho
  BY DEF Init, NoEcho, Pending
<1>4. Room!Init
  <2>1. {c \in Clients : client[c] = "in"} = {}
    BY DEF Init
  <2>2. Hears = [c \in Clients |-> Null]
    BY DEF Hears, Init
  <2> QED BY <2>1, <2>2 DEF Room!Init, Hears
<1> QED BY <1>1, <1>2, <1>3, <1>4 DEF RoomInv

\* The end of a branch of the loop changes revents only.
LEMMA DoneWants ==
    ASSUME NEW table \in Seq(Entry), i \in 1..Len(table)
    PROVE  /\ Done(table) \in Seq(Entry) /\ Len(Done(table)) = Len(table)
           /\ \A j \in 1..Len(table) :
                 Done(table)[j].fd = table[j].fd /\ Done(table)[j].out = table[j].out
<1> DEFINE entry == [table[i] EXCEPT !.revents = "none"]
<1>1. table[i] \in Entry
  OBVIOUS
<1>2. entry \in Entry /\ entry.fd = table[i].fd /\ entry.out = table[i].out
  BY <1>1 DEF Entry
<1>3. Done(table) = [table EXCEPT ![i] = entry]
  BY DEF Done
<1> HIDE DEF entry
<1> QED BY <1>2, <1>3

LEMMA SameWants ==
    ASSUME user_count' = user_count,
           \A j \in 1..user_count : fds'[j].fd = fds[j].fd /\ fds'[j].out = fds[j].out
    PROVE  \A f \in Fds : Wants(f)' <=> Wants(f)
  BY DEF Wants

\* What people do, poll() itself, a refusal and POLLERR: the room does not see them.
LEMMA PeopleRoom == ASSUME RoomInv, People  PROVE  RoomInv' /\ UNCHANGED <<Members, Hears>>
<1>1. TableExact' /\ TypeOK
  BY PeopleTable DEF RoomInv, TableExact
<1>2. conn' = conn /\ users' = users /\ fds' = fds
  BY DEF People, Connect, Send, Leave, kernelVars
<1>3. /\ \A c \in Clients : client'[c] = "in" <=> client[c] = "in"
      /\ \A c \in Clients : client[c] = "left" => client'[c] = "left"
  BY <1>1 DEF People, Connect, Send, Leave, TypeOK
<1>4. \A f \in Fds : Wants(f)' <=> Wants(f)
  BY <1>2, SameWants DEF user_count
<1> QED BY <1>1, <1>2, <1>3, <1>4, Quiet DEF RoomInv

LEMMA PollRoom == ASSUME RoomInv, Poll  PROVE  RoomInv' /\ UNCHANGED <<Members, Hears>>
<1> DEFINE table == [j \in 1..user_count |-> [fds[j] EXCEPT !.revents = Revents(fds[j])]]
<1>1. TableExact' /\ TypeOK
  BY PollTable DEF RoomInv, TableExact
<1>2. user_count \in Nat /\ fds \in Seq(Entry)
  BY <1>1 DEF TypeOK, user_count, Entry
<1>3. \A j \in 1..user_count : table[j].fd = fds[j].fd /\ table[j].out = fds[j].out
  <2> SUFFICES ASSUME NEW j \in 1..user_count
               PROVE  table[j].fd = fds[j].fd /\ table[j].out = fds[j].out
    OBVIOUS
  <2>1. fds[j] \in Entry /\ table[j] = [fds[j] EXCEPT !.revents = Revents(fds[j])]
    BY <1>2 DEF user_count
  <2> HIDE DEF table
  <2> QED BY <2>1 DEF Entry
<1>4. /\ fds' = table /\ conn' = conn /\ users' = users /\ client' = client
      /\ Len(table) = user_count
  BY <1>2 DEF Poll, kernelVars
<1> HIDE DEF table
<1>5. user_count' = user_count
  BY <1>4 DEF user_count
<1>6. \A f \in Fds : Wants(f)' <=> Wants(f)
  BY <1>3, <1>4, <1>5, SameWants
<1> QED BY <1>1, <1>4, <1>6, Quiet DEF RoomInv

LEMMA RefuseRoom == ASSUME RoomInv, NEW c \in Clients, Refuse(c)
                    PROVE  RoomInv' /\ UNCHANGED <<Members, Hears>>
<1>1. TableExact' /\ TypeOK
  BY RefuseTable DEF RoomInv, TableExact
<1>2. conn' = conn /\ users' = users /\ fds' = fds
  BY DEF Refuse, kernelVars
<1>3. /\ \A d \in Clients : client'[d] = "in" <=> client[d] = "in"
      /\ \A d \in Clients : client[d] = "left" => client'[d] = "left"
  BY <1>1 DEF Refuse, TypeOK
<1>4. \A f \in Fds : Wants(f)' <=> Wants(f)
  BY <1>2, SameWants DEF user_count
<1> QED BY <1>1, <1>2, <1>3, <1>4, Quiet DEF RoomInv

LEMMA ErrorRoom == ASSUME RoomInv, HandleError
                   PROVE  RoomInv' /\ UNCHANGED <<Members, Hears>>
<1>1. TableExact' /\ fds \in Seq(Entry) /\ i \in 1..Len(fds)
  BY EventTable, InTable DEF RoomInv, TableExact, HandleError
<1>2. conn' = conn /\ users' = users /\ client' = client /\ fds' = Done(fds)
  BY DEF HandleError
<1>3. \A f \in Fds : Wants(f)' <=> Wants(f)
  BY <1>1, <1>2, DoneWants, SameWants DEF user_count
<1> QED BY <1>1, <1>2, <1>3, Quiet DEF RoomInv

\* Who is in, whose words each of them is about to get, and how the pointers say so.
LEMMA Known ==
    ASSUME RoomInv
    PROVE  /\ TypeOK /\ HearsWords /\ Null \notin Clients /\ Null \notin Fds
           /\ \A m \in Clients \ Members : Hears[m] = Null
           /\ \A f \in Fds : users[f].write_buff # Null => users[f].write_buff \in Fds
           /\ \A f \in Fds : Wants(f) => conn[f] # Null
           /\ \A f \in Fds : conn[f] \in Clients \cup {Null}
<1>1. TypeOK /\ HearsWords /\ Null \notin Clients /\ Null \notin Fds
  BY OwnWords, ChatAssumption DEF RoomInv, TableExact
<1>2. \A m \in Clients \ Members : Hears[m] = Null
  BY DEF Hears, Members
<1>3. \A f \in Fds : users[f].write_buff # Null => users[f].write_buff \in Fds
  BY <1>1 DEF TypeOK
<1>4. \A f \in Fds : conn[f] \in Clients \cup {Null}
  BY <1>1 DEF TypeOK
<1>5. \A f \in Fds : Wants(f) => conn[f] # Null
  BY DEF RoomInv, TableExact, Wants
<1> QED BY <1>1, <1>2, <1>3, <1>4, <1>5

\* What was to be sent is sent: Get, or nothing where there was nothing.
LEMMA WriteRoom == ASSUME RoomInv, Write
                   PROVE  RoomInv' /\ (Room!Next \/ UNCHANGED <<Members, Hears>>)
<1>1. /\ TableExact' /\ fds \in Seq(Entry) /\ i \in 1..Len(fds) /\ i \in 1..user_count
      /\ fds[i] \in Entry
  BY EventTable, InTable DEF RoomInv, TableExact, Write
<1>2. fds[i].fd \in Fds
  BY <1>1 DEF Entry
<1>3. PICK g \in Fds : g = fds[i].fd
  BY <1>2
<1>4. PICK m : m = conn[g]
  OBVIOUS
<1>5. g \in Fds /\ m # Null
  BY <1>1, <1>3, <1>4 DEF RoomInv, TableExact
<1>6. /\ conn' = conn /\ client' = client /\ fds' = Done(fds)
      /\ users' = [users EXCEPT ![g].write_buff = Null]
  BY <1>3 DEF Write, kernelVars
<1>7. TypeOK /\ HearsWords
  BY Known
<1>8. /\ \A f \in Fds : users'[f].buf = users[f].buf
      /\ \A f \in Fds \ {g} : users'[f].write_buff = users[f].write_buff
      /\ users'[g].write_buff = Null
  BY <1>5, <1>6, <1>7 DEF TypeOK
<1>9. \A f \in Fds : Wants(f)' <=> Wants(f)
  BY <1>1, <1>6, DoneWants, SameWants DEF user_count
<1>10. ~Pending(g)' /\ \A f \in Fds \ {g} : Pending(f)' <=> Pending(f)
  BY <1>8, <1>9 DEF Pending, Wants
<1>11. Members' = Members /\ ConnOnce' /\ Inside'
  <2>1. Members' = Members
    BY <1>6 DEF Members
  <2> QED BY <1>6, <2>1 DEF RoomInv, ConnOnce, Inside
<1>12. BufSaid' /\ NoEcho'
  <2>1. BufSaid'
    BY <1>6, <1>8 DEF RoomInv, BufSaid
  <2> QED BY <1>8, <1>10, <2>1 DEF RoomInv, NoEcho
<1>13. RoomInv' /\ HearsWords'
  <2>1. RoomInv'
    BY <1>1, <1>11, <1>12 DEF RoomInv
  <2>2. RoomInv' => HearsWords'
    BY OwnWords, PTL
  <2> QED BY <2>1, <2>2
<1>14. Words(g)' = Null /\ \A f \in Fds \ {g} : Words(f)' = Words(f)
  <2>1. ASSUME NEW f \in Fds \ {g} PROVE Words(f)' = Words(f)
    <3>1. CASE ~Pending(f)
      BY <1>10, <3>1 DEF Words
    <3>2. CASE Pending(f)
      <4>1. users[f].write_buff \in Fds
        BY <1>7, <3>2 DEF TypeOK, Pending
      <4> QED BY <1>6, <1>8, <1>10, <3>2, <4>1 DEF Words
    <3> QED BY <3>1, <3>2
  <2> QED BY <1>10, <2>1 DEF Words
<1>15. ASSUME NEW d \in Clients PROVE Hears'[d] = IF d = m THEN Null ELSE Hears[d]
  <2>1. CASE d \in Members
    <3>1. PICK f \in Fds : conn[f] = d /\ conn[f] # Null
      BY <1>7, <2>1 DEF HearsWords
    <3>2. Hears[d] = Words(f) /\ Hears'[d] = Words(f)'
      BY <1>6, <1>7, <1>13, <3>1 DEF HearsWords
    <3>3. f = g <=> d = m
      BY <1>5, <1>4, <3>1 DEF RoomInv, ConnOnce
    <3> QED BY <1>14, <3>2, <3>3
  <2>2. CASE d \notin Members
    BY <1>6, <2>2 DEF Hears, Members
  <2> QED BY <2>1, <2>2
<1>16. m \in Members /\ m \in Clients
  BY <1>5, <1>7, <1>4 DEF HearsWords, Members
<1>17. Hears' = [Hears EXCEPT ![m] = Null]
  BY <1>15, <1>16, HearsFunction
<1>18. CASE Hears[m] = Null
  <2>1. Hears' = Hears
    BY <1>17, <1>18, <1>16 DEF Hears
  <2> QED BY <1>11, <1>13, <2>1
<1>19. CASE Hears[m] # Null
  <2>1. Room!Get(m)
    BY <1>11, <1>16, <1>17, <1>19 DEF Room!Get, Members, Hears
  <2> QED BY <1>13, <1>16, <2>1 DEF Room!Next
<1> QED BY <1>18, <1>19

\* Everybody else is to be sent what the speaker has in its buffer: Speak.
LEMMA ReadRoom == ASSUME RoomInv, Read  PROVE  RoomInv' /\ Room!Next
<1>1. /\ TableExact' /\ fds \in Seq(Entry) /\ i \in 1..Len(fds) /\ i \in 1..user_count
      /\ fds[i] \in Entry /\ user_count \in Nat /\ user_count = Len(fds)
  BY EventTable, InTable DEF RoomInv, TableExact, Read
<1>2. fds[i].fd \in Fds
  BY <1>1 DEF Entry
<1>3. PICK g \in Fds : g = fds[i].fd
  BY <1>2
<1>4. PICK m : m = conn[g]
  OBVIOUS
<1>5. m # Null /\ m \in Clients /\ m \in Members
  <2>1. m # Null
    BY <1>1, <1>3, <1>4 DEF RoomInv, TableExact
  <2> QED BY <1>4, <2>1, Known DEF HearsWords, Members
<1> DEFINE others == {fds[j].fd : j \in 1..user_count} \ {g}
           table == [j \in 1..user_count |->
                       IF fds[j].fd = g THEN fds[j] ELSE [fds[j] EXCEPT !.out = TRUE]]
<1>6. others = {f \in Fds : conn[f] # Null /\ f # g}
  BY DEF RoomInv, TableExact
<1>7. /\ conn' = conn /\ client' = client /\ fds' = Done(table)
      /\ users' = [f \in Fds |->
                      [write_buff |-> IF f \in others THEN g ELSE users[f].write_buff,
                       buf |-> IF f = g THEN conn[f] ELSE users[f].buf]]
  BY <1>3 DEF Read
<1> HIDE DEF others
<1>8. /\ \A f \in others : users'[f].write_buff = g
      /\ \A f \in Fds \ others : users'[f].write_buff = users[f].write_buff
      /\ \A f \in Fds \ {g} : users'[f].buf = users[f].buf
      /\ users'[g].buf = m
  BY <1>4, <1>6, <1>7
<1>9. ASSUME NEW j \in 1..user_count
      PROVE  /\ table[j] \in Entry /\ table[j].fd = fds[j].fd
             /\ table[j].out = (fds[j].fd # g \/ fds[j].out)
  <2>1. fds[j] \in Entry
    BY <1>1
  <2>2. /\ [fds[j] EXCEPT !.out = TRUE] \in Entry
        /\ [fds[j] EXCEPT !.out = TRUE].fd = fds[j].fd
        /\ [fds[j] EXCEPT !.out = TRUE].out = TRUE
    BY <2>1 DEF Entry
  <2>3. fds[j].out \in BOOLEAN
    BY <2>1 DEF Entry
  <2> QED BY <2>1, <2>2, <2>3
<1>10. table \in Seq(Entry) /\ Len(table) = user_count
  <2>1. \A j \in 1..user_count : table[j] \in Entry
    BY <1>9
  <2> QED BY <1>1, <2>1
<1> HIDE DEF table
<1>11. /\ user_count' = user_count
       /\ \A j \in 1..user_count : /\ fds'[j].fd = fds[j].fd
                                   /\ fds'[j].out = (fds[j].fd # g \/ fds[j].out)
  BY <1>1, <1>7, <1>9, <1>10, DoneWants DEF user_count
<1>12. /\ \A f \in others : Wants(f)'
       /\ \A f \in Fds \ others : Wants(f)' <=> Wants(f)
  <2>1. ASSUME NEW f \in others PROVE Wants(f)'
    <3>1. PICK j \in 1..user_count : fds[j].fd = f /\ f # g
      BY <2>1 DEF others
    <3> QED BY <1>11, <3>1 DEF Wants
  <2>2. ASSUME NEW f \in Fds \ others PROVE Wants(f)' <=> Wants(f)
    <3>1. \A j \in 1..user_count : fds[j].fd = f => f = g
      BY <2>2 DEF others
    <3> QED BY <1>11, <3>1 DEF Wants
  <2> QED BY <2>1, <2>2
<1>13. /\ \A f \in others : Pending(f)'
       /\ \A f \in Fds \ others : Pending(f)' <=> Pending(f)
  <2>1. g # Null
    BY Known
  <2> QED BY <1>8, <1>12, <2>1 DEF Pending, Wants
<1>14. Members' = Members /\ ConnOnce' /\ Inside'
  <2>1. Members' = Members
    BY <1>7 DEF Members
  <2> QED BY <1>7, <2>1 DEF RoomInv, ConnOnce, Inside
<1>15. BufSaid'
  BY <1>5, <1>7, <1>8 DEF RoomInv, BufSaid, Members
<1>16. NoEcho'
  <2> SUFFICES ASSUME NEW f \in Fds, Pending(f)' PROVE users'[f].write_buff # f
    BY DEF NoEcho
  <2>1. CASE f \in others
    BY <1>6, <1>8, <2>1
  <2>2. CASE f \notin others
    BY <1>8, <1>13, <2>2 DEF RoomInv, NoEcho
  <2> QED BY <2>1, <2>2
<1>17. RoomInv' /\ HearsWords /\ HearsWords'
  <2>1. RoomInv'
    BY <1>1, <1>14, <1>15, <1>16 DEF RoomInv
  <2>2. RoomInv' => HearsWords'
    BY OwnWords, PTL
  <2> QED BY <2>1, <2>2, OwnWords
<1>18. \A f \in others : Words(f)' = m
  BY <1>4, <1>5, <1>7, <1>8, <1>13 DEF Words
<1>19. Words(g)' = Words(g)
  <2>1. g \notin others
    BY <1>6
  <2>2. CASE ~Pending(g)
    BY <1>13, <2>1, <2>2 DEF Words
  <2>3. CASE Pending(g)
    <3>1. users[g].write_buff \in Fds \ {g}
      BY <2>3, Known DEF Pending, RoomInv, NoEcho
    <3> QED BY <1>7, <1>8, <1>13, <2>1, <2>3, <3>1 DEF Words
  <2> QED BY <2>2, <2>3
<1>20. ASSUME NEW d \in Clients
       PROVE  Hears'[d] = IF d \in Members \ {m} THEN m ELSE Hears[d]
  <2>1. CASE d \in Members
    <3>1. PICK f \in Fds : conn[f] = d /\ conn[f] # Null
      BY <1>17, <2>1 DEF HearsWords
    <3>2. Hears[d] = Words(f) /\ Hears'[d] = Words(f)'
      BY <1>7, <1>17, <3>1 DEF HearsWords
    <3>3. f = g <=> d = m
      BY <1>4, <1>5, <3>1 DEF RoomInv, ConnOnce
    <3>4. f \in others <=> f # g
      BY <1>6, <3>1
    <3> QED BY <1>18, <1>19, <2>1, <3>2, <3>3, <3>4
  <2>2. CASE d \notin Members
    BY <1>7, <2>2 DEF Hears, Members
  <2> QED BY <2>1, <2>2
<1>21. Hears' = [d \in Clients |-> IF d \in Members \ {m} THEN m ELSE Hears[d]]
  BY <1>20, HearsFunction
<1>22. Room!Speak(m)
  BY <1>5, <1>14, <1>21 DEF Room!Speak, Members, Hears
<1> QED BY <1>5, <1>17, <1>22 DEF Room!Next

\* A new entry has nothing to be sent yet, and no buffer holds words of its client:
\* Join.
LEMMA AcceptRoom == ASSUME RoomInv, NEW c \in Clients, Accept(c)
                    PROVE  RoomInv' /\ Room!Next
<1> DEFINE connfd == CHOOSE f \in Fds : /\ conn[f] = Null
                                        /\ \A g \in Fds : conn[g] = Null => f <= g
<1>1. TypeOK /\ user_count < USER_LIMIT /\ client[c] = "waiting" /\ c # Null
  BY ChatAssumption DEF RoomInv, TableExact, Accept
<1>2. connfd \in Fds /\ conn[connfd] = Null
  BY <1>1, FreeFd DEF RoomInv
<1> HIDE DEF connfd
<1>3. PICK g \in Fds : g = connfd /\ conn[g] = Null
  BY <1>2
<1> DEFINE entry == [fd |-> g, out |-> FALSE, revents |-> "none"]
<1>4. /\ client' = [client EXCEPT ![c] = "in"] /\ conn' = [conn EXCEPT ![g] = c]
      /\ fds' = Append(fds, entry) /\ users' = users
  BY <1>3 DEF Accept, connfd
<1>5. fds \in Seq(Entry) /\ user_count = Len(fds) /\ user_count \in Nat /\ entry \in Entry
  BY <1>1 DEF TypeOK, user_count, Entry
<1>6. entry.fd = g /\ entry.out = FALSE
  OBVIOUS
<1> HIDE DEF entry
<1>7. /\ user_count' = user_count + 1 /\ fds'[user_count + 1] = entry
      /\ \A j \in 1..user_count : fds'[j] = fds[j]
  BY <1>4, <1>5 DEF user_count
<1>8. /\ \A f \in Fds \ {g} : conn'[f] = conn[f]
      /\ conn'[g] = c
      /\ \A d \in Clients \ {c} : client'[d] = client[d]
      /\ client'[c] = "in"
  BY <1>1, <1>4 DEF TypeOK
<1>9. \A f \in Fds : Wants(f)' <=> Wants(f)
  <2>1. 1..user_count' = 1..user_count \cup {user_count + 1}
    BY <1>5, <1>7
  <2>2. ~fds'[user_count + 1].out
    BY <1>6, <1>7
  <2> QED BY <1>7, <2>1, <2>2 DEF Wants
<1>10. \A f \in Fds : Pending(f)' <=> Pending(f)
  BY <1>4, <1>9 DEF Pending, Wants
<1>11. ~Pending(g)'
  BY <1>3, <1>10, Known DEF Pending, Wants
<1>12. Members' = Members \cup {c} /\ c \notin Members
  BY <1>1, <1>8 DEF Members
<1>13. \A f \in Fds : conn[f] # c
  BY <1>1, <1>12, Known DEF HearsWords
<1>14. ConnOnce' /\ Inside'
  <2>1. ConnOnce'
    BY <1>8, <1>13 DEF RoomInv, ConnOnce
  <2>2. Inside'
    BY <1>1, <1>3, <1>8, <1>12 DEF RoomInv, Inside
  <2> QED BY <2>1, <2>2
<1>15. \A f \in Fds : users[f].buf # c
  BY <1>1 DEF RoomInv, BufSaid
<1>16. BufSaid' /\ NoEcho'
  <2>1. BufSaid'
    <3> SUFFICES ASSUME NEW f \in Fds, users[f].buf # Null
                 PROVE  client'[users[f].buf] \in {"in", "left"}
      BY <1>4 DEF BufSaid
    <3>1. users[f].buf \in Clients /\ client[users[f].buf] \in {"in", "left"}
      BY <1>1 DEF RoomInv, BufSaid, TypeOK
    <3> QED BY <1>8, <1>15, <3>1
  <2>2. NoEcho'
    BY <1>4, <1>10 DEF RoomInv, NoEcho
  <2> QED BY <2>1, <2>2
<1>17. RoomInv' /\ HearsWords /\ HearsWords'
  <2>1. TableExact'
    BY AcceptTable DEF RoomInv
  <2>2. RoomInv'
    BY <1>14, <1>16, <2>1 DEF RoomInv
  <2>3. RoomInv' => HearsWords'
    BY OwnWords, PTL
  <2> QED BY <2>2, <2>3, OwnWords
<1>18. Words(g)' = Null
  BY <1>11 DEF Words
<1>19. \A f \in Fds \ {g} : Words(f)' = Words(f)
  <2> SUFFICES ASSUME NEW f \in Fds \ {g} PROVE Words(f)' = Words(f)
    OBVIOUS
  <2>1. CASE ~Pending(f)
    BY <1>10, <2>1 DEF Words
  <2>2. CASE Pending(f)
    <3>1. users[f].write_buff \in Fds
      BY <2>2, Known DEF Pending
    <3>2. CASE users[f].write_buff = g
      BY <1>3, <1>4, <1>8, <1>10, <1>15, <2>2, <3>2 DEF Words
    <3>3. CASE users[f].write_buff # g
      BY <1>4, <1>8, <1>10, <2>2, <3>1, <3>3 DEF Words
    <3> QED BY <3>2, <3>3
  <2> QED BY <2>1, <2>2
<1>20. ASSUME NEW d \in Clients PROVE Hears'[d] = Hears[d]
  <2>1. CASE d = c
    <3>1. Hears'[c] = Words(g)'
      BY <1>1, <1>8, <1>17 DEF HearsWords
    <3> QED BY <1>12, <1>18, <2>1, <3>1, Known
  <2>2. CASE d \in Members
    <3>1. PICK f \in Fds : conn[f] = d /\ conn[f] # Null
      BY <1>17, <2>2 DEF HearsWords
    <3>2. f # g /\ Hears[d] = Words(f) /\ Hears'[d] = Words(f)'
      BY <1>3, <1>8, <1>17, <3>1 DEF HearsWords
    <3> QED BY <1>19, <3>2
  <2>3. CASE d \notin Members /\ d # c
    BY <1>8, <2>3 DEF Hears, Members
  <2> QED BY <2>1, <2>2, <2>3
<1>21. Hears' = Hears
  BY <1>20, HearsFunction
<1>22. Room!Join(c)
  BY <1>12, <1>21 DEF Room!Join, Members, Hears
<1> QED BY <1>17, <1>22 DEF Room!Next

\* Whoever was to get the words of the one that leaves may get anything: Leave.
LEMMA RemoveRoom == ASSUME RoomInv, NEW event, Handle(event), Remove
                    PROVE  RoomInv' /\ Room!Next
<1> DEFINE n == user_count
           table == SubSeq([fds EXCEPT ![i] = fds[n]], 1, n - 1)
<1>1. /\ TypeOK /\ TableExact /\ TableExact' /\ n \in Nat /\ fds \in Seq(Entry)
      /\ n = Len(fds) /\ i \in 1..n /\ fds[i] \in Entry
  BY InTable, RemoveTable DEF RoomInv, TableExact
<1>2. fds[n] \in Entry /\ fds[i].fd \in Fds
  <2>1. fds[n] \in Entry
    BY <1>1
  <2> QED BY <1>1, <2>1 DEF Entry
<1>3. PICK g \in Fds : g = fds[i].fd
  BY <1>2
<1>4. PICK m : m = conn[g]
  OBVIOUS
<1>5. m # Null /\ m \in Clients /\ m \in Members
  <2>1. m # Null
    BY <1>1, <1>3, <1>4 DEF TableExact
  <2> QED BY <1>4, <2>1, Known DEF HearsWords, Members
<1>6. /\ users' = [users EXCEPT ![g] = users[fds[n].fd]] /\ fds' = table
      /\ client' = [client EXCEPT ![m] = "left"] /\ conn' = [conn EXCEPT ![g] = Null]
  BY <1>3, <1>4 DEF Remove
<1>7. /\ Len(table) = n - 1
      /\ \A j \in 1..n - 1 : table[j] = IF j = i THEN fds[n] ELSE fds[j]
  <2>1. [fds EXCEPT ![i] = fds[n]] \in Seq(Entry) /\ Len([fds EXCEPT ![i] = fds[n]]) = n
    BY <1>1, <1>2
  <2>2. \A j \in 1..n : [fds EXCEPT ![i] = fds[n]][j] = IF j = i THEN fds[n] ELSE fds[j]
    BY <1>1
  <2> HIDE DEF n
  <2> QED BY <1>1, <2>1, <2>2
<1> HIDE DEF table
<1>8. user_count' = n - 1
  BY <1>1, <1>6, <1>7 DEF user_count
<1>9. /\ \A f \in Fds \ {g} : conn'[f] = conn[f] /\ users'[f] = users[f]
      /\ conn'[g] = Null
      /\ users'[g] = users[fds[n].fd]
      /\ \A d \in Clients \ {m} : client'[d] = client[d]
      /\ client'[m] = "left"
  BY <1>1, <1>5, <1>6 DEF TypeOK
<1>10. \A f \in Fds \ {g} : Wants(f)' <=> Wants(f)
  <2>1. ASSUME NEW f \in Fds \ {g}, Wants(f)' PROVE Wants(f)
    <3>1. PICK j \in 1..n - 1 : fds'[j].fd = f /\ fds'[j].out
      BY <1>8, <2>1 DEF Wants
    <3>2. CASE j = i
      BY <1>1, <1>6, <1>7, <3>1, <3>2 DEF Wants
    <3>3. CASE j # i
      BY <1>1, <1>6, <1>7, <3>1, <3>3 DEF Wants
    <3> QED BY <3>2, <3>3
  <2>2. ASSUME NEW f \in Fds \ {g}, Wants(f) PROVE Wants(f)'
    <3>1. PICK j \in 1..n : fds[j].fd = f /\ fds[j].out
      BY <2>2 DEF Wants
    <3>2. j # i
      BY <1>3, <3>1
    <3>3. CASE j = n
      <4>1. i \in 1..n - 1 /\ fds'[i] = fds[j]
        BY <1>1, <1>6, <1>7, <3>2, <3>3
      <4> QED BY <1>8, <3>1, <4>1 DEF Wants
    <3>4. CASE j # n
      <4>1. j \in 1..n - 1 /\ fds'[j] = fds[j]
        BY <1>1, <1>6, <1>7, <3>2, <3>4
      <4> QED BY <1>8, <3>1, <4>1 DEF Wants
    <3> QED BY <3>3, <3>4
  <2> QED BY <2>1, <2>2
<1>11. \A f \in Fds \ {g} : Pending(f)' <=> Pending(f)
  BY <1>9, <1>10 DEF Pending, Wants
<1>12. ~Wants(g)'
  <2>1. {fds'[j].fd : j \in 1..user_count'} = {f \in Fds : conn'[f] # Null}
    BY <1>1 DEF TableExact
  <2> QED BY <1>9, <2>1 DEF Wants
<1>13. ~Pending(g)'
  BY <1>12 DEF Pending, Wants
<1>14. Members' = Members \ {m}
  BY <1>5, <1>9 DEF Members
<1>15. ConnOnce' /\ Inside'
  <2>1. ConnOnce'
    BY <1>9 DEF RoomInv, ConnOnce
  <2>2. \A f \in Fds : conn[f] = m => f = g
    BY <1>4, <1>5 DEF RoomInv, ConnOnce
  <2>3. {conn'[f] : f \in {h \in Fds : conn'[h] # Null}}
          = {conn[f] : f \in {h \in Fds : conn[h] # Null}} \ {m}
    BY <1>4, <1>9, <2>2
  <2>4. Inside'
    BY <1>14, <2>3 DEF RoomInv, Inside
  <2> QED BY <2>1, <2>4
<1>16. BufSaid' /\ NoEcho'
  <2>1. BufSaid'
    <3> SUFFICES ASSUME NEW f \in Fds, users'[f].buf # Null
                 PROVE  client'[users'[f].buf] \in {"in", "left"}
      BY DEF BufSaid
    <3>1. fds[n].fd \in Fds
      BY <1>2 DEF Entry
    <3>2. PICK h \in Fds : users'[f].buf = users[h].buf
      BY <1>9, <3>1
    <3>3. users[h].buf \in Clients /\ client[users[h].buf] \in {"in", "left"}
      BY <1>1, <3>2 DEF RoomInv, BufSaid, TypeOK
    <3> QED BY <1>9, <3>2, <3>3
  <2>2. NoEcho'
    BY <1>9, <1>11, <1>13 DEF RoomInv, NoEcho
  <2> QED BY <2>1, <2>2
<1>17. RoomInv' /\ HearsWords /\ HearsWords'
  <2>1. RoomInv'
    BY <1>1, <1>15, <1>16 DEF RoomInv
  <2>2. RoomInv' => HearsWords'
    BY OwnWords, PTL
  <2> QED BY <2>1, <2>2, OwnWords
<1>18. ASSUME NEW f \in Fds \ {g}
       PROVE  Words(f)' = IF Words(f) = m THEN "gone" ELSE Words(f)
  <2>1. CASE ~Pending(f)
    BY <1>5, <1>11, <2>1 DEF Words
  <2>2. CASE Pending(f)
    <3>1. users[f].write_buff \in Fds /\ users'[f].write_buff = users[f].write_buff
      BY <1>9, <2>2, Known DEF Pending
    <3>2. CASE users[f].write_buff = g
      <4>1. Words(f)' = "gone"
        BY <1>9, <1>11, <2>2, <3>1, <3>2 DEF Words
      <4>2. Words(f) \in {m, "gone"}
        BY <1>4, <2>2, <3>2 DEF Words
      <4> QED BY <4>1, <4>2
    <3>3. CASE users[f].write_buff # g
      <4>1. Words(f)' = Words(f)
        BY <1>9, <1>11, <2>2, <3>1, <3>3 DEF Words
      <4>2. Words(f) = m => Words(f) = "gone"
        <5>1. conn[users[f].write_buff] # m
          BY <1>4, <1>5, <3>1, <3>3 DEF RoomInv, ConnOnce
        <5> QED BY <2>2, <5>1 DEF Words
      <4> QED BY <4>1, <4>2
    <3> QED BY <3>2, <3>3
  <2> QED BY <2>1, <2>2
<1>19. ASSUME NEW d \in Clients
       PROVE  Hears'[d] = IF d = m THEN Null ELSE IF Hears[d] = m THEN "gone" ELSE Hears[d]
  <2>1. CASE d = m
    BY <1>9, <2>1 DEF Hears
  <2>2. CASE d \in Members \ {m}
    <3>1. PICK f \in Fds : conn[f] = d /\ conn[f] # Null
      BY <1>17, <2>2 DEF HearsWords
    <3>2. f # g
      BY <1>4, <2>2, <3>1
    <3>3. Hears[d] = Words(f) /\ Hears'[d] = Words(f)'
      BY <1>9, <1>17, <3>1, <3>2 DEF HearsWords
    <3> QED BY <1>18, <2>2, <3>2, <3>3
  <2>3. CASE d \notin Members /\ d # m
    <3>1. Hears[d] = Null /\ Hears'[d] = Null
      BY <1>9, <2>3 DEF Hears, Members
    <3> QED BY <1>5, <2>3, <3>1
  <2> QED BY <2>1, <2>2, <2>3
<1>20. Hears' = [d \in Clients |-> IF d = m THEN Null
                                   ELSE IF Hears[d] = m THEN "gone" ELSE Hears[d]]
  BY <1>19, HearsFunction
<1>21. Room!Leave(m)
  BY <1>5, <1>14, <1>20 DEF Room!Leave, Members, Hears
<1> QED BY <1>5, <1>17, <1>21 DEF Room!Next

LEMMA NextRoom == RoomInv /\ [Next]_vars => RoomInv' /\ [Room!Next]_(Room!vars)
<1> SUFFICES ASSUME RoomInv, [Next]_vars
             PROVE  RoomInv' /\ (Room!Next \/ UNCHANGED <<Members, Hears>>)
  BY DEF Room!vars, Members, Hears
<1>1. CASE HandleLeft \/ ReadFails
  BY <1>1, RemoveRoom DEF HandleLeft, ReadFails
<1>2. CASE UNCHANGED vars
  <2>1. TableExact'
    BY <1>2, NextTable DEF RoomInv
  <2>2. conn' = conn /\ users' = users /\ client' = client /\ fds' = fds
    BY <1>2 DEF vars, kernelVars
  <2>3. \A f \in Fds : Wants(f)' <=> Wants(f)
    BY <2>2, SameWants DEF user_count
  <2> QED BY <2>1, <2>2, <2>3, Quiet
<1>3. ASSUME NEW c \in Clients, Accept(c) \/ Refuse(c)
      PROVE  RoomInv' /\ (Room!Next \/ UNCHANGED <<Members, Hears>>)
  BY <1>3, AcceptRoom, RefuseRoom
<1>4. CASE People \/ Poll \/ HandleError
  BY <1>4, PeopleRoom, PollRoom, ErrorRoom
<1>5. CASE Read \/ Write
  BY <1>5, ReadRoom, WriteRoom
<1> QED BY <1>1, <1>2, <1>3, <1>4, <1>5 DEF Next, Server

(***************************************************************************)
(* What a member says all others get, unless somebody else speaks first or *)
(* it leaves, although what they get is read through a pointer into its    *)
(* buffer when their turn comes, and descriptors, entries and buffers are  *)
(* taken over meanwhile (CHAT_SERVER.c:99-104, 117-163): every step of the *)
(* server is a step of ChatRoom or none, for any number of clients and     *)
(* places.                                                                 *)
(***************************************************************************)
THEOREM ImplementsRoom == Spec => RoomSpec
<1>1. RoomInv /\ [Next]_vars => RoomInv' /\ [Room!Next]_(Room!vars)
  BY NextRoom
<1> QED BY <1>1, InitRoom, PTL DEF Spec, RoomSpec, Room!Spec
=============================================================================
