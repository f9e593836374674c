---------------------------- MODULE GuessProofs -----------------------------
(***************************************************************************)
(* The invariants of GuessGame, for any number of clients, desks and       *)
(* numbers: TableExact and SeatsKept whatever people type and whenever,    *)
(* GameAgreed and TurnHandedOn as long as they have waited for the answer  *)
(* to each line (haste = 0).                                               *)
(***************************************************************************)
EXTENDS GuessGame, FiniteSetTheorems, WellFoundedInduction, TLAPS

\* A set of numbers that is not empty has a least one.
LEMMA Least == ASSUME NEW S \in SUBSET Nat, S # {}
               PROVE  \E x \in S : \A y \in S : x <= y
<1>1. IsWellFoundedOn(OpToRel(<, Nat), Nat)
  BY NatLessThanWellFounded
<1>2. PICK x \in S : \A y \in S : ~(<<y, x>> \in OpToRel(<, Nat))
  BY <1>1, WFMin
<1>3. \A y \in S : ~(y < x)
  BY <1>2 DEF OpToRel
<1> QED BY <1>3

LEMMA Sizes == /\ MAX_USER \in Nat /\ MAX_DESK \in Nat /\ MAX_NUM \in Nat /\ MAX_NUM > 0
               /\ DESK_MAXUSER = 2 /\ Desks \subseteq Nat
BY GuessAssumption DEF MAX_USER, Desks

\* The loop goes on at an entry with an event, or ends.
LEMMA GoesOn ==
    ASSUME NEW table, NEW k \in Nat, k > 0, GoOn(table, k)
    PROVE  \/ i' = InPoll
           \/ i' \in k..MAX_USER /\ table[i'].revents \notin {"none", "ERR"}
<1> DEFINE todo == {j \in k..MAX_USER : table[j].revents \notin {"none", "ERR"}}
<1> USE Sizes
<1>1. CASE todo = {}
  BY <1>1 DEF GoOn
<1>2. CASE todo # {}
  <2>1. todo \in SUBSET Nat
    OBVIOUS
  <2>2. \E j \in todo : \A m \in todo : j <= m
    BY <1>2, <2>1, Least
  <2>3. i' \in todo
    BY <1>2, <2>2 DEF GoOn
  <2> QED BY <2>3
<1> QED BY <1>1, <1>2

(***************************************************************************)
(* The table.  What an event of an entry says of its client has to be true *)
(* when its turn comes: an "IN" is for something that can be read, and a   *)
(* "RDHUP" for a connection that is not open any more.                     *)
(***************************************************************************)
Exact == /\ {fds[j].fd : j \in 1..user_counter} = {c \in Clients : peer[c] # "none"}
         /\ \A j, k \in 1..user_counter : fds[j].fd = fds[k].fd => j = k
         /\ \A k \in (user_counter + 1)..MAX_USER : fds[k].fd = Null

\* accept() is called for somebody, and the place of the new entry has no event.
Listens == i = 0 => /\ backlog > 0
                    /\ \A k \in (user_counter + 1)..MAX_USER : fds[k].revents = "none"

IsSo(event, c) == /\ event = "IN"    => out[c] # <<>>
                  /\ event = "RDHUP" => peer[c] # "open"

EventTrue == \A j \in 1..MAX_USER :
                fds[j].fd # Null => IsSo(fds[j].revents, fds[j].fd)

Requests(c) == \A k \in 1..Len(out[c]) : /\ out[c][k][1] \in 1..5
                                         /\ out[c][k][2] \in Texts(out[c][k][1])

NoCrowd == \A d \in Desks : desks[d].num <= DESK_MAXUSER

TableInv == /\ TypeOK
            /\ ~ruined => /\ Exact /\ Listens /\ EventTrue /\ NoCrowd
                          /\ \A c \in Clients : Requests(c)

Desk == [num : 0..(DESK_MAXUSER + 1), seat : [{1, 2} -> Clients \cup {Null, "unset"}],
         is_playing : BOOLEAN, min : 0..MAX_NUM, max : 0..MAX_NUM, ans : 0..(MAX_NUM - 1)]
Entry == [fd : Clients \cup {Null}, revents : {"none", "ERR", "RDHUP", "IN"}]
Peers == {"none", "open", "ended", "reset", "gone", "broken"}

LEMMA InitTable == Init => TableInv
<1> SUFFICES ASSUME Init PROVE TableInv
  OBVIOUS
<1> USE GuessAssumption, Sizes
<1>1. TypeOK
  <2>1. fds \in [1..MAX_USER -> Entry] /\ user_counter \in 0..MAX_USER
    BY DEF Init, Entry
  <2>2. NewDesk \in Desk
    <3>1. <<"unset", "unset">> \in [1..2 -> Clients \cup {Null, "unset"}]
      OBVIOUS
    <3>2. 1..2 = {1, 2}
      OBVIOUS
    <3> QED BY <3>1, <3>2 DEF NewDesk, Desk
  <2>3. desks \in [Desks -> Desk]
    BY <2>2 DEF Init
  <2>4. i \in InPoll..MAX_USER
    BY DEF Init, InPoll
  <2>5. /\ out \in [Clients -> Seq(Lines)] /\ in \in [Clients -> Seq(Messages)]
    <3>1. <<>> \in Seq(Lines) /\ <<>> \in Seq(Messages)
      OBVIOUS
    <3> QED BY <3>1 DEF Init
  <2>6. status \in [Clients -> 1..5] /\ can_guess \in [Clients -> BOOLEAN]
    BY DEF Init
  <2>7. desk_sub \in [Clients -> Desks \cup {Null}] /\ backlog \in 0..MaxBacklog
    BY DEF Init
  <2>8. peer \in [Clients -> Peers] /\ ruined \in BOOLEAN
    BY DEF Init, Peers
  <2>9. haste \in 0..MaxHaste
    BY DEF Init
  <2> QED BY <2>1, <2>3, <2>4, <2>5, <2>6, <2>7, <2>8, <2>9 DEF TypeOK, Desk, Entry, Peers
<1>2. Exact
  <2>1. user_counter = 0 /\ \A c \in Clients : peer[c] = "none"
    BY DEF Init
  <2>2. {fds[j].fd : j \in 1..user_counter} = {}
    BY <2>1
  <2>3. \A k \in 1..MAX_USER : fds[k].fd = Null
    BY DEF Init
  <2> QED BY <2>1, <2>2, <2>3 DEF Exact
<1>3. Listens /\ EventTrue
  BY DEF Init, Listens, EventTrue, InPoll
<1>4. NoCrowd /\ \A c \in Clients : Requests(c)
  BY DEF Init, NoCrowd, Requests, NewDesk
<1> QED BY <1>1, <1>2, <1>3, <1>4 DEF TableInv

(***************************************************************************)
(* What the server sends reaches connections, and makes none and ends none *)
(* for the table.                                                          *)
(***************************************************************************)
GoodNet(net) == /\ net.peer \in [Clients -> Peers] /\ net.in \in [Clients -> Seq(Messages)]
                /\ net.killed \in BOOLEAN
                /\ \A c \in Clients : /\ net.peer[c] = "none" <=> peer[c] = "none"
                                      /\ net.peer[c] = "open" <=> peer[c] = "open"

LEMMA NoneSent == TypeOK => GoodNet(Net)
BY DEF TypeOK, GoodNet, Net, Peers

LEMMA SendGood == ASSUME NEW net, GoodNet(net), NEW C, NEW msg \in Messages \cup Printed
                  PROVE  GoodNet(Send(net, C, msg))
<1> DEFINE sent == Send(net, C, msg)
<1>1. sent.peer = [c \in Clients |-> IF c \in C /\ net.peer[c] = "reset" THEN "gone"
                                                                         ELSE net.peer[c]]
  BY DEF Send
<1>2. sent.in = [c \in Clients |-> IF c \in C /\ net.peer[c] = "open" /\ msg \notin Printed
                                     THEN Append(net.in[c], msg) ELSE net.in[c]]
  BY DEF Send
<1>3. sent.killed \in BOOLEAN
  BY DEF Send, GoodNet
<1>4. sent.in \in [Clients -> Seq(Messages)]
  <2>1. \A c \in Clients : net.in[c] \in Seq(Messages)
    BY DEF GoodNet
  <2>2. ASSUME NEW c \in Clients, msg \notin Printed
        PROVE  Append(net.in[c], msg) \in Seq(Messages)
    BY <2>1, <2>2
  <2> QED BY <1>2, <2>1, <2>2
<1>5. sent.peer \in [Clients -> Peers]
  BY <1>1 DEF GoodNet, Peers
<1>6. ASSUME NEW c \in Clients
      PROVE  /\ sent.peer[c] = "none" <=> peer[c] = "none"
             /\ sent.peer[c] = "open" <=> peer[c] = "open"
  <2>1. sent.peer[c] = IF c \in C /\ net.peer[c] = "reset" THEN "gone" ELSE net.peer[c]
    BY <1>1
  <2> HIDE DEF sent
  <2> QED BY <2>1 DEF GoodNet
<1> HIDE DEF sent
<1>7. GoodNet(sent)
  BY <1>3, <1>4, <1>5, <1>6 DEF GoodNet
<1> QED BY <1>7 DEF sent
-----------------------------------------------------------------------------
LEMMA FdTyped == TypeOK => \A j \in 1..MAX_USER : fds[j].fd \in Clients \cup {Null}
BY DEF TypeOK

\* A step that leaves the table and the desks alone.
LEMMA SameTable ==
    ASSUME TableInv, TypeOK', ruined' = ruined,
           fds' = fds, user_counter' = user_counter, i' = i, desks' = desks,
           i = 0 => backlog' >= backlog,
           \A c \in Clients : peer'[c] = "none" <=> peer[c] = "none",
           \A c \in Clients : peer'[c] = "open" => peer[c] = "open",
           \A c \in Clients : out[c] # <<>> => out'[c] # <<>>,
           ~ruined => \A c \in Clients : Requests(c)'
    PROVE  TableInv'
<1> SUFFICES ASSUME ~ruined
             PROVE  Exact' /\ Listens' /\ EventTrue' /\ NoCrowd'
  BY DEF TableInv
<1>1. Exact /\ Listens /\ EventTrue /\ NoCrowd
  BY DEF TableInv
<1>2. Exact'
  <2>1. {c \in Clients : peer'[c] # "none"} = {c \in Clients : peer[c] # "none"}
    OBVIOUS
  <2> QED BY <1>1, <2>1 DEF Exact
<1>3. Listens'
  BY <1>1, GuessAssumption DEF Listens, TableInv, TypeOK
<1>4. EventTrue'
  <2> SUFFICES ASSUME NEW j \in 1..MAX_USER, fds[j].fd # Null
               PROVE  /\ fds[j].revents = "IN"    => out'[fds[j].fd] # <<>>
                      /\ fds[j].revents = "RDHUP" => peer'[fds[j].fd] # "open"
    BY DEF EventTrue, IsSo
  <2>1. fds[j].fd \in Clients
    BY FdTyped DEF TableInv
  <2>2. /\ fds[j].revents = "IN"    => out[fds[j].fd] # <<>>
        /\ fds[j].revents = "RDHUP" => peer[fds[j].fd] # "open"
    BY <1>1 DEF EventTrue, IsSo
  <2> QED BY <2>1, <2>2
<1> QED BY <1>1, <1>2, <1>3, <1>4 DEF NoCrowd

LEMMA TextsNat == ASSUME NEW s, NEW text \in Texts(s)  PROVE  text \in Nat
BY Sizes DEF Texts

LEMMA TypeTable == ASSUME TableInv, NEW c \in Clients, NEW text, Type(c, text)
                   PROVE  TableInv'
<1> DEFINE line == <<status[c], text>>
<1>1. TypeOK /\ status[c] \in 1..5 /\ text \in Texts(status[c])
  BY DEF TableInv, TypeOK, Type
<1>2. out' = [out EXCEPT ![c] = Append(@, line)]
  BY DEF Type
<1>3. line \in Lines /\ line[1] = status[c] /\ line[2] = text
  BY <1>1, TextsNat DEF Lines
<1> HIDE DEF line
<1>4. out' \in [Clients -> Seq(Lines)]
  BY <1>1, <1>2, <1>3 DEF TypeOK
<1>5. can_guess' \in [Clients -> BOOLEAN]
  BY <1>1 DEF Type, TypeOK
<1>6. TypeOK'
  <2>1. haste' \in 0..MaxHaste
    BY <1>1, GuessAssumption DEF Type, TypeOK
  <2> QED BY <1>1, <1>4, <1>5, <2>1 DEF Type, TypeOK, serverVars
<1>7. ASSUME NEW b \in Clients, out[b] # <<>>  PROVE out'[b] # <<>>
  <2>1. out[b] \in Seq(Lines) /\ out[c] \in Seq(Lines)
    BY <1>1 DEF TypeOK
  <2>2. out'[b] = IF b = c THEN Append(out[c], line) ELSE out[b]
    BY <1>1, <1>2 DEF TypeOK
  <2>3. Append(out[c], line) # <<>>
    BY <1>3, <2>1
  <2> QED BY <1>7, <2>2, <2>3
<1>8. ASSUME ~ruined, NEW b \in Clients  PROVE Requests(b)'
  <2>1. Requests(b) /\ out[b] \in Seq(Lines)
    BY <1>1, <1>8 DEF TableInv, TypeOK
  <2>2. CASE b = c
    <3> SUFFICES ASSUME NEW k \in 1..Len(out'[c])
                 PROVE  /\ out'[c][k][1] \in 1..5
                        /\ out'[c][k][2] \in Texts(out'[c][k][1])
      BY <2>2 DEF Requests
    <3>1. out'[c] = Append(out[c], line) /\ Len(out'[c]) = Len(out[c]) + 1
      BY <1>1, <1>2, <2>1, <2>2 DEF TypeOK
    <3>2. CASE k \in 1..Len(out[c])
      <4>1. out'[c][k] = out[c][k]
        BY <2>1, <2>2, <3>1, <3>2
      <4> QED BY <2>1, <2>2, <3>2, <4>1 DEF Requests
    <3>3. CASE k = Len(out[c]) + 1
      <4>1. out'[c][k] = line
        BY <2>1, <2>2, <3>1, <3>3
      <4> QED BY <1>1, <1>3, <4>1
    <3> QED BY <2>1, <2>2, <3>1, <3>2, <3>3
  <2>3. CASE b # c
    <3>1. out'[b] = out[b]
      BY <1>1, <1>2, <2>3 DEF TypeOK
    <3> QED BY <2>1, <3>1 DEF Requests
  <2> QED BY <2>2, <2>3
<1> QED BY <1>1, <1>6, <1>7, <1>8, SameTable DEF Type, serverVars, TypeOK

LEMMA SkipTable == ASSUME TableInv, NEW c \in Clients, Skip(c)
                   PROVE  TableInv'
<1>1. TypeOK /\ (~ruined => \A b \in Clients : Requests(b))
  BY DEF TableInv
<1>2. status' \in [Clients -> 1..5] /\ haste' \in 0..MaxHaste
  <2>0. status \in [Clients -> 1..5] /\ status[c] < 5
    BY <1>1 DEF Skip, TypeOK
  <2>1. status[c] + 1 \in 1..5
    BY <2>0
  <2>2. haste' \in 0..MaxHaste
    BY <1>1, GuessAssumption DEF Skip, TypeOK
  <2> QED BY <1>1, <2>1, <2>2 DEF Skip, TypeOK
<1>3. TypeOK'
  BY <1>1, <1>2 DEF Skip, TypeOK, serverVars
<1>4. ~ruined => \A b \in Clients : Requests(b)'
  BY <1>1 DEF Skip, Requests
<1>5. backlog' >= backlog
  BY <1>1, GuessAssumption DEF Skip, TypeOK
<1> QED BY <1>3, <1>4, <1>5, SameTable DEF Skip, serverVars

LEMMA PeopleTable == ASSUME TableInv, People  PROVE  TableInv'
<1>1. TypeOK /\ (~ruined => \A c \in Clients : Requests(c))
  BY DEF TableInv
<1>2. CASE Connect
  <2>1. TypeOK'
    <3>1. backlog' = backlog + 1 /\ backlog < MaxBacklog
      BY <1>2 DEF Connect
    <3>2. backlog' \in 0..MaxBacklog
      BY <1>1, <3>1, GuessAssumption DEF TypeOK
    <3> QED BY <1>1, <1>2, <3>2 DEF Connect, TypeOK, serverVars, clientVars
  <2>2. ~ruined => \A c \in Clients : Requests(c)'
    BY <1>1, <1>2 DEF Connect, Requests
  <2>3. backlog' >= backlog
    BY <1>1, <1>2, GuessAssumption DEF Connect, TypeOK
  <2> QED BY <1>2, <2>1, <2>2, <2>3, SameTable DEF Connect, serverVars
<1>3. ASSUME NEW c \in Clients, ReadMessage(c)
      PROVE  TableInv'
  <2>1. in[c] \in Seq(Messages) /\ in[c] # <<>>
    BY <1>1, <1>3 DEF TypeOK, ReadMessage
  <2>2. Tail(in[c]) \in Seq(Messages)
    BY <2>1
  <2>3. in' \in [Clients -> Seq(Messages)]
    BY <1>1, <1>3, <2>2 DEF TypeOK, ReadMessage
  <2>4. status' \in [Clients -> 1..5] /\ can_guess' \in [Clients -> BOOLEAN]
    BY <1>1, <1>3 DEF TypeOK, ReadMessage
  <2>5. TypeOK'
    BY <1>1, <1>3, <2>3, <2>4 DEF ReadMessage, TypeOK, serverVars
  <2>6. ~ruined => \A b \in Clients : Requests(b)'
    BY <1>1, <1>3 DEF ReadMessage, Requests
  <2>7. backlog' >= backlog
    BY <1>1, <1>3, GuessAssumption DEF ReadMessage, TypeOK
  <2> QED BY <1>3, <2>5, <2>6, <2>7, SameTable DEF ReadMessage, serverVars
<1>4. ASSUME NEW c \in Clients, NEW text, Type(c, text)
      PROVE  TableInv'
  BY <1>4, TypeTable
<1>6. ASSUME NEW c \in Clients, Skip(c)
      PROVE  TableInv'
  BY <1>6, SkipTable
<1>5. ASSUME NEW c \in Clients, NEW how \in Ends, Leave(c, how)
      PROVE  TableInv'
  <2>1. peer[c] # "none" /\ how \in Peers \ {"none"}
    BY <1>5 DEF Leave, Peers
  <2>2. peer' \in [Clients -> Peers] /\ \A b \in Clients : peer'[b] = "none" <=> peer[b] = "none"
    BY <1>1, <1>5, <2>1 DEF Leave, TypeOK, Peers
  <2>3. in' \in [Clients -> Seq(Messages)]
    <3>1. <<>> \in Seq(Messages)
      OBVIOUS
    <3> QED BY <1>1, <1>5, <3>1 DEF Leave, TypeOK
  <2>4. status' \in [Clients -> 1..5] /\ can_guess' \in [Clients -> BOOLEAN]
    BY <1>1, <1>5 DEF Leave, TypeOK
  <2>5. TypeOK'
    BY <1>1, <1>5, <2>2, <2>3, <2>4 DEF Leave, TypeOK, serverVars, Peers
  <2>6. ~ruined => \A b \in Clients : Requests(b)'
    BY <1>1, <1>5 DEF Leave, Requests
  <2>7. backlog' >= backlog
    BY <1>1, <1>5, GuessAssumption DEF Leave, TypeOK
  <2>8. \A b \in Clients : peer'[b] = "open" => peer[b] = "open"
    BY <1>1, <1>5 DEF Leave, TypeOK
  <2> QED BY <1>5, <2>2, <2>5, <2>6, <2>7, <2>8, SameTable DEF Leave, serverVars
<1> QED BY <1>2, <1>3, <1>4, <1>5, <1>6 DEF People
-----------------------------------------------------------------------------
LEMMA PollTable == ASSUME TableInv, Poll  PROVE  TableInv'
<1> DEFINE table == [j \in 1..MAX_USER |-> [fds[j] EXCEPT !.revents = Revents(fds[j].fd)]]
<1> USE Sizes
<1>1. TypeOK /\ ~ruined /\ Exact /\ NoCrowd /\ \A c \in Clients : Requests(c)
  BY DEF TableInv, Poll
<1>2. \A j \in 1..MAX_USER : /\ table[j] \in Entry /\ table[j].fd = fds[j].fd
                             /\ table[j].revents = Revents(fds[j].fd)
  <2> SUFFICES ASSUME NEW j \in 1..MAX_USER
               PROVE  /\ table[j] \in Entry /\ table[j].fd = fds[j].fd
                      /\ table[j].revents = Revents(fds[j].fd)
    OBVIOUS
  <2>1. Revents(fds[j].fd) \in {"none", "ERR", "RDHUP", "IN"}
    BY DEF Revents
  <2>2. fds[j] \in Entry
    BY <1>1 DEF TypeOK, Entry
  <2> QED BY <2>1, <2>2 DEF Entry
<1>3. fds' = table /\ IF backlog > 0 THEN i' = 0 ELSE GoOn(table, 1)
  BY DEF Poll
<1>4. table \in [1..MAX_USER -> Entry]
  BY <1>2
<1>5. (backlog > 0 /\ i' = 0) \/ i' = InPoll \/ i' \in 1..MAX_USER
  BY <1>3, GoesOn
<1> HIDE DEF table
<1>6. TypeOK'
  <2>1. i' \in InPoll..MAX_USER
    BY <1>5 DEF InPoll
  <2> QED BY <1>1, <1>3, <1>4, <2>1 DEF Poll, TypeOK, Entry, clientVars
<1>7. Exact'
  <2>0. user_counter \in 0..MAX_USER
    BY <1>1 DEF TypeOK
  <2>1. \A j \in 1..MAX_USER : fds'[j].fd = fds[j].fd
    BY <1>2, <1>3
  <2>2. {fds'[j].fd : j \in 1..user_counter} = {fds[j].fd : j \in 1..user_counter}
    BY <2>0, <2>1
  <2> QED BY <1>1, <2>0, <2>1, <2>2 DEF Exact, Poll
<1>8. Listens'
  <2>1. i' = 0 => backlog' > 0
    BY <1>5 DEF InPoll, Poll
  <2>2. ASSUME NEW k \in (user_counter + 1)..MAX_USER  PROVE fds'[k].revents = "none"
    <3>1. k \in 1..MAX_USER /\ fds[k].fd = Null
      BY <1>1 DEF Exact, TypeOK
    <3> QED BY <1>2, <1>3, <3>1 DEF Revents
  <2>3. user_counter' = user_counter
    BY DEF Poll
  <2> QED BY <2>1, <2>2, <2>3 DEF Listens
<1>9. EventTrue'
  <2> SUFFICES ASSUME NEW j \in 1..MAX_USER, fds'[j].fd # Null
               PROVE  /\ fds'[j].revents = "IN"    => out[fds'[j].fd] # <<>>
                      /\ fds'[j].revents = "RDHUP" => peer[fds'[j].fd] # "open"
    BY DEF EventTrue, IsSo, Poll
  <2>1. fds'[j].fd = fds[j].fd /\ fds'[j].revents = Revents(fds[j].fd)
    BY <1>2, <1>3
  <2> QED BY <2>1 DEF Revents
<1>10. NoCrowd' /\ \A c \in Clients : Requests(c)'
  BY <1>1 DEF Poll, NoCrowd, Requests
<1> QED BY <1>6, <1>7, <1>8, <1>9, <1>10 DEF TableInv

LEMMA FullTable == ASSUME TableInv, Full  PROVE  TableInv'
<1>1. TypeOK /\ ~ruined /\ Exact /\ EventTrue /\ NoCrowd /\ \A c \in Clients : Requests(c)
  BY DEF TableInv, Full
<1>2. i' = InPoll \/ i' \in 1..MAX_USER
  BY GoesOn DEF Full
<1>3. TypeOK'
  <2>1. i' \in InPoll..MAX_USER
    BY <1>2, Sizes DEF InPoll
  <2> QED BY <1>1, <2>1 DEF Full, TypeOK, clientVars
<1>4. Exact' /\ EventTrue' /\ NoCrowd'
  BY <1>1 DEF Full, Exact, EventTrue, IsSo, NoCrowd
<1>5. \A c \in Clients : Requests(c)'
  BY <1>1 DEF Full, Requests
<1>6. Listens'
  BY <1>2 DEF Listens, InPoll
<1> QED BY <1>3, <1>4, <1>5, <1>6 DEF TableInv

LEMMA AcceptTable == ASSUME TableInv, NEW c \in Clients, Accept(c)  PROVE  TableInv'
<1> DEFINE n == user_counter + 1
<1> USE Sizes
<1>1. /\ TypeOK /\ ~ruined /\ Exact /\ Listens /\ EventTrue /\ NoCrowd
      /\ \A b \in Clients : Requests(b)
  BY DEF TableInv, Accept
<1>2. /\ n \in 1..MAX_USER /\ user_counter' = n /\ user_counter \in Nat
      /\ peer[c] = "none" /\ i = 0
      /\ fds' = [fds EXCEPT ![n].fd = c] /\ peer' = [peer EXCEPT ![c] = "open"]
  BY <1>1 DEF Accept, TypeOK
<1>3. i' = InPoll \/ i' \in 1..MAX_USER
  BY GoesOn DEF Accept
<1> HIDE DEF n
<1>4. /\ fds' \in [1..MAX_USER -> Entry]
      /\ fds'[n].fd = c /\ fds'[n].revents = fds[n].revents
      /\ \A j \in 1..MAX_USER : j # n => fds'[j] = fds[j]
  <2>1. fds \in [1..MAX_USER -> Entry]
    BY <1>1 DEF TypeOK, Entry
  <2> QED BY <1>2, <2>1 DEF Entry
<1>5. TypeOK'
  <2>1. i' \in InPoll..MAX_USER
    BY <1>3 DEF InPoll
  <2>2. backlog' \in 0..MaxBacklog
    BY <1>1, <1>2, GuessAssumption DEF Accept, Listens, TypeOK
  <2>3. desk_sub' \in [Clients -> Desks \cup {Null}] /\ peer' \in [Clients -> Peers]
    BY <1>1, <1>2 DEF Accept, TypeOK, Peers
  <2>4. user_counter' \in 0..MAX_USER
    BY <1>2
  <2>5. UNCHANGED <<desks, ruined, out, in, clientVars>>
    BY DEF Accept
  <2> QED BY <1>1, <1>4, <2>1, <2>2, <2>3, <2>4, <2>5 DEF TypeOK, Entry, Peers, clientVars
<1>6. Exact'
  <2>1. \A j \in 1..user_counter : fds'[j].fd = fds[j].fd /\ fds[j].fd # c
    <3> SUFFICES ASSUME NEW j \in 1..user_counter
                 PROVE  fds'[j].fd = fds[j].fd /\ fds[j].fd # c
      OBVIOUS
    <3>1. j \in 1..MAX_USER /\ j # n
      BY <1>2 DEF n
    <3>2. peer[fds[j].fd] # "none"
      BY <1>1 DEF Exact
    <3> QED BY <1>2, <1>4, <3>1, <3>2
  <2>2. 1..n = (1..user_counter) \cup {n}
    BY <1>2 DEF n
  <2>3. {fds'[j].fd : j \in 1..n} = {fds[j].fd : j \in 1..user_counter} \cup {c}
    BY <1>4, <2>1, <2>2
  <2>4. {b \in Clients : peer'[b] # "none"} = {b \in Clients : peer[b] # "none"} \cup {c}
    BY <1>1, <1>2 DEF TypeOK
  <2>5. \A j, k \in 1..n : fds'[j].fd = fds'[k].fd => j = k
    BY <1>1, <1>4, <2>1, <2>2 DEF Exact
  <2>6. \A k \in (n + 1)..MAX_USER : fds'[k].fd = Null
    <3> SUFFICES ASSUME NEW k \in (n + 1)..MAX_USER PROVE fds'[k].fd = Null
      OBVIOUS
    <3>1. k \in (user_counter + 1)..MAX_USER /\ k \in 1..MAX_USER /\ k # n
      BY <1>2 DEF n
    <3> QED BY <1>1, <1>4, <3>1 DEF Exact
  <2> QED BY <1>1, <1>2, <2>3, <2>4, <2>5, <2>6 DEF Exact
<1>7. Listens'
  BY <1>3 DEF Listens, InPoll
<1>8. EventTrue'
  <2> SUFFICES ASSUME NEW j \in 1..MAX_USER, fds'[j].fd # Null
               PROVE  /\ fds'[j].revents = "IN"    => out[fds'[j].fd] # <<>>
                      /\ fds'[j].revents = "RDHUP" => peer'[fds'[j].fd] # "open"
    BY DEF EventTrue, IsSo, Accept
  <2>1. CASE j = n
    <3>1. n \in (user_counter + 1)..MAX_USER
      BY <1>2 DEF n
    <3>2. fds'[j].revents = "none"
      BY <1>1, <1>2, <1>4, <2>1, <3>1 DEF Listens
    <3> QED BY <3>2
  <2>2. CASE j # n
    <3>1. fds'[j] = fds[j] /\ fds[j].fd \in Clients
      BY <1>1, <1>4, <2>2 DEF TypeOK
    <3>2. j \in 1..user_counter
      BY <1>1, <1>2, <3>1, GuessAssumption DEF Exact
    <3>3. peer[fds[j].fd] # "none"
      BY <1>1, <3>2 DEF Exact
    <3>4. peer'[fds[j].fd] = peer[fds[j].fd]
      BY <1>1, <1>2, <3>1, <3>3 DEF TypeOK
    <3>5. IsSo(fds[j].revents, fds[j].fd)
      BY <1>1, <3>1, GuessAssumption DEF EventTrue
    <3> QED BY <3>1, <3>4, <3>5 DEF IsSo
  <2> QED BY <2>1, <2>2
<1>9. NoCrowd' /\ \A b \in Clients : Requests(b)'
  BY <1>1 DEF Accept, NoCrowd, Requests
<1> QED BY <1>5, <1>6, <1>7, <1>8, <1>9 DEF TableInv

LEMMA SameFds == ASSUME NEW n, \A j \in 1..n : fds'[j].fd = fds[j].fd
                 PROVE  {fds'[j].fd : j \in 1..n} = {fds[j].fd : j \in 1..n}
OBVIOUS

NetTyped == /\ peer \in [Clients -> Peers] /\ in \in [Clients -> Seq(Messages)]
            /\ ruined \in BOOLEAN

LEMMA DoneEntry == ASSUME TypeOK, i \in 1..MAX_USER
                   PROVE  /\ Done \in [1..MAX_USER -> Entry] /\ Done[i].revents = "none"
                          /\ \A j \in 1..MAX_USER : /\ Done[j].fd = fds[j].fd
                                                    /\ j # i => Done[j] = fds[j]
<1>1. fds \in [1..MAX_USER -> Entry]
  BY DEF TypeOK, Entry
<1> QED BY <1>1 DEF Done, Entry

\* An "IN" is dealt with: what the handler writes besides does not touch the table.
LEMMA DealtTable ==
    ASSUME TableInv, Handle("IN"), fds' = Done, user_counter' = user_counter,
           out' \in [Clients -> Seq(Lines)],
           \A b \in Clients : out'[b] = out[b] \/ (b = fds[i].fd /\ out'[b] = <<>>),
           desks' \in [Desks -> Desk], desk_sub' \in [Clients -> Desks \cup {Null}],
           NetTyped', \A b \in Clients : peer'[b] = "none" <=> peer[b] = "none",
           \A b \in Clients : peer'[b] = "open" <=> peer[b] = "open",
           ~ruined' => NoCrowd'
    PROVE  TableInv'
<1> USE Sizes
<1>1. TypeOK /\ ~ruined /\ Exact /\ EventTrue /\ \A c \in Clients : Requests(c)
  BY DEF TableInv, Handle
<1>2. i \in 1..MAX_USER /\ user_counter \in 0..MAX_USER
  BY <1>1 DEF Handle, TypeOK, InPoll
<1>3. i' = InPoll \/ i' \in 1..MAX_USER
  <2>1. i + 1 \in Nat /\ i + 1 > 0 /\ GoOn(fds, i + 1)
    BY <1>2 DEF Handle
  <2>2. i' = InPoll \/ i' \in (i + 1)..MAX_USER
    BY <2>1, GoesOn
  <2> QED BY <1>2, <2>2
<1>4. /\ fds' \in [1..MAX_USER -> Entry] /\ fds'[i].revents = "none"
      /\ \A j \in 1..MAX_USER : /\ fds'[j].fd = fds[j].fd
                                /\ j # i => fds'[j] = fds[j]
  BY <1>1, <1>2, DoneEntry
<1>5. TypeOK'
  <2>1. i' \in InPoll..MAX_USER
    BY <1>3 DEF InPoll
  <2>2. UNCHANGED <<backlog, status, can_guess, haste>>
    BY DEF Handle, clientVars
  <2> QED BY <1>1, <1>2, <1>4, <2>1, <2>2 DEF TypeOK, NetTyped, Entry, Desk, Peers
<1>6. Exact'
  <2>0. \A j \in 1..user_counter : fds'[j].fd = fds[j].fd
    <3>1. 1..user_counter \subseteq 1..MAX_USER
      BY <1>2
    <3> QED BY <1>4, <3>1
  <2>1. {fds'[j].fd : j \in 1..user_counter} = {fds[j].fd : j \in 1..user_counter}
    BY <2>0, SameFds
  <2>2. {c \in Clients : peer'[c] # "none"} = {c \in Clients : peer[c] # "none"}
    OBVIOUS
  <2>3. \A j, k \in 1..user_counter : fds'[j].fd = fds'[k].fd => j = k
    BY <1>1, <1>2, <1>4 DEF Exact
  <2>4. \A k \in (user_counter + 1)..MAX_USER : fds'[k].fd = Null
    BY <1>1, <1>2, <1>4 DEF Exact
  <2> QED BY <1>1, <2>1, <2>2, <2>3, <2>4 DEF Exact
<1>7. Listens'
  BY <1>3 DEF Listens, InPoll
<1>8. EventTrue'
  <2> SUFFICES ASSUME NEW j \in 1..MAX_USER, fds'[j].fd # Null, j # i
               PROVE  /\ fds'[j].revents = "IN"    => out'[fds'[j].fd] # <<>>
                      /\ fds'[j].revents = "RDHUP" => peer'[fds'[j].fd] # "open"
    BY <1>4 DEF EventTrue, IsSo
  <2>1. fds'[j] = fds[j] /\ fds[j].fd \in Clients
    BY <1>1, <1>4 DEF TypeOK
  <2>2. IsSo(fds[j].revents, fds[j].fd)
    BY <1>1, <2>1 DEF EventTrue
  <2>3. fds[j].fd # fds[i].fd
    <3>1. ASSUME NEW k \in 1..MAX_USER, fds[k].fd # Null  PROVE k \in 1..user_counter
      BY <1>1, <1>2, <3>1 DEF Exact
    <3> QED BY <1>1, <1>2, <2>1, <3>1, GuessAssumption DEF Exact
  <2> QED BY <2>1, <2>2, <2>3 DEF IsSo
<1>9. ASSUME NEW b \in Clients  PROVE Requests(b)'
  <2>1. CASE out'[b] = out[b]
    BY <1>1, <2>1 DEF Requests
  <2>2. CASE out'[b] = <<>>
    <3>1. Len(out'[b]) = 0
      BY <2>2
    <3> QED BY <3>1 DEF Requests
  <2> QED BY <2>1, <2>2
<1> QED BY <1>5, <1>6, <1>7, <1>8, <1>9 DEF TableInv

LEMMA ReadTable ==
    ASSUME TableInv, NEW c \in Clients, Read(c),
           desks' \in [Desks -> Desk], desk_sub' \in [Clients -> Desks \cup {Null}],
           NEW net, GoodNet(net), NEW ruins \in BOOLEAN, Sent(net, ruins),
           ruins \/ NoCrowd'
    PROVE  TableInv'
<1>1. TypeOK
  BY DEF TableInv
<1>2. out' \in [Clients -> Seq(Lines)]
  <2>1. <<>> \in Seq(Lines)
    OBVIOUS
  <2> QED BY <1>1, <2>1 DEF Read, TypeOK
<1>3. \A b \in Clients : out'[b] = out[b] \/ (b = fds[i].fd /\ out'[b] = <<>>)
  BY <1>1 DEF Read, TypeOK
<1>4. /\ NetTyped' /\ (~ruined' => NoCrowd')
      /\ \A b \in Clients : peer'[b] = "none" <=> peer[b] = "none"
      /\ \A b \in Clients : peer'[b] = "open" <=> peer[b] = "open"
  BY DEF Sent, GoodNet, NetTyped
<1> QED BY <1>2, <1>3, <1>4, DealtTable DEF Read

\* What a client asked is there: the entry has an "IN" for it.
LEMMA Asked == ASSUME TableInv, NEW c \in Clients, Read(c)
               PROVE  /\ out[c] # <<>> /\ Request(c)[1] \in 1..5
                      /\ Request(c)[2] \in Texts(Request(c)[1])
<1>1. TypeOK /\ ~ruined /\ EventTrue /\ Requests(c)
  BY DEF TableInv, Read, Handle
<1>2. i \in 1..MAX_USER /\ fds[i].revents = "IN" /\ fds[i].fd = c
  BY <1>1, Sizes DEF Read, Handle, TypeOK, InPoll
<1>3. out[c] # <<>> /\ out[c] \in Seq(Lines)
  BY <1>1, <1>2, GuessAssumption DEF EventTrue, IsSo, TypeOK
<1>4. 1 \in 1..Len(out[c]) /\ Request(c) = out[c][1]
  BY <1>3 DEF Request
<1> QED BY <1>1, <1>3, <1>4 DEF Requests

LEMMA NobodyTable == ASSUME TableInv, ReadNobody  PROVE  TableInv'
<1>1. TypeOK /\ NoCrowd
  BY DEF TableInv, ReadNobody, Handle
<1>2. NoCrowd'
  BY <1>1 DEF ReadNobody, NoCrowd
<1>3. /\ desks \in [Desks -> Desk] /\ desk_sub \in [Clients -> Desks \cup {Null}]
      /\ out \in [Clients -> Seq(Lines)] /\ NetTyped
  BY <1>1 DEF TypeOK, NetTyped, Desk, Peers
<1>4. NetTyped'
  BY <1>3 DEF ReadNobody, NetTyped
<1> QED BY <1>2, <1>3, <1>4, DealtTable DEF ReadNobody
-----------------------------------------------------------------------------
\* One desk changes.
LEMMA DeskStep == ASSUME TypeOK, NEW d \in Desks, NEW new \in Desk,
                         desks' = [desks EXCEPT ![d] = new]
                  PROVE  /\ desks' \in [Desks -> Desk]
                         /\ NoCrowd /\ new.num <= DESK_MAXUSER => NoCrowd'
BY DEF TypeOK, Desk, NoCrowd

LEMMA SameDesks == ASSUME TableInv, ~ruined, UNCHANGED <<desks, desk_sub>>
                   PROVE  /\ desks' \in [Desks -> Desk] /\ NoCrowd'
                          /\ desk_sub' \in [Clients -> Desks \cup {Null}]
BY DEF TableInv, TypeOK, Desk, NoCrowd

\* The desk that PlayGame plays at.
LEMMA GameDesk == ASSUME TypeOK, NEW c \in Clients, desk_sub[c] # Null,
                         NEW ans \in 0..(MAX_NUM - 1)
                  PROVE  /\ desk_sub[c] \in Desks /\ Game(c, ans) \in Desk
                         /\ Game(c, ans).num = desks[desk_sub[c]].num
                         /\ Game(c, ans).seat = desks[desk_sub[c]].seat
<1>1. desk_sub[c] \in Desks /\ desks[desk_sub[c]] \in Desk
  BY DEF TypeOK, Desk
<1>2. 0 \in 0..MAX_NUM /\ MAX_NUM \in 0..MAX_NUM
  BY Sizes
<1> QED BY <1>1, <1>2 DEF Game, Desk

LEMMA ClearedDesk == ASSUME NEW desk \in Desk
                     PROVE  /\ Cleared(desk) \in Desk /\ Cleared(desk).num = 0
                            /\ Cleared(desk).seat = <<Null, Null>>
<1>1. <<Null, Null>> \in [{1, 2} -> Clients \cup {Null, "unset"}]
  <2>1. <<Null, Null>> \in [1..2 -> Clients \cup {Null, "unset"}]
    OBVIOUS
  <2>2. 1..2 = {1, 2}
    OBVIOUS
  <2> QED BY <2>1, <2>2
<1>2. 0 \in 0..MAX_NUM /\ MAX_NUM \in 0..MAX_NUM /\ 0 \in 0..(DESK_MAXUSER + 1)
  BY Sizes
<1> QED BY <1>1, <1>2 DEF Cleared, Desk

LEMMA AnswerTable ==
    ASSUME TableInv, NEW c \in Clients,
           \/ SendDeskMsg(c) \/ IgnoreMsg(c) \/ PlayNowhere(c)
           \/ AddToDeskRefused(c) \/ AddNowhere(c)
    PROVE  TableInv'
<1>1. Read(c) /\ ~ruined /\ TypeOK /\ UNCHANGED <<desks, desk_sub>>
  BY DEF SendDeskMsg, IgnoreMsg, AddToDeskRefused, AddNowhere, PlayNowhere, Guess, Read,
         Handle, TableInv
<1>2. /\ desks' \in [Desks -> Desk] /\ NoCrowd'
      /\ desk_sub' \in [Clients -> Desks \cup {Null}]
  BY <1>1, SameDesks
<1>3. GoodNet(Net) /\ \A msg \in Messages \cup Printed : GoodNet(Send(Net, {c}, msg))
  BY <1>1, NoneSent, SendGood
<1>4. \E net, ruins : GoodNet(net) /\ ruins \in BOOLEAN /\ Sent(net, ruins)
  <2>1. CASE SendDeskMsg(c)
    BY <1>3, <2>1 DEF SendDeskMsg, Messages
  <2>2. CASE AddToDeskRefused(c)
    BY <1>3, <2>2 DEF AddToDeskRefused, Printed
  <2>3. CASE PlayNowhere(c) \/ AddNowhere(c)
    BY <1>3, <2>3 DEF PlayNowhere, AddNowhere
  <2>4. CASE IgnoreMsg(c)
    <3>1. ruined' = ruined /\ ruined = FALSE /\ peer' = peer /\ in' = in
      BY <1>1, <2>4 DEF IgnoreMsg, TypeOK
    <3>2. Sent(Net, FALSE)
      BY <3>1 DEF Sent, Net
    <3> QED BY <1>3, <3>2
  <2> QED BY <2>1, <2>2, <2>3, <2>4
<1> QED BY <1>1, <1>2, <1>4, ReadTable

LEMMA MissTable ==
    ASSUME TableInv, NEW c \in Clients, NEW ans \in 0..(MAX_NUM - 1),
           PlayOutOfRange(c, ans) \/ PlayMiss(c, ans)
    PROVE  TableInv'
<1> DEFINE game == Game(c, ans)
           d == desk_sub[c]
           num == Request(c)[2]
<1>1. Read(c) /\ ~ruined /\ TypeOK /\ NoCrowd /\ d # Null
  BY DEF PlayOutOfRange, PlayMiss, Guess, Read, Handle, TableInv
<1>2. d \in Desks /\ game \in Desk /\ game.num <= DESK_MAXUSER
  BY <1>1, GameDesk DEF NoCrowd
<1>3. PICK new \in Desk : new.num = game.num /\ desks' = [desks EXCEPT ![d] = new]
  <2> HIDE DEF game
  <2>1. CASE PlayOutOfRange(c, ans)
    BY <1>2, <2>1 DEF PlayOutOfRange, game
  <2>2. CASE PlayMiss(c, ans)
    <3>1. num \in game.min..game.max
      BY <2>2 DEF PlayMiss, game
    <3>2. num \in 0..MAX_NUM
      BY <1>2, <3>1, Sizes DEF Desk
    <3>3. [game EXCEPT !.min = num] \in Desk /\ [game EXCEPT !.max = num] \in Desk
      BY <1>2, <3>2 DEF Desk
    <3>4. desks' = [desks EXCEPT ![d] = IF num < game.ans THEN [game EXCEPT !.min = num]
                                                          ELSE [game EXCEPT !.max = num]]
      BY <2>2 DEF PlayMiss, game
    <3> QED BY <1>2, <3>3, <3>4 DEF Desk
  <2> QED BY <2>1, <2>2
<1>4. desks' \in [Desks -> Desk] /\ NoCrowd'
  BY <1>1, <1>2, <1>3, DeskStep
<1>5. desk_sub' \in [Clients -> Desks \cup {Null}]
  BY <1>1 DEF PlayOutOfRange, PlayMiss, TypeOK
<1>6. \E net : GoodNet(net) /\ Sent(net, FALSE)
  <2>1. CASE PlayOutOfRange(c, ans)
    BY <1>1, <2>1, NoneSent, SendGood DEF PlayOutOfRange, Messages
  <2>2. CASE PlayMiss(c, ans)
    <3>1. GoodNet(Send(Net, Seated(d) \ {c}, "GAME"))
      BY <1>1, NoneSent, SendGood DEF Messages
    <3>2. GoodNet(Send(Send(Net, Seated(d) \ {c}, "GAME"), Seated(d), "RANGE"))
      BY <3>1, SendGood DEF Printed
    <3> QED BY <2>2, <3>2 DEF PlayMiss
  <2> QED BY <2>1, <2>2
<1> QED BY <1>1, <1>4, <1>5, <1>6, ReadTable

LEMMA HitTable ==
    ASSUME TableInv, NEW c \in Clients, NEW ans \in 0..(MAX_NUM - 1), PlayHit(c, ans)
    PROVE  TableInv'
<1> DEFINE game == Game(c, ans)
           d == desk_sub[c]
           here == Seated(d)
<1>1. Read(c) /\ ~ruined /\ TypeOK /\ NoCrowd /\ d # Null
  BY DEF PlayHit, Guess, Read, Handle, TableInv
<1>2. d \in Desks /\ game \in Desk
  BY <1>1, GameDesk
<1>3. desks' = [desks EXCEPT ![d] = Cleared(game)]
  BY DEF PlayHit
<1>4. Cleared(game) \in Desk /\ Cleared(game).num <= DESK_MAXUSER
  <2> HIDE DEF game
  <2> QED BY <1>2, ClearedDesk, Sizes
<1>5. desks' \in [Desks -> Desk] /\ NoCrowd'
  BY <1>1, <1>2, <1>3, <1>4, DeskStep
<1>6. desk_sub' \in [Clients -> Desks \cup {Null}]
  BY <1>1 DEF PlayHit, TypeOK
<1>7. \E net : GoodNet(net) /\ Sent(net, ResetRuins(d))
  <2>1. GoodNet(Send(Net, here \ {c}, "GAME"))
    BY <1>1, NoneSent, SendGood DEF Messages
  <2>2. GoodNet(Send(Send(Net, here \ {c}, "GAME"), here, "RESULT"))
    BY <2>1, SendGood DEF Messages
  <2> QED BY <2>2 DEF PlayHit
<1>8. ResetRuins(d) \in BOOLEAN
  BY DEF ResetRuins
<1> QED BY <1>1, <1>5, <1>6, <1>7, <1>8, ReadTable

\* What sitting down makes of a desk.
Taken(desk, c) ==
    [desk EXCEPT !.num = @ + 1,
                 !.seat = IF desk.num < DESK_MAXUSER THEN [@ EXCEPT ![desk.num + 1] = c] ELSE @]

LEMMA TakenDesk == ASSUME NEW desk \in Desk, desk.num <= DESK_MAXUSER, NEW c \in Clients
                   PROVE  /\ Taken(desk, c) \in Desk /\ Taken(desk, c).num = desk.num + 1
                          /\ desk.num = 0 => Taken(desk, c).seat[1] = c
                          /\ desk.num = 1 => Taken(desk, c).seat[2] = c
                          /\ \A k \in {1, 2} :
                                k # desk.num + 1 => Taken(desk, c).seat[k] = desk.seat[k]
<1> DEFINE seat == IF desk.num < DESK_MAXUSER THEN [desk.seat EXCEPT ![desk.num + 1] = c]
                                              ELSE desk.seat
<1>1. desk.num \in 0..2 /\ desk.seat \in [{1, 2} -> Clients \cup {Null, "unset"}]
  BY Sizes DEF Desk
<1>2. seat \in [{1, 2} -> Clients \cup {Null, "unset"}]
  BY <1>1, Sizes
<1>3. Taken(desk, c) = [desk EXCEPT !.num = desk.num + 1, !.seat = seat]
  BY DEF Taken
<1>4. /\ desk.num = 0 => seat[1] = c
      /\ desk.num = 1 => seat[2] = c
      /\ \A k \in {1, 2} : k # desk.num + 1 => seat[k] = desk.seat[k]
  BY <1>1, Sizes
<1> HIDE DEF seat
<1>5. Taken(desk, c) \in Desk /\ Taken(desk, c).num = desk.num + 1 /\ Taken(desk, c).seat = seat
  <2>1. desk.num + 1 \in 0..(DESK_MAXUSER + 1)
    BY <1>1, Sizes
  <2> QED BY <1>2, <1>3, <2>1 DEF Desk
<1> QED BY <1>4, <1>5

LEMMA SitDesk == ASSUME TableInv, NEW c \in Clients, AddToDesk(c)
                 PROVE  /\ Read(c) /\ ~ruined /\ TypeOK /\ NoCrowd /\ Request(c)[2] \in Desks
                        /\ desks' = [desks EXCEPT ![Request(c)[2]] = Taken(@, c)]
<1> DEFINE d == Request(c)[2]
<1>1. Read(c) /\ ~ruined /\ TypeOK /\ NoCrowd
  BY DEF AddToDesk, Read, Handle, TableInv
<1>2. d \in Desks
  BY DEF AddToDesk
<1>3. desks' = [desks EXCEPT ![d].num = desks[d].num + 1,
                             ![d].seat = IF desks[d].num < DESK_MAXUSER
                                           THEN [@ EXCEPT ![desks[d].num + 1] = c] ELSE @]
  BY DEF AddToDesk
<1>4. desks \in [Desks -> Desk]
  BY <1>1 DEF TypeOK, Desk
<1> HIDE DEF d
<1>5. desks' = [desks EXCEPT ![d] = Taken(@, c)]
  BY <1>2, <1>3, <1>4 DEF Taken, Desk
<1> QED BY <1>1, <1>2, <1>5 DEF d

LEMMA SitTable == ASSUME TableInv, NEW c \in Clients, AddToDesk(c)
                  PROVE  TableInv'
<1> DEFINE d == Request(c)[2]
           n == desks[d].num
           refused == IF n >= DESK_MAXUSER THEN Send(Net, {c}, "ENTERFALSE") ELSE Net
<1>1. /\ Read(c) /\ ~ruined /\ TypeOK /\ NoCrowd /\ d \in Desks
      /\ desks' = [desks EXCEPT ![d] = Taken(@, c)]
  BY SitDesk
<1>2. desks[d] \in Desk /\ n \in 0..2
  <2> HIDE DEF d
  <2>1. desks[d] \in Desk
    BY <1>1 DEF TypeOK, Desk
  <2> QED BY <1>1, <2>1, Sizes DEF Desk, NoCrowd
<1>3. Taken(desks[d], c) \in Desk /\ Taken(desks[d], c).num = n + 1
  BY <1>2, Sizes, TakenDesk
<1>4. desks' = [desks EXCEPT ![d] = Taken(desks[d], c)]
  BY <1>1
<1>5. desks' \in [Desks -> Desk] /\ (n < DESK_MAXUSER => NoCrowd')
  <2> DEFINE new == Taken(desks[d], c)
  <2> HIDE DEF d, new
  <2>1. new \in Desk /\ new.num = n + 1 /\ desks' = [desks EXCEPT ![d] = new]
    BY <1>3, <1>4 DEF new
  <2>2. desks' \in [Desks -> Desk] /\ (new.num <= DESK_MAXUSER => NoCrowd')
    BY <1>1, <2>1, DeskStep
  <2> QED BY <1>2, <2>1, <2>2, Sizes
<1>6. desk_sub' \in [Clients -> Desks \cup {Null}]
  BY <1>1 DEF AddToDesk, TypeOK
<1>7. GoodNet(refused)
  BY <1>1, NoneSent, SendGood DEF Printed
<1>8. IF n + 1 = DESK_MAXUSER
        THEN Sent(Send(refused, {desks'[d].seat[1], desks'[d].seat[2]}, "GAMESTATUS"), FALSE)
        ELSE Sent(Send(refused, {c}, "ENTER"), n >= DESK_MAXUSER)
  BY DEF AddToDesk
<1> HIDE DEF refused, n, d
<1>9. \E net, ruins : /\ GoodNet(net) /\ ruins \in BOOLEAN /\ Sent(net, ruins)
                      /\ ruins \/ n < DESK_MAXUSER
  <2>1. CASE n + 1 = DESK_MAXUSER
    <3> DEFINE net == Send(refused, {desks'[d].seat[1], desks'[d].seat[2]}, "GAMESTATUS")
    <3>1. GoodNet(net)
      BY <1>7, SendGood DEF Messages
    <3>2. Sent(net, FALSE)
      BY <1>8, <2>1
    <3>3. n < DESK_MAXUSER
      BY <1>2, <2>1, Sizes
    <3> QED BY <3>1, <3>2, <3>3
  <2>2. CASE n + 1 # DESK_MAXUSER
    <3> DEFINE net == Send(refused, {c}, "ENTER")
    <3>1. GoodNet(net)
      BY <1>7, SendGood DEF Messages
    <3>2. Sent(net, n >= DESK_MAXUSER) /\ (n >= DESK_MAXUSER) \in BOOLEAN
      BY <1>8, <2>2
    <3>3. n >= DESK_MAXUSER \/ n < DESK_MAXUSER
      BY <1>2, Sizes
    <3> QED BY <3>1, <3>2, <3>3
  <2> QED BY <2>1, <2>2
<1> QED BY <1>1, <1>5, <1>6, <1>9, ReadTable
-----------------------------------------------------------------------------
\* The entry of who left goes, and the last one takes its place.
LEMMA RemovedEntries ==
    ASSUME TypeOK, Exact, NEW c \in Clients, i \in 1..MAX_USER, fds[i].fd = c
    PROVE  /\ user_counter \in 1..MAX_USER /\ i \in 1..user_counter
           /\ Removed(c) \in [1..MAX_USER -> Entry]
           /\ Removed(c)[user_counter].fd = Null
           /\ i # user_counter => /\ Removed(c)[i].fd = fds[user_counter].fd
                                  /\ Removed(c)[i].revents = "none"
           /\ \A j \in 1..MAX_USER : j # i /\ j # user_counter => Removed(c)[j] = fds[j]
<1> DEFINE n == user_counter
           last == fds[n].fd
<1>1. fds \in [1..MAX_USER -> Entry] /\ n \in 0..MAX_USER /\ MAX_USER \in Nat
  BY Sizes DEF TypeOK, Entry
<1>2. fds[i].fd # Null
  BY GuessAssumption
<1>3. i \in 1..n
  BY <1>1, <1>2 DEF Exact
<1>4. n \in 1..MAX_USER
  BY <1>1, <1>3
<1>5. \A j \in 1..MAX_USER : fds[j].fd = c => j = i
  <2> SUFFICES ASSUME NEW j \in 1..MAX_USER, fds[j].fd = c PROVE j = i
    OBVIOUS
  <2>1. j \in 1..n
    BY <1>1, <1>2 DEF Exact
  <2> QED BY <1>3, <2>1 DEF Exact
<1>6. Place(c) = i
  BY <1>5 DEF Place
<1>7. Removed(c) = [Done EXCEPT ![i].fd = last, ![n].fd = Null]
  BY <1>6 DEF Removed
<1>8. last \in Clients \cup {Null}
  BY <1>1, <1>4 DEF Entry
<1> HIDE DEF n, last
<1>9. /\ Done \in [1..MAX_USER -> Entry] /\ Done[i].revents = "none"
      /\ \A j \in 1..MAX_USER : j # i => Done[j] = fds[j]
  BY DoneEntry
<1>10. PICK table \in [1..MAX_USER -> Entry] :
          /\ table = [Done EXCEPT ![i].fd = last] /\ table[i].revents = "none"
          /\ table[i].fd = last /\ \A j \in 1..MAX_USER : j # i => table[j] = fds[j]
  <2>1. [Done EXCEPT ![i].fd = last] \in [1..MAX_USER -> Entry]
    BY <1>8, <1>9 DEF Entry
  <2> QED BY <1>8, <1>9, <2>1 DEF Entry
<1>11. Removed(c) = [table EXCEPT ![n].fd = Null]
  BY <1>7, <1>10
<1>12. Removed(c) \in [1..MAX_USER -> Entry]
  BY <1>4, <1>11 DEF Entry
<1>13. Removed(c)[n].fd = Null /\ \A j \in 1..MAX_USER : j # n => Removed(c)[j] = table[j]
  BY <1>4, <1>11 DEF Entry
<1> QED BY <1>3, <1>4, <1>10, <1>12, <1>13 DEF n, last

LEMMA LeftTable == ASSUME TableInv, NEW c \in Clients, RemoveLeftClient(c)
                   PROVE  TableInv'
<1> DEFINE d == desk_sub[c]
           n == user_counter
<1>1. /\ TypeOK /\ ~ruined /\ Exact /\ EventTrue /\ NoCrowd /\ \A b \in Clients : Requests(b)
      /\ MAX_USER \in Nat
  BY Sizes DEF TableInv, RemoveLeftClient, Handle
<1>2. i \in 1..MAX_USER /\ fds[i].fd = c /\ fds' = Removed(c) /\ n' = n - 1
  BY <1>1 DEF RemoveLeftClient, Handle, TypeOK, InPoll
<1>3. /\ n \in 1..MAX_USER /\ i \in 1..n
      /\ fds' \in [1..MAX_USER -> Entry] /\ fds'[n].fd = Null
      /\ i # n => fds'[i].fd = fds[n].fd /\ fds'[i].revents = "none"
      /\ \A j \in 1..MAX_USER : j # i /\ j # n => fds'[j] = fds[j]
  BY <1>1, <1>2, RemovedEntries
<1>4. i' = InPoll \/ i' \in 1..MAX_USER
  <2>1. i + 1 \in Nat /\ i + 1 > 0 /\ GoOn(fds, i + 1)
    BY <1>2 DEF RemoveLeftClient, Handle
  <2>2. i' = InPoll \/ i' \in (i + 1)..MAX_USER
    BY <2>1, GoesOn
  <2> QED BY <1>2, <2>2
<1>5. /\ desks' \in [Desks -> Desk] /\ NoCrowd'
      /\ desk_sub' \in [Clients -> Desks \cup {Null}]
  <2>1. CASE d = Null
    <3>1. UNCHANGED <<desks, desk_sub>>
      BY <2>1 DEF RemoveLeftClient
    <3> QED BY <1>1, <3>1, SameDesks
  <2>2. CASE d # Null
    <3>1. d \in Desks /\ desks[d] \in Desk
      BY <1>1, <2>2 DEF TypeOK, Desk
    <3>2. Reset(d)
      BY <2>2 DEF RemoveLeftClient
    <3>3. PICK new \in Desk : new.num = 0 /\ desks' = [desks EXCEPT ![d] = new]
      BY <3>1, <3>2, ClearedDesk DEF Reset
    <3>4. desks' \in [Desks -> Desk] /\ NoCrowd'
      <4> HIDE DEF d
      <4>1. new.num <= DESK_MAXUSER
        BY <3>3, Sizes
      <4>2. /\ desks' \in [Desks -> Desk]
            /\ NoCrowd /\ new.num <= DESK_MAXUSER => NoCrowd'
        BY <1>1, <3>1, <3>3, DeskStep
      <4> QED BY <1>1, <4>1, <4>2
    <3>5. desk_sub' \in [Clients -> Desks \cup {Null}]
      BY <1>1, <3>2 DEF Reset, TypeOK
    <3> QED BY <3>4, <3>5
  <2> QED BY <2>1, <2>2
<1>6. PICK net : /\ GoodNet(net)
                 /\ Sent([net EXCEPT !.peer[c] = "none", !.in[c] = <<>>],
                         d # Null /\ ResetRuins(d))
                 /\ net = [peer |-> net.peer, in |-> net.in, killed |-> net.killed]
  <2>1. GoodNet(Net) /\ GoodNet(Send(Net, Seated(d) \ {c}, "RESULT"))
    BY <1>1, NoneSent, SendGood DEF Messages
  <2> DEFINE net == IF d = Null THEN Net ELSE Send(Net, Seated(d) \ {c}, "RESULT")
  <2>2. /\ Sent([net EXCEPT !.peer[c] = "none", !.in[c] = <<>>],
                d # Null /\ ResetRuins(d))
        /\ GoodNet(net)
    BY <2>1 DEF RemoveLeftClient
  <2>3. net = [peer |-> net.peer, in |-> net.in, killed |-> net.killed]
    BY DEF Net, Send
  <2> QED BY <2>2, <2>3
<1>7. /\ peer' = [net.peer EXCEPT ![c] = "none"] /\ in' = [net.in EXCEPT ![c] = <<>>]
      /\ ruined' = (net.killed \/ (d # Null /\ ResetRuins(d)))
  BY <1>6 DEF Sent
<1> HIDE DEF d
<1>8. /\ NetTyped' /\ \A b \in Clients : peer'[b] = "none" <=> peer[b] = "none" \/ b = c
      /\ \A b \in Clients : peer'[b] = "open" => peer[b] = "open"
  <2>1. <<>> \in Seq(Messages)
    OBVIOUS
  <2>2. peer' \in [Clients -> Peers] /\ in' \in [Clients -> Seq(Messages)]
    BY <1>6, <1>7, <2>1 DEF GoodNet, Peers
  <2>3. ruined' \in BOOLEAN
    BY <1>7
  <2>4. \A b \in Clients : peer'[b] = "none" <=> peer[b] = "none" \/ b = c
    BY <1>6, <1>7 DEF GoodNet
  <2>5. \A b \in Clients : peer'[b] = "open" => peer[b] = "open"
    BY <1>6, <1>7 DEF GoodNet
  <2> QED BY <2>2, <2>3, <2>4, <2>5 DEF NetTyped
<1>9. /\ out' \in [Clients -> Seq(Lines)]
      /\ \A b \in Clients : b # c => out'[b] = out[b]
      /\ out'[c] = <<>>
  <2>1. <<>> \in Seq(Lines)
    OBVIOUS
  <2> QED BY <1>1, <2>1 DEF RemoveLeftClient, TypeOK
<1>10. TypeOK'
  <2>1. i' \in InPoll..MAX_USER /\ n' \in 0..MAX_USER
    BY <1>1, <1>2, <1>3, <1>4 DEF InPoll
  <2>2. UNCHANGED <<backlog, status, can_guess, haste>>
    BY DEF RemoveLeftClient, Handle, clientVars
  <2> QED BY <1>1, <1>3, <1>5, <1>8, <1>9, <2>1, <2>2 DEF TypeOK, NetTyped, Entry, Desk, Peers
<1> HIDE DEF n
<1>11. \A j \in 1..n : j # i => fds[j].fd # c
  BY <1>1, <1>2, <1>3 DEF Exact, n
<1>12. Exact'
  <2>1. 1..(n - 1) \subseteq 1..n /\ 1..n \subseteq 1..MAX_USER /\ n \in 1..n
        /\ 1..n = 1..(n - 1) \cup {n}
    BY <1>1, <1>3
  <2>2. \A j \in 1..(n - 1) : fds'[j].fd = IF j = i THEN fds[n].fd ELSE fds[j].fd
    BY <1>3, <2>1
  <2>3. {fds'[j].fd : j \in 1..(n - 1)} = {fds[j].fd : j \in 1..n} \ {c}
    <3>1. ASSUME NEW j \in 1..(n - 1)
          PROVE  fds'[j].fd \in {fds[k].fd : k \in 1..n} \ {c}
      BY <1>3, <1>11, <2>1, <2>2
    <3>2. ASSUME NEW k \in 1..n, fds[k].fd # c
          PROVE  \E j \in 1..(n - 1) : fds'[j].fd = fds[k].fd
      <4>1. k # i
        BY <1>2, <3>2
      <4>2. CASE k = n
        <5>1. i \in 1..(n - 1)
          BY <1>3, <4>1, <4>2
        <5> QED BY <2>2, <4>2, <5>1
      <4>3. CASE k # n
        <5>1. k \in 1..(n - 1)
          BY <1>3, <3>2, <4>3
        <5> QED BY <2>2, <4>1, <5>1
      <4> QED BY <4>2, <4>3
    <3> QED BY <3>1, <3>2
  <2>4. {b \in Clients : peer'[b] # "none"} = {b \in Clients : peer[b] # "none"} \ {c}
    BY <1>8
  <2>5. \A j, k \in 1..(n - 1) : fds'[j].fd = fds'[k].fd => j = k
    <3>1. \A j, k \in 1..n : fds[j].fd = fds[k].fd => j = k
      BY <1>1 DEF Exact, n
    <3>2. \A j \in 1..(n - 1) : j # n
      BY <1>3
    <3> QED BY <2>1, <2>2, <3>1, <3>2
  <2>6. \A k \in ((n - 1) + 1)..MAX_USER : fds'[k].fd = Null
    <3> SUFFICES ASSUME NEW k \in ((n - 1) + 1)..MAX_USER PROVE fds'[k].fd = Null
      OBVIOUS
    <3>1. CASE k = n
      BY <1>3, <3>1
    <3>2. CASE k # n
      <4>1. k \in (n + 1)..MAX_USER /\ k \in 1..MAX_USER /\ k # i
        BY <1>1, <1>3, <3>2
      <4> QED BY <1>1, <1>3, <3>2, <4>1 DEF Exact, n
    <3> QED BY <3>1, <3>2
  <2>7. {fds[j].fd : j \in 1..n} = {b \in Clients : peer[b] # "none"}
    BY <1>1 DEF Exact, n
  <2>8. user_counter' = n - 1
    BY <1>2 DEF n
  <2> QED BY <2>3, <2>4, <2>5, <2>6, <2>7, <2>8 DEF Exact
<1>13. Listens'
  BY <1>4 DEF Listens, InPoll
<1>14. EventTrue'
  <2> SUFFICES ASSUME NEW j \in 1..MAX_USER, fds'[j].fd # Null, j # n, j # i
               PROVE  /\ fds'[j].revents = "IN"    => out'[fds'[j].fd] # <<>>
                      /\ fds'[j].revents = "RDHUP" => peer'[fds'[j].fd] # "open"
    BY <1>3 DEF EventTrue, IsSo
  <2>2. fds'[j] = fds[j] /\ fds[j].fd \in Clients
    BY <1>1, <1>3 DEF TypeOK
  <2>3. fds[j].fd # c
    <3>1. j \in 1..n
      BY <1>1, <1>3, <2>2, GuessAssumption DEF Exact, n
    <3> QED BY <1>11, <3>1
  <2>4. IsSo(fds[j].revents, fds[j].fd)
    BY <1>1, <2>2 DEF EventTrue
  <2> QED BY <1>8, <1>9, <2>2, <2>3, <2>4 DEF IsSo
<1>15. ASSUME NEW b \in Clients  PROVE Requests(b)'
  BY <1>1, <1>9 DEF Requests
<1> QED BY <1>5, <1>10, <1>12, <1>13, <1>14, <1>15 DEF TableInv

\* users[-1]: the server goes on with anything.
LEMMA RuinTable == ASSUME TableInv, RemoveNobody  PROVE  TableInv'
<1>1. TypeOK /\ ruined'
  BY DEF TableInv, RemoveNobody, Sent
<1>2. i' \in InPoll..MAX_USER
  <2>1. i \in 1..MAX_USER
    BY <1>1 DEF RemoveNobody, Handle, TypeOK, InPoll
  <2>2. i + 1 \in Nat /\ i + 1 > 0 /\ GoOn(fds, i + 1)
    BY <2>1, Sizes DEF RemoveNobody, Handle
  <2>3. i' = InPoll \/ i' \in (i + 1)..MAX_USER
    BY <2>2, GoesOn
  <2> QED BY <2>1, <2>3, Sizes DEF InPoll
<1>3. GoodNet(Net) /\ peer' = Net.peer /\ in' = Net.in /\ ruined' \in BOOLEAN
  BY <1>1, NoneSent DEF RemoveNobody, Sent
<1>4. TypeOK'
  BY <1>1, <1>2, <1>3 DEF RemoveNobody, Handle, TypeOK, GoodNet, Peers, clientVars
<1> QED BY <1>1, <1>4 DEF TableInv

LEMMA NextTable == TableInv /\ [Next]_vars => TableInv'
<1> SUFFICES ASSUME TableInv, [Next]_vars PROVE TableInv'
  OBVIOUS
<1>1. CASE People
  BY <1>1, PeopleTable
<1>2. CASE Poll \/ Full \/ ReadNobody \/ RemoveNobody
  BY <1>2, PollTable, FullTable, NobodyTable, RuinTable
<1>3. ASSUME NEW c \in Clients, Accept(c) \/ RemoveLeftClient(c)
      PROVE  TableInv'
  BY <1>3, AcceptTable, LeftTable
<1>4. ASSUME NEW c \in Clients,
             \/ SendDeskMsg(c) \/ IgnoreMsg(c) \/ PlayNowhere(c)
             \/ AddToDesk(c) \/ AddToDeskRefused(c) \/ AddNowhere(c)
      PROVE  TableInv'
  BY <1>4, AnswerTable, SitTable
<1>5. ASSUME NEW c \in Clients, NEW ans \in 0..(MAX_NUM - 1),
             PlayOutOfRange(c, ans) \/ PlayMiss(c, ans) \/ PlayHit(c, ans)
      PROVE  TableInv'
  BY <1>5, MissTable, HitTable
<1>6. CASE UNCHANGED vars
  <2>1. TypeOK' /\ (~ruined => \A c \in Clients : Requests(c)')
    BY <1>6 DEF TableInv, TypeOK, Requests, vars, serverVars, clientVars
  <2>2. backlog' >= backlog
    BY <1>6 DEF TableInv, TypeOK, vars
  <2> QED BY <1>6, <2>1, <2>2, SameTable DEF vars, serverVars
<1> QED BY <1>1, <1>2, <1>3, <1>4, <1>5, <1>6 DEF Next, Server

(***************************************************************************)
(* In server.cpp of note 13 the table of poll() has every open connection  *)
(* once, and nothing behind them, although RemoveLeftClient moves the last *)
(* entry into the middle of the loop over them and accept() adds one in    *)
(* front of it: for any number of clients and desks, whatever they type,   *)
(* and however they leave, until the server leaves an array or a SIGPIPE.  *)
(***************************************************************************)
THEOREM TableInvariance == Spec => []TableExact
<1>1. TableInv => TableExact
  BY DEF TableInv, TableExact, Exact
<1> QED BY <1>1, InitTable, NextTable, PTL DEF Spec
-----------------------------------------------------------------------------
(***************************************************************************)
(* The game, as long as people wait for the answer.  A client is out of a  *)
(* game, waits at a desk, or is in a game; what its state machine will     *)
(* make of the messages on the way follows from that.                      *)
(***************************************************************************)
Mode(c) == IF desk_sub[c] = Null THEN "out"
           ELSE IF desks[desk_sub[c]].num = DESK_MAXUSER THEN "game" ELSE "wait"

Has(msgs, m)  == \E k \in 1..Len(msgs) : msgs[k] = m
Only(msgs, S) == \A k \in 1..Len(msgs) : msgs[k] \in S

\* A RESULT is the last message, and after the start of a game come only its own.
Ordered(msgs) ==
    \A k \in 1..Len(msgs) :
        /\ msgs[k] = "RESULT" => k = Len(msgs)
        /\ msgs[k] = "GAMESTATUS" => \A j \in (k + 1)..Len(msgs) : msgs[j] \in {"GAME", "RESULT"}

Talk(s, msgs, mode) ==
    /\ Ordered(msgs)
    /\ s = 4 => Only(msgs, {"GAME", "RESULT"})
    /\ mode = "out"  => Has(msgs, "RESULT") \/ (s \in {1, 2} /\ Only(msgs, {"GETDESK"}))
    /\ mode = "wait" => Only(msgs, {"ENTER"}) /\ (s = 3 \/ (s = 2 /\ Has(msgs, "ENTER")))
    /\ mode = "game" => ~Has(msgs, "RESULT") /\ (s = 4 \/ Has(msgs, "GAMESTATUS"))

\* What ProcessMsgCenter makes of now_game_status.
After(s, msg) == CASE msg = "GETDESK"    -> 2
                   [] msg = "ENTER"      -> 3
                   [] msg = "GAMESTATUS" -> 4
                   [] msg = "RESULT"     -> 1
                   [] OTHER              -> s

LEMMA TailAt == ASSUME NEW msgs \in Seq(Messages), msgs # <<>>
                PROVE  /\ Tail(msgs) \in Seq(Messages) /\ Head(msgs) = msgs[1]
                       /\ 1 \in 1..Len(msgs) /\ Len(msgs) \in Nat
                       /\ Len(Tail(msgs)) = Len(msgs) - 1
                       /\ \A k \in 1..Len(Tail(msgs)) : /\ k + 1 \in 1..Len(msgs)
                                                        /\ Tail(msgs)[k] = msgs[k + 1]
                       /\ \A k \in 1..Len(msgs) : k # 1 => k - 1 \in 1..Len(Tail(msgs))
OBVIOUS

LEMMA AppendAt == ASSUME NEW msgs \in Seq(Messages), NEW msg \in Messages
                  PROVE  /\ Append(msgs, msg) \in Seq(Messages) /\ Len(msgs) \in Nat
                         /\ Len(Append(msgs, msg)) = Len(msgs) + 1
                         /\ Append(msgs, msg)[Len(msgs) + 1] = msg
                         /\ \A k \in 1..Len(msgs) : Append(msgs, msg)[k] = msgs[k]
                         /\ Append(msgs, msg) # <<>>
OBVIOUS

LEMMA TailHas == ASSUME NEW msgs \in Seq(Messages), msgs # <<>>, NEW m, Has(msgs, m)
                 PROVE  Head(msgs) = m \/ Has(Tail(msgs), m)
<1>1. PICK k \in 1..Len(msgs) : msgs[k] = m
  BY DEF Has
<1>2. CASE k = 1
  BY <1>1, <1>2, TailAt
<1>3. CASE k # 1
  <2>1. k - 1 \in 1..Len(Tail(msgs)) /\ Tail(msgs)[k - 1] = msgs[(k - 1) + 1]
    BY <1>3, TailAt
  <2>2. (k - 1) + 1 = k
    BY TailAt
  <2> QED BY <1>1, <2>1, <2>2 DEF Has
<1> QED BY <1>2, <1>3

LEMMA TailOnly == ASSUME NEW msgs \in Seq(Messages), msgs # <<>>
                  PROVE  /\ \A S : Only(msgs, S) => Only(Tail(msgs), S) /\ Head(msgs) \in S
                         /\ \A m : Has(Tail(msgs), m) => Has(msgs, m)
                         /\ Has(msgs, Head(msgs))
BY TailAt DEF Only, Has

\* ProcessMsgCenter takes a message.
LEMMA TalkTail ==
    ASSUME NEW s \in 1..5, NEW msgs \in Seq(Messages), msgs # <<>>, NEW mode, Talk(s, msgs, mode)
    PROVE  Talk(After(s, Head(msgs)), Tail(msgs), mode)
<1> DEFINE rest == Tail(msgs)
           head == Head(msgs)
<1>1. head \in Messages
  BY TailAt
<1>2. Ordered(rest)
  <2> SUFFICES ASSUME NEW k \in 1..Len(rest)
               PROVE  /\ rest[k] = "RESULT" => k = Len(rest)
                      /\ rest[k] = "GAMESTATUS" =>
                            \A j \in (k + 1)..Len(rest) : rest[j] \in {"GAME", "RESULT"}
    BY DEF Ordered
  <2>1. k + 1 \in 1..Len(msgs) /\ rest[k] = msgs[k + 1] /\ Len(rest) = Len(msgs) - 1 /\ Len(msgs) \in Nat
    BY TailAt
  <2>2. /\ rest[k] = "RESULT" => k + 1 = Len(msgs)
        /\ rest[k] = "GAMESTATUS" =>
              \A j \in ((k + 1) + 1)..Len(msgs) : msgs[j] \in {"GAME", "RESULT"}
    BY <2>1 DEF Talk, Ordered
  <2>3. ASSUME NEW j \in (k + 1)..Len(rest)
        PROVE  j + 1 \in ((k + 1) + 1)..Len(msgs) /\ rest[j] = msgs[j + 1]
    BY <2>1, TailAt
  <2>4. rest[k] = "RESULT" => k = Len(rest)
    <3> HIDE DEF rest
    <3>1. k + 1 = Len(msgs) => k = Len(rest)
      BY <2>1
    <3> QED BY <2>1, <2>2, <3>1
  <2>5. rest[k] = "GAMESTATUS" => \A j \in (k + 1)..Len(rest) : rest[j] \in {"GAME", "RESULT"}
    BY <2>1, <2>2, <2>3
  <2> QED BY <2>4, <2>5
<1>3. head = "GAMESTATUS" => Only(rest, {"GAME", "RESULT"})
  <2> SUFFICES ASSUME head = "GAMESTATUS", NEW k \in 1..Len(rest)
               PROVE  rest[k] \in {"GAME", "RESULT"}
    BY DEF Only
  <2>1. \A j \in (1 + 1)..Len(msgs) : msgs[j] \in {"GAME", "RESULT"}
    BY TailAt DEF Talk, Ordered
  <2> QED BY <2>1, TailAt
<1>4. head = "RESULT" => \A S : Only(rest, S)
  <2> SUFFICES ASSUME head = "RESULT", NEW k \in 1..Len(rest)  PROVE FALSE
    BY DEF Only
  <2>1. 1 = Len(msgs)
    BY TailAt DEF Talk, Ordered
  <2>2. Len(rest) = Len(msgs) - 1
    BY TailAt
  <2> HIDE DEF rest
  <2> QED BY <2>1, <2>2
<1> HIDE DEF rest, head
<1>5. /\ \A S : Only(msgs, S) => Only(rest, S) /\ head \in S
      /\ \A m : Has(rest, m) => Has(msgs, m)
      /\ \A m : Has(msgs, m) => head = m \/ Has(rest, m)
      /\ Has(msgs, head)
  BY TailOnly, TailHas DEF rest, head
<1> DEFINE t == After(s, head)
<1>6. t = 4 => Only(rest, {"GAME", "RESULT"})
  BY <1>3, <1>5 DEF After, Talk
<1>7. mode = "out" => Has(rest, "RESULT") \/ (t \in {1, 2} /\ Only(rest, {"GETDESK"}))
  BY <1>4, <1>5 DEF After, Talk
<1>8. mode = "wait" => Only(rest, {"ENTER"}) /\ (t = 3 \/ (t = 2 /\ Has(rest, "ENTER")))
  BY <1>5 DEF After, Talk
<1>9. mode = "game" => ~Has(rest, "RESULT") /\ (t = 4 \/ Has(rest, "GAMESTATUS"))
  BY <1>1, <1>5 DEF After, Talk, Messages
<1>10. Talk(t, rest, mode)
  BY <1>2, <1>6, <1>7, <1>8, <1>9 DEF Talk
<1> QED BY <1>10 DEF rest, head

LEMMA OnlyHas == ASSUME NEW msgs, NEW S, Only(msgs, S), NEW m, Has(msgs, m)
                 PROVE  m \in S
BY DEF Only, Has

LEMMA NoMessage == /\ Ordered(<<>>) /\ \A S : Only(<<>>, S)
                   /\ \A m : ~Has(<<>>, m)
<1>1. Len(<<>>) = 0
  OBVIOUS
<1> QED BY <1>1 DEF Ordered, Only, Has

LEMMA AppendHas ==
    ASSUME NEW msgs \in Seq(Messages), NEW msg \in Messages
    PROVE  /\ \A S : Only(Append(msgs, msg), S) <=> Only(msgs, S) /\ msg \in S
           /\ \A m : Has(Append(msgs, msg), m) <=> Has(msgs, m) \/ msg = m
<1> DEFINE longer == Append(msgs, msg)
<1>1. /\ Len(msgs) \in Nat /\ Len(longer) = Len(msgs) + 1 /\ longer[Len(msgs) + 1] = msg
      /\ \A k \in 1..Len(msgs) : longer[k] = msgs[k]
  BY AppendAt
<1> HIDE DEF longer
<1>2. 1..Len(longer) = 1..Len(msgs) \cup {Len(msgs) + 1}
  BY <1>1
<1>3. ASSUME NEW S  PROVE Only(longer, S) <=> Only(msgs, S) /\ msg \in S
  BY <1>1, <1>2 DEF Only
<1>4. ASSUME NEW m  PROVE Has(longer, m) <=> Has(msgs, m) \/ msg = m
  BY <1>1, <1>2 DEF Has
<1> QED BY <1>3, <1>4 DEF longer

LEMMA AppendOrdered ==
    ASSUME NEW msgs \in Seq(Messages), NEW msg \in Messages, Ordered(msgs),
           ~Has(msgs, "RESULT"), Has(msgs, "GAMESTATUS") => msg \in {"GAME", "RESULT"}
    PROVE  Ordered(Append(msgs, msg))
<1> DEFINE longer == Append(msgs, msg)
           n == Len(msgs)
<1>1. /\ n \in Nat /\ Len(longer) = n + 1 /\ longer[n + 1] = msg
      /\ \A k \in 1..n : longer[k] = msgs[k]
  BY AppendAt
<1> HIDE DEF longer
<1> SUFFICES ASSUME NEW k \in 1..(n + 1)
             PROVE  /\ longer[k] = "RESULT" => k = n + 1
                    /\ longer[k] = "GAMESTATUS" =>
                          \A j \in (k + 1)..(n + 1) : longer[j] \in {"GAME", "RESULT"}
  BY <1>1 DEF longer, Ordered
<1>2. CASE k = n + 1
  BY <1>1, <1>2
<1>3. CASE k \in 1..n
  <2>1. longer[k] = msgs[k] /\ msgs[k] # "RESULT"
    BY <1>1, <1>3 DEF Has
  <2>2. ASSUME longer[k] = "GAMESTATUS", NEW j \in (k + 1)..(n + 1)
        PROVE  longer[j] \in {"GAME", "RESULT"}
    <3>1. CASE j = n + 1
      <4>1. Has(msgs, "GAMESTATUS")
        BY <1>3, <2>1, <2>2 DEF Has
      <4> QED BY <1>1, <3>1, <4>1
    <3>2. CASE j \in (k + 1)..n
      <4>1. msgs[j] \in {"GAME", "RESULT"}
        BY <1>3, <2>1, <2>2, <3>2 DEF Ordered
      <4> QED BY <1>1, <1>3, <3>2, <4>1
    <3> QED BY <1>1, <1>3, <3>1, <3>2
  <2> QED BY <2>1, <2>2
<1> QED BY <1>1, <1>2, <1>3

\* What the server sends, and what it has done for it.
LEMMA TalkAnswered ==
    /\ \A s \in {1, 2} : Talk(s, Append(<<>>, "GETDESK"), "out")
    /\ Talk(2, Append(<<>>, "ENTER"), "wait")
    /\ Talk(2, Append(<<>>, "GAMESTATUS"), "game")
<1>1. <<>> \in Seq(Messages)
  OBVIOUS
<1>2. \A msg \in Messages :
         /\ Ordered(Append(<<>>, msg))
         /\ \A S : Only(Append(<<>>, msg), S) <=> msg \in S
         /\ \A m : Has(Append(<<>>, msg), m) <=> msg = m
  BY <1>1, NoMessage, AppendHas, AppendOrdered
<1>3. {"GETDESK", "ENTER", "GAMESTATUS"} \subseteq Messages
  BY DEF Messages
<1>4. ASSUME NEW s \in {1, 2}  PROVE Talk(s, Append(<<>>, "GETDESK"), "out")
  BY <1>2, <1>3 DEF Talk
<1>5. Talk(2, Append(<<>>, "ENTER"), "wait")
  BY <1>2, <1>3 DEF Talk
<1>6. Talk(2, Append(<<>>, "GAMESTATUS"), "game")
  BY <1>2, <1>3 DEF Talk
<1> QED BY <1>4, <1>5, <1>6

LEMMA TalkTold ==
    ASSUME NEW s \in 1..5, NEW msgs \in Seq(Messages)
    PROVE  /\ Talk(s, msgs, "wait") => Talk(s, Append(msgs, "GAMESTATUS"), "game")
           /\ Talk(s, msgs, "game") => /\ Talk(s, Append(msgs, "GAME"), "game")
                                       /\ Talk(s, Append(msgs, "RESULT"), "out")
<1>1. {"GAMESTATUS", "GAME", "RESULT"} \subseteq Messages
  BY DEF Messages
<1>2. ASSUME Talk(s, msgs, "wait")
      PROVE  Talk(s, Append(msgs, "GAMESTATUS"), "game")
  <2>1. ~Has(msgs, "RESULT") /\ ~Has(msgs, "GAMESTATUS") /\ Ordered(msgs) /\ s # 4
    BY <1>2, OnlyHas DEF Talk
  <2>2. /\ Ordered(Append(msgs, "GAMESTATUS"))
        /\ \A m : Has(Append(msgs, "GAMESTATUS"), m) <=> Has(msgs, m) \/ "GAMESTATUS" = m
    BY <1>1, <2>1, AppendHas, AppendOrdered
  <2> QED BY <2>1, <2>2 DEF Talk
<1>3. ASSUME Talk(s, msgs, "game"), NEW msg \in {"GAME", "RESULT"}
      PROVE  /\ Ordered(Append(msgs, msg))
             /\ s = 4 => Only(Append(msgs, msg), {"GAME", "RESULT"})
             /\ \A m : Has(Append(msgs, msg), m) <=> Has(msgs, m) \/ msg = m
  <2>1. ~Has(msgs, "RESULT") /\ Ordered(msgs) /\ (s = 4 => Only(msgs, {"GAME", "RESULT"}))
    BY <1>3 DEF Talk
  <2>2. msg \in Messages
    BY <1>1
  <2> QED BY <2>1, <2>2, AppendHas, AppendOrdered
<1>4. ASSUME Talk(s, msgs, "game")
      PROVE  Talk(s, Append(msgs, "GAME"), "game") /\ Talk(s, Append(msgs, "RESULT"), "out")
  <2>1. ~Has(msgs, "RESULT") /\ (s = 4 \/ Has(msgs, "GAMESTATUS"))
    BY <1>4 DEF Talk
  <2>2. Talk(s, Append(msgs, "GAME"), "game")
    BY <1>3, <1>4, <2>1 DEF Talk
  <2>3. Talk(s, Append(msgs, "RESULT"), "out")
    BY <1>3, <1>4, <2>1 DEF Talk
  <2> QED BY <2>2, <2>3
<1> QED BY <1>2, <1>4

-----------------------------------------------------------------------------
\* Who has a desk sits there, and a desk has the number of those who do.
SeatsOf  == \A d \in Desks : \A k \in {1, 2} :
               /\ desks[d].seat[k] \in Clients <=> k <= desks[d].num
               /\ desks[d].seat[k] \in Clients => desk_sub[desks[d].seat[k]] = d
SeatOf   == \A c \in Clients : desk_sub[c] # Null => c \in Seated(desk_sub[c])
TwoSeats == \A d \in Desks :
               desks[d].seat[1] \in Clients => desks[d].seat[1] # desks[d].seat[2]

Seats == SeatsOf /\ SeatOf /\ TwoSeats

\* Of a client that is gone nothing is left but its entry, its desk, and what it typed.
Gone(c) == /\ peer[c] # "open" => in[c] = <<>> /\ status[c] = 1
           /\ peer[c] = "none" => out[c] = <<>> /\ desk_sub[c] = Null

\* What a client has asked is still what it would ask.
Asks(c) ==
    out[c] # <<>> =>
        /\ Len(out[c]) = 1 /\ Head(out[c])[1] \in {1, 2, 4}
        /\ Head(out[c])[1] = 4 => Mode(c) # "wait"
        /\ Head(out[c])[1] # 4 => /\ Mode(c) = "out" /\ in[c] = <<>>
                                  /\ peer[c] = "open" => status[c] = Head(out[c])[1]

Fine(c) == Gone(c) /\ Asks(c) /\ (peer[c] = "open" => Talk(status[c], in[c], Mode(c)))

GameInv == ~ruined /\ haste = 0 => Seats /\ \A c \in Clients : Fine(c)

LEMMA Modes == \A c \in Clients :
                  /\ Mode(c) \in {"out", "wait", "game"}
                  /\ desk_sub[c] = Null <=> Mode(c) = "out"
                  /\ desk_sub[c] # Null =>
                        (Mode(c) = "game" <=> desks[desk_sub[c]].num = DESK_MAXUSER)
BY DEF Mode

LEMMA InitGame == Init => GameInv
<1> SUFFICES ASSUME Init PROVE GameInv
  OBVIOUS
<1>1. SeatsOf
  <2> SUFFICES ASSUME NEW d \in Desks, NEW k \in {1, 2}
               PROVE  desks[d].seat[k] \notin Clients /\ ~(k <= desks[d].num)
    BY DEF SeatsOf
  <2>1. desks[d].num = 0 /\ desks[d].seat = <<"unset", "unset">>
    BY DEF Init, NewDesk
  <2> QED BY <2>1, GuessAssumption
<1>2. SeatOf /\ TwoSeats
  BY GuessAssumption DEF Init, NewDesk, SeatOf, TwoSeats
<1>3. ASSUME NEW c \in Clients  PROVE Fine(c)
  BY <1>3 DEF Init, Fine, Gone, Asks
<1> QED BY <1>1, <1>2, <1>3 DEF GameInv, Seats

LEMMA AtDesk == ASSUME TypeOK, Seats, NEW c \in Clients, NEW d \in Desks
                PROVE  desk_sub[c] = d <=> c \in Seated(d)
<1>1. d # Null
  BY GuessAssumption
<1> QED BY <1>1 DEF Seats, SeatsOf, SeatOf, Seated

\* A step that leaves everybody where they sit.
LEMMA SeatsSame ==
    ASSUME TypeOK, Seats, desk_sub' = desk_sub,
           \A d \in Desks : desks'[d].num = desks[d].num /\ desks'[d].seat = desks[d].seat
    PROVE  Seats' /\ \A c \in Clients : Mode(c)' = Mode(c)
<1>1. \A c \in Clients : desk_sub[c] # Null => desk_sub[c] \in Desks
  BY DEF TypeOK
<1>2. SeatsOf' /\ TwoSeats'
  BY DEF Seats, SeatsOf, TwoSeats
<1>3. SeatOf'
  BY <1>1 DEF Seats, SeatOf, Seated
<1>4. \A c \in Clients : Mode(c)' = Mode(c)
  BY <1>1 DEF Mode
<1> QED BY <1>2, <1>3, <1>4 DEF Seats

\* The game at a desk is over.
LEMMA SeatsReset ==
    ASSUME TypeOK, Seats, NEW d \in Desks, NEW new, new.num = 0, new.seat = <<Null, Null>>,
           desks' = [desks EXCEPT ![d] = new],
           desk_sub' = [c \in Clients |-> IF c \in Seated(d) THEN Null ELSE desk_sub[c]]
    PROVE  /\ Seats'
           /\ \A c \in Clients :
                 IF c \in Seated(d) THEN Mode(c)' = "out" /\ desk_sub'[c] = Null
                                    ELSE Mode(c)' = Mode(c) /\ desk_sub'[c] = desk_sub[c]
<1>1. desks \in [Desks -> Desk] /\ desk_sub \in [Clients -> Desks \cup {Null}]
  BY DEF TypeOK, Desk
<1>2. desks'[d] = new /\ \A e \in Desks : e # d => desks'[e] = desks[e]
  BY <1>1
<1>3. \A c \in Clients : desk_sub'[c] = IF c \in Seated(d) THEN Null ELSE desk_sub[c]
  OBVIOUS
<1>4. \A c \in Clients : desk_sub[c] = d <=> c \in Seated(d)
  BY AtDesk
<1>5. SeatsOf'
  <2> SUFFICES ASSUME NEW e \in Desks, NEW k \in {1, 2}
               PROVE  /\ desks'[e].seat[k] \in Clients <=> k <= desks'[e].num
                      /\ desks'[e].seat[k] \in Clients => desk_sub'[desks'[e].seat[k]] = e
    BY DEF SeatsOf
  <2>1. CASE e = d
    <3>1. desks'[e].seat[k] = Null /\ desks'[e].num = 0
      BY <1>2, <2>1
    <3> QED BY <3>1, GuessAssumption
  <2>2. CASE e # d
    <3>1. desks'[e] = desks[e]
      BY <1>2, <2>2
    <3>2. /\ desks[e].seat[k] \in Clients <=> k <= desks[e].num
          /\ desks[e].seat[k] \in Clients => desk_sub[desks[e].seat[k]] = e
      BY DEF Seats, SeatsOf
    <3>3. desks[e].seat[k] \in Clients => desks[e].seat[k] \notin Seated(d)
      BY <1>4, <2>2, <3>2
    <3> QED BY <1>3, <3>1, <3>2, <3>3
  <2> QED BY <2>1, <2>2
<1>6. SeatOf'
  <2> SUFFICES ASSUME NEW c \in Clients, desk_sub'[c] # Null
               PROVE  c \in {desks'[desk_sub'[c]].seat[1], desks'[desk_sub'[c]].seat[2]}
    BY DEF SeatOf, Seated
  <2>1. c \notin Seated(d) /\ desk_sub'[c] = desk_sub[c]
    BY <1>3
  <2>2. desk_sub[c] \in Desks /\ desk_sub[c] # d /\ c \in Seated(desk_sub[c])
    BY <1>1, <1>4, <2>1 DEF Seats, SeatOf
  <2> QED BY <1>2, <2>1, <2>2 DEF Seated
<1>7. TwoSeats'
  <2> SUFFICES ASSUME NEW e \in Desks, desks'[e].seat[1] \in Clients
               PROVE  desks'[e].seat[1] # desks'[e].seat[2]
    BY DEF TwoSeats
  <2>1. e # d
    BY <1>2, GuessAssumption
  <2> QED BY <1>2, <2>1 DEF Seats, TwoSeats
<1>8. ASSUME NEW c \in Clients
      PROVE  IF c \in Seated(d) THEN Mode(c)' = "out" /\ desk_sub'[c] = Null
                                ELSE Mode(c)' = Mode(c) /\ desk_sub'[c] = desk_sub[c]
  <2>1. CASE c \in Seated(d)
    BY <1>3, <2>1 DEF Mode
  <2>2. CASE c \notin Seated(d)
    <3>1. desk_sub'[c] = desk_sub[c] /\ desk_sub[c] # d
      BY <1>3, <1>4, <2>2
    <3> QED BY <1>1, <1>2, <2>2, <3>1 DEF Mode
  <2> QED BY <2>1, <2>2
<1> QED BY <1>5, <1>6, <1>7, <1>8 DEF Seats

\* A client without a desk sits down on the next seat.
LEMMA SeatsSit ==
    ASSUME TypeOK, Seats, NEW c \in Clients, desk_sub[c] = Null,
           NEW d \in Desks, desks[d].num < DESK_MAXUSER,
           desks' = [desks EXCEPT ![d] = Taken(desks[d], c)],
           desk_sub' = [desk_sub EXCEPT ![c] = d]
    PROVE  /\ Seats' /\ desks[d].num \in {0, 1}
           /\ Mode(c)' = IF desks[d].num = 1 THEN "game" ELSE "wait"
           /\ \A b \in Clients : b # c =>
                 /\ desk_sub'[b] = desk_sub[b]
                 /\ b \notin Seated(d) => Mode(b)' = Mode(b)
                 /\ b \in Seated(d) =>
                       desks[d].num = 1 /\ Mode(b) = "wait" /\ Mode(b)' = "game"
           /\ desks[d].num = 1 => \A b \in Clients :
                 b \in {desks'[d].seat[1], desks'[d].seat[2]} <=> b = c \/ b \in Seated(d)
<1> DEFINE n == desks[d].num
           new == Taken(desks[d], c)
<1>1. desks \in [Desks -> Desk] /\ desk_sub \in [Clients -> Desks \cup {Null}]
  BY DEF TypeOK, Desk
<1>2. desks[d] \in Desk /\ n \in {0, 1} /\ d # Null
  <2>1. desks[d] \in Desk
    BY <1>1
  <2>2. n \in 0..(DESK_MAXUSER + 1)
    BY <2>1 DEF Desk
  <2> QED BY <2>1, <2>2, Sizes, GuessAssumption
<1>3. /\ new.num = n + 1
      /\ n = 0 => new.seat[1] = c
      /\ n = 1 => new.seat[2] = c
      /\ \A k \in {1, 2} : k # n + 1 => new.seat[k] = desks[d].seat[k]
  BY <1>2, Sizes, TakenDesk
<1>4. desks'[d] = new /\ \A e \in Desks : e # d => desks'[e] = desks[e]
  BY <1>1
<1> HIDE DEF new
<1>5. desk_sub'[c] = d /\ \A b \in Clients : b # c => desk_sub'[b] = desk_sub[b]
  BY <1>1
<1>6. \A b \in Clients : desk_sub[b] = d <=> b \in Seated(d)
  BY AtDesk
<1>7. \A k \in {1, 2} : desks[d].seat[k] \in Clients <=> k <= n
  BY DEF Seats, SeatsOf
<1>8. \A e \in Desks, k \in {1, 2} : desks[e].seat[k] # c
  <2> SUFFICES ASSUME NEW e \in Desks, NEW k \in {1, 2}, desks[e].seat[k] = c PROVE FALSE
    OBVIOUS
  <2>1. c \in Seated(e) /\ e # Null
    BY GuessAssumption DEF Seated
  <2> QED BY <2>1, AtDesk
<1>9. SeatsOf'
  <2> SUFFICES ASSUME NEW e \in Desks, NEW k \in {1, 2}
               PROVE  /\ desks'[e].seat[k] \in Clients <=> k <= desks'[e].num
                      /\ desks'[e].seat[k] \in Clients => desk_sub'[desks'[e].seat[k]] = e
    BY DEF SeatsOf
  <2>0. /\ desks[e].seat[k] \in Clients <=> k <= desks[e].num
        /\ desks[e].seat[k] \in Clients => desk_sub[desks[e].seat[k]] = e
    BY DEF Seats, SeatsOf
  <2>1. CASE e # d
    BY <1>4, <1>5, <1>8, <2>0, <2>1
  <2>2. CASE e = d /\ k = n + 1
    <3>1. new.seat[k] = c
      BY <1>2, <1>3, <2>2
    <3> QED BY <1>2, <1>3, <1>4, <1>5, <2>2, <3>1
  <2>3. CASE e = d /\ k # n + 1
    <3>1. new.seat[k] = desks[d].seat[k] /\ (k <= n <=> k <= n + 1)
      BY <1>2, <1>3, <2>3
    <3> QED BY <1>3, <1>4, <1>5, <1>8, <2>0, <2>3, <3>1
  <2> QED BY <2>1, <2>2, <2>3
<1>10. \A b \in Clients : b \in {new.seat[1], new.seat[2]} <=> b = c \/ b \in Seated(d)
  <2>1. CASE n = 0
    <3>1. /\ new.seat[1] = c /\ new.seat[2] = desks[d].seat[2]
          /\ desks[d].seat[1] \notin Clients
      BY <1>3, <1>7, <2>1
    <3> QED BY <3>1 DEF Seated
  <2>2. CASE n = 1
    <3>1. /\ new.seat[2] = c /\ new.seat[1] = desks[d].seat[1]
          /\ desks[d].seat[2] \notin Clients
      BY <1>3, <1>7, <2>2
    <3> QED BY <3>1 DEF Seated
  <2> QED BY <1>2, <2>1, <2>2
<1>11. SeatOf'
  <2> SUFFICES ASSUME NEW b \in Clients, desk_sub'[b] # Null
               PROVE  b \in {desks'[desk_sub'[b]].seat[1], desks'[desk_sub'[b]].seat[2]}
    BY DEF SeatOf, Seated
  <2>1. CASE desk_sub'[b] = d
    BY <1>4, <1>5, <1>6, <1>10, <2>1
  <2>2. CASE desk_sub'[b] # d
    <3>1. b # c /\ desk_sub'[b] = desk_sub[b] /\ desk_sub[b] \in Desks
      BY <1>1, <1>5, <2>2
    <3>2. b \in Seated(desk_sub[b])
      BY <3>1 DEF Seats, SeatOf
    <3> QED BY <1>4, <2>2, <3>1, <3>2 DEF Seated
  <2> QED BY <2>1, <2>2
<1>12. TwoSeats'
  <2> SUFFICES ASSUME NEW e \in Desks, desks'[e].seat[1] \in Clients
               PROVE  desks'[e].seat[1] # desks'[e].seat[2]
    BY DEF TwoSeats
  <2>1. CASE e # d
    BY <1>4, <2>1 DEF Seats, TwoSeats
  <2>2. CASE e = d
    BY <1>2, <1>3, <1>4, <1>8, <2>2
  <2> QED BY <2>1, <2>2
<1>13. Mode(c)' = IF n = 1 THEN "game" ELSE "wait"
  BY <1>2, <1>3, <1>4, <1>5, Sizes DEF Mode
<1>14. ASSUME NEW b \in Clients, b # c
       PROVE  /\ desk_sub'[b] = desk_sub[b]
              /\ b \notin Seated(d) => Mode(b)' = Mode(b)
              /\ b \in Seated(d) => n = 1 /\ Mode(b) = "wait" /\ Mode(b)' = "game"
  <2>1. desk_sub'[b] = desk_sub[b]
    BY <1>5, <1>14
  <2>2. CASE b \notin Seated(d)
    <3>1. desk_sub[b] # d
      BY <1>6, <2>2
    <3> QED BY <1>1, <1>4, <2>1, <2>2, <3>1 DEF Mode
  <2>3. CASE b \in Seated(d)
    <3>1. desk_sub[b] = d
      BY <1>6, <2>3
    <3>2. n = 1
      BY <1>2, <1>7, <2>3 DEF Seated
    <3> QED BY <1>2, <1>3, <1>4, <2>1, <2>3, <3>1, <3>2, Sizes DEF Mode
  <2> QED BY <2>1, <2>2, <2>3
<1> QED BY <1>2, <1>4, <1>9, <1>10, <1>11, <1>12, <1>13, <1>14 DEF Seats

\* A client that nothing happens to, unless what it typed is read.
LEMMA FineSame ==
    ASSUME NEW c \in Clients, Fine(c),
           peer'[c] = "none" <=> peer[c] = "none", peer'[c] = "open" <=> peer[c] = "open",
           in'[c] = in[c], status'[c] = status[c], out'[c] = out[c] \/ out'[c] = <<>>,
           Mode(c)' = Mode(c), desk_sub'[c] = desk_sub[c]
    PROVE  Fine(c)'
<1>1. Gone(c) /\ Asks(c) /\ (peer[c] = "open" => Talk(status[c], in[c], Mode(c)))
  BY DEF Fine
<1>2. Gone(c)'
  BY <1>1 DEF Gone
<1>3. Asks(c)'
  BY <1>1 DEF Asks
<1>4. peer'[c] = "open" => Talk(status'[c], in'[c], Mode(c)')
  BY <1>1
<1> QED BY <1>2, <1>3, <1>4 DEF Fine

\* A client that is told something, with what it has to make of it, and reads on.
LEMMA FineTold ==
    ASSUME NEW c \in Clients, Fine(c), peer[c] # "none",
           peer'[c] = "none" <=> peer[c] = "none", peer'[c] = "open" <=> peer[c] = "open",
           peer[c] # "open" => in'[c] = in[c], status'[c] = status[c],
           \/ out'[c] = <<>>
           \/ out'[c] = out[c] /\ Mode(c) # "out" /\ Mode(c)' # "wait"
              /\ (Mode(c) = "wait" => Mode(c)' = "game"),
           peer[c] = "open" => Talk(status[c], in'[c], Mode(c)')
    PROVE  Fine(c)'
<1>1. Gone(c) /\ Asks(c)
  BY DEF Fine
<1>2. Gone(c)'
  BY <1>1 DEF Gone
<1>3. Asks(c)'
  BY <1>1 DEF Asks
<1> QED BY <1>2, <1>3 DEF Fine

LEMMA SentIn == ASSUME NEW net, GoodNet(net), NEW C, NEW msg, NEW c \in Clients
                PROVE  Send(net, C, msg).in[c] =
                          IF c \in C /\ peer[c] = "open" /\ msg \notin Printed
                            THEN Append(net.in[c], msg) ELSE net.in[c]
<1>1. net.peer[c] = "open" <=> peer[c] = "open"
  BY DEF GoodNet
<1> QED BY <1>1 DEF Send

\* Where people wait for the answer, what a client has asked tells where it is.
LEMMA AskedIn == ASSUME TableInv, NEW c \in Clients, Fine(c), Read(c)
                 PROVE  /\ peer[c] # "none" /\ out'[c] = <<>>
                        /\ \A b \in Clients : b # c => out'[b] = out[b]
                        /\ UNCHANGED <<status, can_guess>>
                        /\ Request(c)[1] \in {1, 2, 4}
                        /\ Request(c)[1] = 4 => Mode(c) # "wait"
                        /\ Request(c)[1] # 4 =>
                              /\ Mode(c) = "out" /\ in[c] = <<>>
                              /\ peer[c] = "open" => status[c] = Request(c)[1]
<1>1. out[c] # <<>> /\ Gone(c) /\ Asks(c) /\ TypeOK
  BY Asked DEF Fine, TableInv
<1>2. out'[c] = <<>> /\ \A b \in Clients : b # c => out'[b] = out[b]
  BY <1>1 DEF Read, TypeOK
<1>3. UNCHANGED <<status, can_guess>>
  BY DEF Read, Handle, clientVars
<1> QED BY <1>1, <1>2, <1>3 DEF Asks, Gone, Request

\* What is in force before a step of the server or of somebody.
Before == TableInv /\ GameInv /\ ~ruined /\ haste = 0

LEMMA BeforeFacts == Before => /\ TypeOK /\ Seats /\ NoCrowd /\ Exact /\ EventTrue
                               /\ \A c \in Clients : /\ Fine(c) /\ in[c] \in Seq(Messages)
                                                     /\ status[c] \in 1..5
BY DEF Before, TableInv, GameInv, TypeOK

\* A step that nobody in a game can notice.
LEMMA QuietGame ==
    ASSUME Before, UNCHANGED <<desks, desk_sub, peer, out, in, status>>
    PROVE  GameInv'
<1>1. Seats' /\ \A c \in Clients : Mode(c)' = Mode(c)
  BY BeforeFacts, SeatsSame
<1>2. ASSUME NEW c \in Clients  PROVE Fine(c)'
  BY <1>1, BeforeFacts, FineSame
<1> QED BY <1>1, <1>2 DEF GameInv

LEMMA ReadMessageGame == ASSUME Before, NEW c \in Clients, ReadMessage(c)
                         PROVE  GameInv'
<1>1. /\ TypeOK /\ Seats /\ Fine(c) /\ in[c] \in Seq(Messages) /\ status[c] \in 1..5
      /\ in[c] # <<>> /\ peer[c] = "open"
  BY BeforeFacts DEF ReadMessage
<1>2. UNCHANGED <<desks, desk_sub, peer, out>>
  BY DEF ReadMessage, serverVars
<1>3. Seats' /\ \A b \in Clients : Mode(b)' = Mode(b)
  BY <1>1, <1>2, SeatsSame
<1>4. status'[c] = After(status[c], Head(in[c])) /\ in'[c] = Tail(in[c])
  BY <1>1 DEF ReadMessage, After, TypeOK
<1>5. \A b \in Clients : b # c => status'[b] = status[b] /\ in'[b] = in[b]
  BY <1>1 DEF ReadMessage, TypeOK
<1>6. Talk(status'[c], in'[c], Mode(c)')
  <2>1. Talk(status[c], in[c], Mode(c))
    BY <1>1 DEF Fine
  <2> QED BY <1>1, <1>3, <1>4, <2>1, TalkTail
<1>7. Fine(c)'
  <2>1. Gone(c) /\ Asks(c)
    BY <1>1 DEF Fine
  <2>2. Gone(c)'
    BY <1>1, <1>2, <2>1 DEF Gone
  <2>3. Asks(c)'
    BY <1>1, <1>2, <1>3, <2>1 DEF Asks
  <2> QED BY <1>6, <2>2, <2>3 DEF Fine
<1>8. ASSUME NEW b \in Clients, b # c  PROVE Fine(b)'
  BY <1>2, <1>3, <1>5, <1>8, BeforeFacts, FineSame
<1> QED BY <1>3, <1>7, <1>8 DEF GameInv

LEMMA TypeGame == ASSUME Before, NEW c \in Clients, NEW text, Type(c, text), haste' = 0
                  PROVE  GameInv'
<1>1. /\ TypeOK /\ Seats /\ Fine(c) /\ status[c] \in 1..5 /\ peer[c] = "open"
      /\ in[c] \in Seq(Messages)
  BY BeforeFacts DEF Type
<1>2. UNCHANGED <<desks, desk_sub, peer, in, status>>
  BY DEF Type, serverVars
<1>3. Seats' /\ \A b \in Clients : Mode(b)' = Mode(b)
  BY <1>1, <1>2, SeatsSame
<1>4. out[c] = <<>> /\ status[c] # 3 /\ (status[c] # 4 => in[c] = <<>>)
  <2>1. ~Hasty(c)
    BY DEF Before, Type
  <2> QED BY <2>1 DEF Hasty
<1>5. /\ out'[c] = Append(<<>>, <<status[c], text>>)
      /\ \A b \in Clients : b # c => out'[b] = out[b]
  BY <1>1, <1>4 DEF Type, TypeOK
<1>6. Talk(status[c], in[c], Mode(c)) /\ Gone(c)
  BY <1>1 DEF Fine
<1>7. /\ status[c] = 4 => Mode(c) # "wait"
      /\ status[c] # 4 => Mode(c) = "out" /\ status[c] \in {1, 2}
  BY <1>1, <1>4, <1>6, NoMessage, Modes DEF Talk
<1>8. out'[c] # <<>> /\ Len(out'[c]) = 1 /\ Head(out'[c])[1] = status[c]
  <2>1. out'[c] = << <<status[c], text>> >>
    BY <1>5
  <2> QED BY <2>1
<1>9. Fine(c)'
  <2>1. Gone(c)'
    BY <1>1, <1>2, <1>6 DEF Gone
  <2>2. Asks(c)'
    BY <1>1, <1>2, <1>3, <1>4, <1>7, <1>8 DEF Asks
  <2> QED BY <1>1, <1>2, <1>3, <1>6, <2>1, <2>2 DEF Fine
<1>10. ASSUME NEW b \in Clients, b # c  PROVE Fine(b)'
  BY <1>2, <1>3, <1>5, <1>10, BeforeFacts, FineSame
<1> QED BY <1>3, <1>9, <1>10 DEF GameInv

LEMMA LeaveGame == ASSUME Before, NEW c \in Clients, NEW how \in Ends, Leave(c, how)
                   PROVE  GameInv'
<1>1. TypeOK /\ Seats /\ Fine(c) /\ peer[c] # "none" /\ how \notin {"none", "open"}
  BY BeforeFacts DEF Leave
<1>2. UNCHANGED <<desks, desk_sub, out>>
  BY DEF Leave, serverVars
<1>3. Seats' /\ \A b \in Clients : Mode(b)' = Mode(b)
  BY <1>1, <1>2, SeatsSame
<1>4. /\ peer'[c] = how /\ in'[c] = <<>> /\ status'[c] = 1
      /\ \A b \in Clients : b # c =>
            peer'[b] = peer[b] /\ in'[b] = in[b] /\ status'[b] = status[b]
  BY <1>1 DEF Leave, TypeOK
<1>5. Fine(c)'
  <2>1. Asks(c)
    BY <1>1 DEF Fine
  <2>2. Gone(c)'
    BY <1>1, <1>4 DEF Gone
  <2>3. Asks(c)'
    BY <1>1, <1>2, <1>3, <1>4, <2>1 DEF Asks
  <2> QED BY <1>1, <1>4, <2>2, <2>3 DEF Fine
<1>6. ASSUME NEW b \in Clients, b # c  PROVE Fine(b)'
  BY <1>2, <1>3, <1>4, <1>6, BeforeFacts, FineSame
<1> QED BY <1>3, <1>5, <1>6 DEF GameInv

LEMMA AcceptGame == ASSUME Before, NEW c \in Clients, Accept(c)
                    PROVE  GameInv'
<1>1. TypeOK /\ Seats /\ Fine(c) /\ peer[c] = "none"
  BY BeforeFacts DEF Accept
<1>2. out[c] = <<>> /\ desk_sub[c] = Null /\ in[c] = <<>> /\ status[c] = 1
  BY <1>1 DEF Fine, Gone
<1>3. UNCHANGED <<desks, in, out, status>> /\ desk_sub' = desk_sub
  BY <1>1, <1>2 DEF Accept, clientVars, TypeOK
<1>4. Seats' /\ \A b \in Clients : Mode(b)' = Mode(b)
  BY <1>1, <1>3, SeatsSame
<1>5. peer'[c] = "open" /\ \A b \in Clients : b # c => peer'[b] = peer[b]
  BY <1>1 DEF Accept, TypeOK
<1>6. Fine(c)'
  <2>1. Mode(c) = "out" /\ Talk(1, <<>>, "out")
    BY <1>2, NoMessage DEF Mode, Talk
  <2>2. Gone(c)' /\ Asks(c)'
    BY <1>2, <1>3, <1>5 DEF Gone, Asks
  <2> QED BY <1>2, <1>3, <1>4, <2>1, <2>2 DEF Fine
<1>7. ASSUME NEW b \in Clients, b # c  PROVE Fine(b)'
  BY <1>3, <1>4, <1>5, <1>7, BeforeFacts, FineSame
<1> QED BY <1>4, <1>6, <1>7 DEF GameInv

-----------------------------------------------------------------------------
LEMMA SendDeskGame == ASSUME Before, NEW c \in Clients, SendDeskMsg(c)
                      PROVE  GameInv'
<1> DEFINE net == Send(Net, {c}, "GETDESK")
<1>1. TypeOK /\ Seats /\ Fine(c) /\ Read(c) /\ Request(c)[1] = 1 /\ TableInv
  BY BeforeFacts DEF SendDeskMsg, Before
<1>2. UNCHANGED <<desks, desk_sub>> /\ peer' = net.peer /\ in' = net.in
  BY DEF SendDeskMsg, Sent
<1>3. GoodNet(Net) /\ GoodNet(net)
  BY <1>1, NoneSent, SendGood DEF Messages
<1>4. \A b \in Clients : in'[b] = IF b = c /\ peer[b] = "open" THEN Append(in[b], "GETDESK")
                                                              ELSE in[b]
  BY <1>2, <1>3, SentIn DEF Printed, Net
<1>5. \A b \in Clients : /\ peer'[b] = "none" <=> peer[b] = "none"
                         /\ peer'[b] = "open" <=> peer[b] = "open"
  BY <1>2, <1>3 DEF GoodNet
<1>6. Seats' /\ \A b \in Clients : Mode(b)' = Mode(b)
  BY <1>1, <1>2, SeatsSame
<1>7. /\ peer[c] # "none" /\ out'[c] = <<>> /\ \A b \in Clients : b # c => out'[b] = out[b]
      /\ status' = status /\ Mode(c) = "out" /\ in[c] = <<>>
      /\ peer[c] = "open" => status[c] = 1
  BY <1>1, AskedIn
<1>8. peer[c] = "open" => Talk(status[c], in'[c], Mode(c)')
  BY <1>4, <1>6, <1>7, TalkAnswered
<1>9. Fine(c)'
  BY <1>1, <1>4, <1>5, <1>7, <1>8, FineTold
<1>10. ASSUME NEW b \in Clients, b # c  PROVE Fine(b)'
  BY <1>2, <1>4, <1>5, <1>6, <1>7, <1>10, BeforeFacts, FineSame
<1> QED BY <1>6, <1>9, <1>10 DEF GameInv

LEMMA RefusedGame == ASSUME Before, NEW c \in Clients, AddToDeskRefused(c)
                     PROVE  GameInv'
<1> DEFINE net == Send(Net, {c}, "ENTERFALSE")
<1>1. TypeOK /\ Seats /\ Fine(c) /\ Read(c) /\ TableInv
  BY BeforeFacts DEF AddToDeskRefused, Before
<1>2. UNCHANGED <<desks, desk_sub>> /\ peer' = net.peer /\ in' = net.in
  BY DEF AddToDeskRefused, Sent
<1>3. GoodNet(Net) /\ GoodNet(net)
  BY <1>1, NoneSent, SendGood DEF Printed
<1>4. \A b \in Clients : in'[b] = in[b]
  BY <1>2, <1>3, SentIn DEF Printed, Net
<1>5. \A b \in Clients : /\ peer'[b] = "none" <=> peer[b] = "none"
                         /\ peer'[b] = "open" <=> peer[b] = "open"
  BY <1>2, <1>3 DEF GoodNet
<1>6. Seats' /\ \A b \in Clients : Mode(b)' = Mode(b)
  BY <1>1, <1>2, SeatsSame
<1>7. /\ out'[c] = <<>> /\ \A b \in Clients : b # c => out'[b] = out[b]
      /\ status' = status
  BY <1>1, AskedIn
<1>8. ASSUME NEW b \in Clients  PROVE Fine(b)'
  BY <1>2, <1>4, <1>5, <1>6, <1>7, BeforeFacts, FineSame
<1> QED BY <1>6, <1>8 DEF GameInv

\* Who sits down at a full desk writes behind its end.
LEMMA SitLives ==
    ASSUME TableInv, NEW c \in Clients, AddToDesk(c), ~ruined'
    PROVE  LET d    == Request(c)[2]
               n    == desks[d].num
               told == IF n = 1 THEN {desks'[d].seat[1], desks'[d].seat[2]} ELSE {c}
               net  == Send(Net, told, IF n = 1 THEN "GAMESTATUS" ELSE "ENTER")
           IN  n < DESK_MAXUSER /\ n \in 0..2 /\ peer' = net.peer /\ in' = net.in
<1> DEFINE d == Request(c)[2]
           n == desks[d].num
           refused == IF n >= DESK_MAXUSER THEN Send(Net, {c}, "ENTERFALSE") ELSE Net
<1>1. TypeOK /\ NoCrowd /\ d \in Desks
  BY SitDesk
<1>2. n \in 0..2
  <2> HIDE DEF d
  <2> QED BY <1>1, Sizes DEF TypeOK, NoCrowd
<1>3. IF n + 1 = DESK_MAXUSER
        THEN Sent(Send(refused, {desks'[d].seat[1], desks'[d].seat[2]}, "GAMESTATUS"), FALSE)
        ELSE Sent(Send(refused, {c}, "ENTER"), n >= DESK_MAXUSER)
  BY DEF AddToDesk
<1>4. n < DESK_MAXUSER => refused = Net
  BY <1>2, Sizes
<1> HIDE DEF refused, n, d
<1>5. n < DESK_MAXUSER
  <2> SUFFICES ASSUME n = 2 PROVE FALSE
    BY <1>2, Sizes
  <2>1. Sent(Send(refused, {c}, "ENTER"), n >= DESK_MAXUSER) /\ n >= DESK_MAXUSER
    BY <1>3, Sizes
  <2> QED BY <2>1 DEF Sent
<1>6. CASE n = 1
  BY <1>2, <1>3, <1>4, <1>5, <1>6, Sizes DEF Sent, n, d
<1>7. CASE n = 0
  BY <1>2, <1>3, <1>4, <1>5, <1>7, Sizes DEF Sent, n, d
<1> QED BY <1>2, <1>5, <1>6, <1>7, Sizes

LEMMA SitGame == ASSUME Before, NEW c \in Clients, AddToDesk(c), ~ruined'
                 PROVE  GameInv'
<1> DEFINE d == Request(c)[2]
           n == desks[d].num
           told == IF n = 1 THEN {desks'[d].seat[1], desks'[d].seat[2]} ELSE {c}
           msg == IF n = 1 THEN "GAMESTATUS" ELSE "ENTER"
           net == Send(Net, told, msg)
<1>1. TypeOK /\ Seats /\ NoCrowd /\ Fine(c) /\ Read(c) /\ TableInv /\ Request(c)[1] \in {2, 3}
  BY BeforeFacts DEF AddToDesk, Before
<1>2. /\ peer[c] # "none" /\ out'[c] = <<>> /\ \A b \in Clients : b # c => out'[b] = out[b]
      /\ status' = status /\ Mode(c) = "out" /\ in[c] = <<>>
      /\ peer[c] = "open" => status[c] = 2
  BY <1>1, AskedIn
<1>3. d \in Desks /\ desks' = [desks EXCEPT ![d] = Taken(desks[d], c)]
  BY <1>1, SitDesk
<1>4. desk_sub[c] = Null /\ desk_sub' = [desk_sub EXCEPT ![c] = d]
  BY <1>2, Modes DEF AddToDesk
<1>5. n < DESK_MAXUSER /\ n \in 0..2 /\ peer' = net.peer /\ in' = net.in
  BY <1>1, SitLives
<1>6. n < DESK_MAXUSER /\ peer' = net.peer /\ in' = net.in
  BY <1>5
<1>7. /\ Seats' /\ n \in {0, 1}
      /\ Mode(c)' = IF n = 1 THEN "game" ELSE "wait"
      /\ \A b \in Clients : b # c =>
            /\ desk_sub'[b] = desk_sub[b]
            /\ b \notin Seated(d) => Mode(b)' = Mode(b)
            /\ b \in Seated(d) => n = 1 /\ Mode(b) = "wait" /\ Mode(b)' = "game"
      /\ n = 1 => \A b \in Clients :
            b \in {desks'[d].seat[1], desks'[d].seat[2]} <=> b = c \/ b \in Seated(d)
  <2> HIDE DEF d
  <2> QED BY <1>1, <1>3, <1>4, <1>6, SeatsSit
<1>8. GoodNet(Net) /\ GoodNet(net)
  <2>1. msg \in Messages
    BY DEF Messages
  <2> HIDE DEF told, msg
  <2> QED BY <1>1, <2>1, NoneSent, SendGood
<1> HIDE DEF d, n
<1>9. \A b \in Clients : in'[b] = IF b \in told /\ peer[b] = "open" THEN Append(in[b], msg)
                                                                  ELSE in[b]
  <2>1. msg \notin Printed
    BY DEF Printed
  <2> HIDE DEF told, msg
  <2> QED BY <1>6, <1>8, <2>1, SentIn DEF Net
<1>10. \A b \in Clients : /\ peer'[b] = "none" <=> peer[b] = "none"
                          /\ peer'[b] = "open" <=> peer[b] = "open"
  BY <1>6, <1>8 DEF GoodNet
<1> HIDE DEF net
<1>11. Fine(c)'
  <2>1. peer[c] = "open" => Talk(status[c], in'[c], Mode(c)')
    <3> SUFFICES ASSUME peer[c] = "open" PROVE Talk(status[c], in'[c], Mode(c)')
      OBVIOUS
    <3>1. status[c] = 2 /\ in'[c] = Append(<<>>, msg)
      BY <1>2, <1>7, <1>9
    <3>2. CASE n = 1
      BY <1>7, <3>1, <3>2, TalkAnswered
    <3>3. CASE n # 1
      BY <1>7, <3>1, <3>3, TalkAnswered
    <3> QED BY <3>2, <3>3
  <2>2. peer[c] # "open" => in'[c] = in[c]
    BY <1>9
  <2> QED BY <1>1, <1>2, <1>10, <2>1, <2>2, FineTold
<1>12. ASSUME NEW b \in Clients, b # c  PROVE Fine(b)'
  <2>1. Fine(b) /\ in[b] \in Seq(Messages) /\ status[b] \in 1..5
    BY BeforeFacts
  <2>2. CASE b \notin Seated(d)
    <3>1. b \notin told
      BY <1>7, <1>12, <2>2
    <3>2. in'[b] = in[b] /\ Mode(b)' = Mode(b) /\ desk_sub'[b] = desk_sub[b]
      BY <1>7, <1>9, <1>12, <2>2, <3>1
    <3> QED BY <1>2, <1>10, <1>12, <2>1, <3>2, FineSame
  <2>3. CASE b \in Seated(d)
    <3>1. n = 1 /\ Mode(b) = "wait" /\ Mode(b)' = "game" /\ b \in told
      BY <1>7, <1>12, <2>3
    <3>2. in'[b] = IF peer[b] = "open" THEN Append(in[b], "GAMESTATUS") ELSE in[b]
      BY <1>9, <3>1
    <3>3. peer[b] = "open" => Talk(status[b], in'[b], Mode(b)')
      BY <2>1, <3>1, <3>2, TalkTold DEF Fine
    <3>4. peer[b] # "none"
      BY <2>1, <3>1, Modes DEF Fine, Gone
    <3> QED BY <1>2, <1>10, <1>12, <2>1, <3>1, <3>2, <3>3, <3>4, FineTold
  <2> QED BY <2>2, <2>3
<1> QED BY <1>7, <1>11, <1>12 DEF GameInv

\* A guess that is not right changes the limits of the desk at most.
LEMMA MissDesks ==
    ASSUME TypeOK, NEW c \in Clients, NEW ans \in 0..(MAX_NUM - 1),
           PlayOutOfRange(c, ans) \/ PlayMiss(c, ans)
    PROVE  /\ desk_sub[c] \in Desks /\ desk_sub' = desk_sub
           /\ \A d \in Desks : desks'[d].num = desks[d].num /\ desks'[d].seat = desks[d].seat
<1> DEFINE game == Game(c, ans)
           d == desk_sub[c]
<1>1. d # Null /\ desk_sub' = desk_sub
  BY DEF PlayOutOfRange, PlayMiss, Guess
<1>2. d \in Desks /\ game \in Desk /\ game.num = desks[d].num /\ game.seat = desks[d].seat
  BY <1>1, GameDesk
<1>3. PICK new : /\ new.num = game.num /\ new.seat = game.seat
                 /\ desks' = [desks EXCEPT ![d] = new]
  <2> HIDE DEF game
  <2>1. CASE PlayOutOfRange(c, ans)
    BY <2>1 DEF PlayOutOfRange, game
  <2>2. CASE PlayMiss(c, ans)
    <3> DEFINE new == IF Request(c)[2] < game.ans THEN [game EXCEPT !.min = Request(c)[2]]
                                                  ELSE [game EXCEPT !.max = Request(c)[2]]
    <3>1. desks' = [desks EXCEPT ![d] = new]
      BY <2>2 DEF PlayMiss, game
    <3>2. new.num = game.num /\ new.seat = game.seat
      BY <1>2 DEF Desk
    <3> QED BY <3>1, <3>2
  <2> QED BY <2>1, <2>2
<1>4. desks \in [Desks -> Desk]
  BY DEF TypeOK, Desk
<1> HIDE DEF d, game
<1>5. \A e \in Desks : desks'[e] = IF e = d THEN new ELSE desks[e]
  BY <1>2, <1>3, <1>4
<1>6. \A e \in Desks : desks'[e].num = desks[e].num /\ desks'[e].seat = desks[e].seat
  BY <1>2, <1>3, <1>5
<1> QED BY <1>1, <1>2, <1>6 DEF d

LEMMA MissGame ==
    ASSUME Before, NEW c \in Clients, NEW ans \in 0..(MAX_NUM - 1),
           PlayOutOfRange(c, ans) \/ PlayMiss(c, ans)
    PROVE  GameInv'
<1> DEFINE d == desk_sub[c]
<1>1. TypeOK /\ Seats /\ Fine(c) /\ Read(c) /\ TableInv /\ Request(c)[1] = 4
  BY BeforeFacts DEF PlayOutOfRange, PlayMiss, Guess, Before
<1>2. /\ peer[c] # "none" /\ out'[c] = <<>> /\ \A b \in Clients : b # c => out'[b] = out[b]
      /\ status' = status /\ Mode(c) # "wait"
  BY <1>1, AskedIn
<1>3. d \in Desks /\ d # Null /\ desk_sub' = desk_sub
  BY <1>1, MissDesks, GuessAssumption
<1>4. Seats' /\ \A b \in Clients : Mode(b)' = Mode(b)
  BY <1>1, MissDesks, SeatsSame
<1>5. \A b \in Seated(d) \cap Clients : Mode(b) = "game"
  <2>1. desks[d].num = DESK_MAXUSER
    BY <1>2, <1>3, Modes
  <2>2. \A b \in Seated(d) \cap Clients : desk_sub[b] = d
    BY <1>1, <1>3, AtDesk
  <2> QED BY <1>3, <2>1, <2>2, Modes
<1>6. c \in Seated(d)
  BY <1>1, <1>3, AtDesk
<1> HIDE DEF d
<1>7. PICK told, net :
         /\ told \in SUBSET Seated(d)
         /\ GoodNet(net) /\ peer' = net.peer /\ in' = net.in
         /\ \A b \in Clients : net.in[b] = IF b \in told /\ peer[b] = "open"
                                             THEN Append(in[b], "GAME") ELSE in[b]
  <2>0. GoodNet(Net) /\ {"GAME", "RANGE"} \subseteq Messages \cup Printed /\ "GAME" \notin Printed
    BY <1>1, NoneSent DEF Messages, Printed
  <2>1. CASE PlayOutOfRange(c, ans)
    <3> DEFINE net == Send(Net, {c}, "GAME")
               told == {c}
    <3>1. GoodNet(net) /\ peer' = net.peer /\ in' = net.in
      BY <2>0, <2>1, SendGood DEF PlayOutOfRange, Sent
    <3>2. \A b \in Clients : net.in[b] = IF b \in told /\ peer[b] = "open"
                                           THEN Append(in[b], "GAME") ELSE in[b]
      BY <2>0, SentIn DEF Net
    <3>3. told \in SUBSET Seated(d)
      BY <1>6
    <3> HIDE DEF net, told
    <3> QED BY <3>1, <3>2, <3>3
  <2>2. CASE PlayMiss(c, ans)
    <3> DEFINE told == Seated(d) \ {c}
               net == Send(Net, told, "GAME")
               all == Send(net, Seated(d), "RANGE")
    <3>1. GoodNet(net)
      BY <2>0, SendGood
    <3>2. \A b \in Clients : net.in[b] = IF b \in told /\ peer[b] = "open"
                                           THEN Append(in[b], "GAME") ELSE in[b]
      BY <2>0, SentIn DEF Net
    <3>5. told \in SUBSET Seated(d)
      OBVIOUS
    <3> HIDE DEF net
    <3>3. GoodNet(all) /\ \A b \in Clients : all.in[b] = net.in[b]
      BY <2>0, <3>1, SendGood, SentIn DEF Printed
    <3>4. peer' = all.peer /\ in' = all.in
      BY <2>2 DEF PlayMiss, Sent, d, net
    <3> HIDE DEF all, told
    <3>6. \A b \in Clients : all.in[b] = IF b \in told /\ peer[b] = "open"
                                           THEN Append(in[b], "GAME") ELSE in[b]
      BY <3>2, <3>3
    <3> QED BY <3>3, <3>4, <3>5, <3>6
  <2> QED BY <2>1, <2>2
<1>8. \A b \in Clients : /\ peer'[b] = "none" <=> peer[b] = "none"
                         /\ peer'[b] = "open" <=> peer[b] = "open"
  BY <1>7 DEF GoodNet
<1>9. ASSUME NEW b \in Clients  PROVE Fine(b)'
  <2>1. Fine(b) /\ in[b] \in Seq(Messages) /\ status[b] \in 1..5
    BY BeforeFacts
  <2>2. CASE b \notin told \/ peer[b] # "open"
    <3>1. in'[b] = in[b] /\ desk_sub'[b] = desk_sub[b] /\ status'[b] = status[b]
      BY <1>2, <1>3, <1>7, <2>2
    <3>2. out'[b] = out[b] \/ out'[b] = <<>>
      BY <1>2
    <3> QED BY <1>4, <1>8, <2>1, <3>1, <3>2, FineSame
  <2>3. CASE b \in told /\ peer[b] = "open"
    <3>1. Mode(b) = "game" /\ Mode(b)' = "game" /\ in'[b] = Append(in[b], "GAME")
      BY <1>4, <1>5, <1>7, <2>3
    <3>2. Talk(status[b], in'[b], Mode(b)')
      BY <2>1, <2>3, <3>1, TalkTold DEF Fine
    <3>3. out'[b] = out[b] \/ out'[b] = <<>>
      BY <1>2
    <3> QED BY <1>2, <1>8, <2>1, <2>3, <3>1, <3>2, <3>3, FineTold
  <2> QED BY <2>2, <2>3
<1> QED BY <1>4, <1>9 DEF GameInv

LEMMA HitGame ==
    ASSUME Before, NEW c \in Clients, NEW ans \in 0..(MAX_NUM - 1), PlayHit(c, ans)
    PROVE  GameInv'
<1> DEFINE d == desk_sub[c]
           here == Seated(d)
           net == Send(Net, here \ {c}, "GAME")
           all == Send(net, here, "RESULT")
<1>1. TypeOK /\ Seats /\ Fine(c) /\ Read(c) /\ TableInv /\ Request(c)[1] = 4 /\ d # Null
  BY BeforeFacts DEF PlayHit, Guess, Before
<1>2. /\ peer[c] # "none" /\ out'[c] = <<>> /\ \A b \in Clients : b # c => out'[b] = out[b]
      /\ status' = status /\ Mode(c) # "wait"
  BY <1>1, AskedIn
<1>3. d \in Desks /\ Game(c, ans) \in Desk
  BY <1>1, GameDesk
<1>4. PICK new : /\ new.num = 0 /\ new.seat = <<Null, Null>>
                 /\ desks' = [desks EXCEPT ![d] = new]
  BY <1>3, ClearedDesk DEF PlayHit
<1>5. desk_sub' = [b \in Clients |-> IF b \in Seated(d) THEN Null ELSE desk_sub[b]]
  BY DEF PlayHit
<1>6. \A b \in here \cap Clients : Mode(b) = "game"
  <2>1. desks[d].num = DESK_MAXUSER
    BY <1>1, <1>2, Modes
  <2>2. \A b \in here \cap Clients : desk_sub[b] = d
    BY <1>1, <1>3, AtDesk
  <2> QED BY <1>1, <2>1, <2>2, Modes
<1>7. /\ Seats'
      /\ \A b \in Clients :
            IF b \in here THEN Mode(b)' = "out" /\ desk_sub'[b] = Null
                          ELSE Mode(b)' = Mode(b) /\ desk_sub'[b] = desk_sub[b]
  <2> HIDE DEF d
  <2> QED BY <1>1, <1>3, <1>4, <1>5, SeatsReset
<1>8. /\ GoodNet(Net) /\ {"GAME", "RESULT"} \subseteq Messages
      /\ "GAME" \notin Printed /\ "RESULT" \notin Printed
  BY <1>1, NoneSent DEF Messages, Printed
<1>9. peer' = all.peer /\ in' = all.in
  BY DEF PlayHit, Sent
<1> HIDE DEF d, here
<1>10. GoodNet(net) /\ \A b \in Clients : net.in[b] =
          IF b \in here \ {c} /\ peer[b] = "open" THEN Append(in[b], "GAME") ELSE in[b]
  <2>1. GoodNet(net)
    BY <1>8, SendGood
  <2>2. Net.in = in
    BY DEF Net
  <2> QED BY <1>8, <2>1, <2>2, SentIn
<1> HIDE DEF net
<1>11. GoodNet(all) /\ \A b \in Clients : all.in[b] =
          IF b \in here /\ peer[b] = "open" THEN Append(net.in[b], "RESULT") ELSE net.in[b]
  BY <1>8, <1>10, SendGood, SentIn
<1> HIDE DEF all
<1>12. \A b \in Clients : /\ peer'[b] = "none" <=> peer[b] = "none"
                          /\ peer'[b] = "open" <=> peer[b] = "open"
  BY <1>9, <1>11 DEF GoodNet
<1>13. ASSUME NEW b \in Clients  PROVE Fine(b)'
  <2>1. Fine(b) /\ in[b] \in Seq(Messages) /\ status[b] \in 1..5
    BY BeforeFacts
  <2>2. out'[b] = out[b] \/ out'[b] = <<>>
    BY <1>2
  <2>3. CASE b \notin here
    <3>1. in'[b] = in[b] /\ status'[b] = status[b]
      BY <1>2, <1>9, <1>10, <1>11, <2>3
    <3> QED BY <1>7, <1>12, <2>1, <2>2, <2>3, <3>1, FineSame
  <2>4. CASE b \in here
    <3>1. Mode(b) = "game" /\ Mode(b)' = "out"
      BY <1>6, <1>7, <2>4
    <3>2. peer[b] # "open" => in'[b] = in[b]
      BY <1>9, <1>10, <1>11
    <3>3. ASSUME peer[b] = "open"  PROVE Talk(status[b], in'[b], "out")
      <4>1. Talk(status[b], in[b], "game")
        BY <2>1, <3>1, <3>3 DEF Fine
      <4>2. in'[b] = Append(net.in[b], "RESULT")
        BY <1>9, <1>11, <2>4, <3>3
      <4>3. net.in[b] \in Seq(Messages) /\ Talk(status[b], net.in[b], "game")
        <5>1. CASE b = c
          BY <1>10, <2>1, <4>1, <5>1
        <5>2. CASE b # c
          <6>1. net.in[b] = Append(in[b], "GAME") /\ "GAME" \in Messages
            BY <1>8, <1>10, <2>4, <3>3, <5>2
          <6> QED BY <2>1, <4>1, <6>1, TalkTold, AppendAt
        <5> QED BY <5>1, <5>2
      <4> QED BY <2>1, <4>2, <4>3, TalkTold
    <3>4. peer[b] # "none"
      BY <2>1, <3>1, Modes DEF Fine, Gone
    <3> QED BY <1>2, <1>12, <2>1, <2>2, <3>1, <3>2, <3>3, <3>4, FineTold
  <2> QED BY <2>3, <2>4
<1> QED BY <1>7, <1>13 DEF GameInv

LEMMA LeftGame == ASSUME Before, NEW c \in Clients, RemoveLeftClient(c), ~ruined'
                  PROVE  GameInv'
<1> DEFINE d == desk_sub[c]
           others == Seated(d) \ {c}
           net == IF d = Null THEN Net ELSE Send(Net, others, "RESULT")
<1>1. TypeOK /\ Seats /\ NoCrowd /\ Fine(c) /\ Exact /\ EventTrue
  BY BeforeFacts
<1>2. i \in 1..MAX_USER /\ fds[i].revents = "RDHUP" /\ fds[i].fd = c
  BY <1>1, Sizes DEF RemoveLeftClient, Handle, TypeOK, InPoll
<1>3. peer[c] # "open" /\ in[c] = <<>> /\ status[c] = 1
  <2>1. peer[c] # "open"
    BY <1>1, <1>2, GuessAssumption DEF EventTrue, IsSo
  <2> QED BY <1>1, <2>1 DEF Fine, Gone
<1>4. /\ out'[c] = <<>> /\ \A b \in Clients : b # c => out'[b] = out[b]
      /\ status' = status
  BY <1>1 DEF RemoveLeftClient, Handle, clientVars, TypeOK
<1>5. /\ Seats' /\ desk_sub'[c] = Null
      /\ \A b \in Clients : b # c =>
            IF d # Null /\ b \in Seated(d)
              THEN Mode(b) = "game" /\ Mode(b)' = "out"
              ELSE Mode(b)' = Mode(b) /\ desk_sub'[b] = desk_sub[b]
  <2>1. CASE d = Null
    <3>1. UNCHANGED <<desks, desk_sub>>
      BY <2>1 DEF RemoveLeftClient
    <3>2. Seats' /\ \A b \in Clients : Mode(b)' = Mode(b)
      BY <1>1, <3>1, SeatsSame
    <3> QED BY <2>1, <3>1, <3>2
  <2>2. CASE d # Null
    <3>1. Reset(d)
      BY <2>2 DEF RemoveLeftClient
    <3>2. d \in Desks /\ desks[d] \in Desk /\ desks[d].num <= DESK_MAXUSER
      BY <1>1, <2>2 DEF TypeOK, Desk, NoCrowd
    <3>3. PICK new : /\ new.num = 0 /\ new.seat = <<Null, Null>>
                     /\ desks' = [desks EXCEPT ![d] = new]
      BY <3>1, <3>2, ClearedDesk DEF Reset
    <3>4. desk_sub' = [b \in Clients |-> IF b \in Seated(d) THEN Null ELSE desk_sub[b]]
      BY <3>1 DEF Reset
    <3>5. /\ Seats'
          /\ \A b \in Clients :
                IF b \in Seated(d) THEN Mode(b)' = "out" /\ desk_sub'[b] = Null
                                   ELSE Mode(b)' = Mode(b) /\ desk_sub'[b] = desk_sub[b]
      <4> HIDE DEF d
      <4> QED BY <1>1, <3>2, <3>3, <3>4, SeatsReset
    <3>6. c \in Seated(d)
      BY <1>1, <3>2, AtDesk
    <3>7. ASSUME NEW b \in Clients, b # c, b \in Seated(d)  PROVE Mode(b) = "game"
      <4>1. desk_sub[b] = d
        BY <1>1, <3>2, <3>7, AtDesk
      <4>2. desks[d].seat[2] \in Clients
        BY <3>6, <3>7 DEF Seated
      <4>3. 2 <= desks[d].num
        BY <1>1, <3>2, <4>2 DEF Seats, SeatsOf
      <4>4. desks[d].num = DESK_MAXUSER
        BY <3>2, <4>3, Sizes DEF Desk
      <4> QED BY <2>2, <4>1, <4>4, Modes
    <3> QED BY <2>2, <3>5, <3>6, <3>7
  <2> QED BY <2>1, <2>2
<1> HIDE DEF d
<1>6. GoodNet(Net) /\ "RESULT" \in Messages /\ "RESULT" \notin Printed /\ Net.in = in
  BY <1>1, NoneSent DEF Messages, Printed, Net
<1>7. /\ GoodNet(net)
      /\ \A b \in Clients : net.in[b] =
            IF d # Null /\ b \in others /\ peer[b] = "open" THEN Append(in[b], "RESULT")
                                                            ELSE in[b]
  <2> HIDE DEF others
  <2>1. GoodNet(Send(Net, others, "RESULT"))
    BY <1>6, SendGood
  <2>2. \A b \in Clients : Send(Net, others, "RESULT").in[b] =
           IF b \in others /\ peer[b] = "open" THEN Append(in[b], "RESULT") ELSE in[b]
    BY <1>6, SentIn
  <2> QED BY <1>6, <2>1, <2>2
<1>8. peer' = [net.peer EXCEPT ![c] = "none"] /\ in' = [net.in EXCEPT ![c] = <<>>]
  <2>1. \E ruins : Sent([net EXCEPT !.peer[c] = "none", !.in[c] = <<>>], ruins)
    BY DEF RemoveLeftClient, d
  <2>2. net = [peer |-> net.peer, in |-> net.in, killed |-> net.killed]
    BY DEF Net, Send
  <2> HIDE DEF net
  <2> QED BY <2>1, <2>2 DEF Sent
<1> HIDE DEF net
<1>9. /\ peer'[c] = "none" /\ in'[c] = <<>>
      /\ \A b \in Clients : b # c =>
            /\ peer'[b] = "none" <=> peer[b] = "none"
            /\ peer'[b] = "open" <=> peer[b] = "open"
            /\ in'[b] = net.in[b]
  BY <1>7, <1>8 DEF GoodNet
<1>10. Fine(c)'
  BY <1>3, <1>4, <1>5, <1>9 DEF Fine, Gone, Asks
<1>11. ASSUME NEW b \in Clients, b # c  PROVE Fine(b)'
  <2>1. /\ Fine(b) /\ in[b] \in Seq(Messages) /\ status[b] \in 1..5
        /\ peer'[b] = "none" <=> peer[b] = "none"
        /\ peer'[b] = "open" <=> peer[b] = "open"
        /\ out'[b] = out[b] /\ status'[b] = status[b]
    BY <1>4, <1>9, <1>11, BeforeFacts
  <2>2. CASE d = Null \/ b \notin Seated(d)
    <3>1. in'[b] = in[b] /\ Mode(b)' = Mode(b) /\ desk_sub'[b] = desk_sub[b]
      BY <1>5, <1>7, <1>9, <1>11, <2>2
    <3> QED BY <2>1, <3>1, FineSame
  <2>3. CASE d # Null /\ b \in Seated(d)
    <3>1. Mode(b) = "game" /\ Mode(b)' = "out" /\ b \in others
      BY <1>5, <1>11, <2>3
    <3>2. in'[b] = IF peer[b] = "open" THEN Append(in[b], "RESULT") ELSE in[b]
      BY <1>7, <1>9, <1>11, <2>3, <3>1
    <3>3. peer[b] = "open" => Talk(status[b], in'[b], Mode(b)')
      BY <2>1, <3>1, <3>2, TalkTold DEF Fine
    <3>4. peer[b] # "none"
      BY <2>1, <3>1, Modes DEF Fine, Gone
    <3> QED BY <2>1, <3>1, <3>2, <3>3, <3>4, FineTold
  <2> QED BY <2>2, <2>3
<1> QED BY <1>5, <1>10, <1>11 DEF GameInv

\* Nothing happens once it is ruined.
LEMMA NextAlive == Next => ~ruined
<1> SUFFICES ASSUME Next PROVE ~ruined
  OBVIOUS
<1>1. People => ~ruined
  BY DEF People, Connect, ReadMessage, Type, Skip, Leave
<1>2. Poll \/ Full \/ ReadNobody \/ RemoveNobody => ~ruined
  BY DEF Poll, Full, ReadNobody, RemoveNobody, Handle
<1>3. ASSUME NEW c \in Clients
      PROVE  /\ Accept(c) \/ RemoveLeftClient(c) => ~ruined
             /\ Read(c) => ~ruined
  BY DEF Accept, RemoveLeftClient, Read, Handle
<1>4. ASSUME NEW c \in Clients
      PROVE  /\ SendDeskMsg(c) \/ IgnoreMsg(c) \/ PlayNowhere(c) => Read(c)
             /\ AddToDesk(c) \/ AddToDeskRefused(c) \/ AddNowhere(c) => Read(c)
             /\ \A ans : PlayOutOfRange(c, ans) \/ PlayMiss(c, ans) \/ PlayHit(c, ans) => Read(c)
  BY DEF SendDeskMsg, IgnoreMsg, AddToDesk, AddToDeskRefused, AddNowhere, PlayNowhere,
         PlayOutOfRange, PlayMiss, PlayHit, Guess
<1> QED BY <1>1, <1>2, <1>3, <1>4 DEF Next, Server

\* Nobody gets less hasty again.
LEMMA NoHaste == ASSUME TableInv, [Next]_vars, haste' = 0
                 PROVE  haste = 0 /\ \A c \in Clients : ~Skip(c)
<1>1. haste \in Nat
  BY GuessAssumption DEF TableInv, TypeOK
<1>2. ASSUME NEW c \in Clients  PROVE ~Skip(c)
  BY <1>1 DEF Skip
<1>3. CASE haste' = haste
  BY <1>2, <1>3
<1>4. ASSUME NEW c \in Clients, NEW text, Type(c, text)  PROVE haste = 0
  BY <1>1, <1>4 DEF Type
<1>5. CASE Connect \/ Poll \/ Full \/ ReadNobody \/ RemoveNobody \/ UNCHANGED vars
  BY <1>3, <1>5 DEF Connect, Poll, Full, ReadNobody, RemoveNobody, Handle, clientVars, vars
<1>6. ASSUME NEW c \in Clients,
             ReadMessage(c) \/ (\E how \in Ends : Leave(c, how)) \/ Accept(c) \/ RemoveLeftClient(c)
      PROVE  haste' = haste
  BY <1>6 DEF ReadMessage, Leave, Accept, RemoveLeftClient, Handle, clientVars
<1>7. ASSUME NEW c \in Clients, Read(c)  PROVE haste' = haste
  BY <1>7 DEF Read, Handle, clientVars
<1>8. ASSUME NEW c \in Clients,
             \/ SendDeskMsg(c) \/ IgnoreMsg(c) \/ PlayNowhere(c)
             \/ AddToDesk(c) \/ AddToDeskRefused(c) \/ AddNowhere(c)
             \/ \E ans : PlayOutOfRange(c, ans) \/ PlayMiss(c, ans) \/ PlayHit(c, ans)
      PROVE  haste' = haste
  <2>1. Read(c)
    BY <1>8 DEF SendDeskMsg, IgnoreMsg, AddToDesk, AddToDeskRefused, AddNowhere, PlayNowhere,
                PlayOutOfRange, PlayMiss, PlayHit, Guess
  <2> QED BY <1>7, <2>1
<1> QED BY <1>2, <1>3, <1>4, <1>5, <1>6, <1>8 DEF Next, Server, People

LEMMA NextGame == TableInv /\ GameInv /\ [Next]_vars => GameInv'
<1> SUFFICES ASSUME TableInv, GameInv, [Next]_vars, ~ruined', haste' = 0 PROVE GameInv'
  BY DEF GameInv
<1>0. haste = 0 /\ \A c \in Clients : ~Skip(c)
  BY NoHaste
<1>1. CASE UNCHANGED vars
  <2>1. ruined' = ruined
    BY <1>1 DEF vars, serverVars
  <2>2. Before
    BY <1>0, <2>1 DEF Before
  <2> QED BY <1>1, <2>2, QuietGame DEF vars, serverVars, clientVars
<1>2. ASSUME Next, Before  PROVE GameInv'
  <2>1. CASE Connect \/ Poll \/ Full \/ ReadNobody
    BY <1>2, <2>1, QuietGame DEF Connect, Poll, Full, ReadNobody, Handle, serverVars, clientVars
  <2>2. ASSUME NEW c \in Clients, ReadMessage(c) \/ (\E text : Type(c, text))
                                  \/ (\E how \in Ends : Leave(c, how))
        PROVE  GameInv'
    BY <1>2, <2>2, ReadMessageGame, TypeGame, LeaveGame
  <2>3. ASSUME NEW c \in Clients, Accept(c) \/ RemoveLeftClient(c)
        PROVE  GameInv'
    BY <1>2, <2>3, AcceptGame, LeftGame
  <2>4. ASSUME NEW c \in Clients, SendDeskMsg(c) \/ AddToDesk(c) \/ AddToDeskRefused(c)
        PROVE  GameInv'
    BY <1>2, <2>4, SendDeskGame, SitGame, RefusedGame
  <2>5. ASSUME NEW c \in Clients, NEW ans \in 0..(MAX_NUM - 1),
               PlayOutOfRange(c, ans) \/ PlayMiss(c, ans) \/ PlayHit(c, ans)
        PROVE  GameInv'
    BY <1>2, <2>5, MissGame, HitGame
  <2>6. CASE RemoveNobody \/ \E c \in Clients : PlayNowhere(c) \/ AddNowhere(c)
    BY <2>6 DEF RemoveNobody, PlayNowhere, AddNowhere, Sent
  <2>7. ASSUME NEW c \in Clients  PROVE ~IgnoreMsg(c)
    BY <1>2, AskedIn, BeforeFacts DEF IgnoreMsg, Before
  <2> QED BY <1>0, <1>2, <2>1, <2>2, <2>3, <2>4, <2>5, <2>6, <2>7 DEF Next, Server, People
<1>3. Next => ~ruined
  BY NextAlive
<1> QED BY <1>0, <1>1, <1>2, <1>3 DEF Before

(***************************************************************************)
(* As long as people wait for each answer, server.cpp and client.cpp agree *)
(* about who is in a game: a client that believes so (now_game_status, and *)
(* the messages on the way to it) sits at a full desk, and whoever sits at *)
(* a full desk and is there believes so or is about to be told.            *)
(***************************************************************************)
THEOREM AgreedInvariance == Spec => []GameAgreed
<1>1. TableInv /\ GameInv => GameAgreed
  <2> SUFFICES ASSUME TableInv, GameInv, ~ruined, haste = 0, NEW c \in Clients, peer[c] = "open"
               PROVE  InGame(c) <=> Believes(c)
    BY DEF GameAgreed
  <2>1. Talk(status[c], in[c], Mode(c)) /\ in[c] \in Seq(Messages)
    BY DEF TableInv, GameInv, Fine, TypeOK
  <2>2. InGame(c) <=> Mode(c) = "game"
    BY DEF InGame, Mode
  <2>3. DOMAIN in[c] = 1..Len(in[c])
    BY <2>1
  <2>4. \A m : Told(c, m) <=> Has(in[c], m)
    BY <2>3 DEF Told, Has
  <2>5. ASSUME Mode(c) = "out"  PROVE ~Believes(c)
    <3>1. CASE Has(in[c], "RESULT")
      BY <2>4, <3>1 DEF Believes
    <3>2. CASE status[c] \in {1, 2} /\ Only(in[c], {"GETDESK"})
      BY <2>4, <3>2, OnlyHas DEF Believes
    <3> QED BY <2>1, <2>5, <3>1, <3>2 DEF Talk
  <2>6. ASSUME Mode(c) = "wait"  PROVE ~Believes(c)
    <3>1. status[c] # 4 /\ Only(in[c], {"ENTER"})
      BY <2>1, <2>6 DEF Talk
    <3> QED BY <2>4, <3>1, OnlyHas DEF Believes
  <2>7. ASSUME Mode(c) = "game"  PROVE Believes(c)
    BY <2>1, <2>4, <2>7 DEF Talk, Believes
  <2> QED BY <2>2, <2>5, <2>6, <2>7, Modes
<1> QED BY <1>1, InitTable, NextTable, InitGame, NextGame, PTL DEF Spec

-----------------------------------------------------------------------------
(***************************************************************************)
(* The seats, whatever people type.  A client that has sat down twice is   *)
(* on two seats, but the seats of a desk fill up from the first, the desk  *)
(* it has in desk_sub is one it sits at, and who is gone has none.         *)
(***************************************************************************)
Filled   == \A d \in Desks : \A k \in {1, 2} :
               desks[d].seat[k] \in Clients <=> k <= desks[d].num
NoneSits == \A c \in Clients : peer[c] = "none" => desk_sub[c] = Null

SitInv == ~ruined => Filled /\ SeatOf /\ NoneSits

LEMMA InitSit == Init => SitInv
<1> SUFFICES ASSUME Init PROVE SitInv
  OBVIOUS
<1>1. Filled
  <2> SUFFICES ASSUME NEW d \in Desks, NEW k \in {1, 2}
               PROVE  desks[d].seat[k] \notin Clients /\ ~(k <= desks[d].num)
    BY DEF Filled
  <2>1. desks[d].num = 0 /\ desks[d].seat = <<"unset", "unset">>
    BY DEF Init, NewDesk
  <2> QED BY <2>1, GuessAssumption
<1>2. SeatOf /\ NoneSits
  BY DEF Init, SeatOf, NoneSits
<1> QED BY <1>1, <1>2 DEF SitInv

\* What a step does to seats and desk_sub: nothing, a desk is cleared, or taken.
Stay == /\ desk_sub' = desk_sub
        /\ \A d \in Desks : desks'[d].num = desks[d].num /\ desks'[d].seat = desks[d].seat

Clear(d) == /\ \E new : /\ new.num = 0 /\ new.seat = <<Null, Null>>
                        /\ desks' = [desks EXCEPT ![d] = new]
            /\ desk_sub' = [c \in Clients |-> IF c \in Seated(d) THEN Null ELSE desk_sub[c]]

Sit(c, d) == /\ AddToDesk(c) /\ desks[d].num < DESK_MAXUSER
             /\ desks' = [desks EXCEPT ![d] = Taken(desks[d], c)]
             /\ desk_sub' = [desk_sub EXCEPT ![c] = d]

Moves == \/ Stay
         \/ \E d \in Desks : Clear(d)
         \/ \E c \in Clients, d \in Desks : Sit(c, d)

\* Who is read is connected, and nobody comes or goes with it.
LEMMA ReadRemains ==
    ASSUME TableInv, TableInv', ~ruined', NEW c \in Clients, Read(c)
    PROVE  peer[c] # "none" /\ \A b \in Clients : peer'[b] = "none" => peer[b] = "none"
<1>1. TypeOK /\ ~ruined /\ Exact /\ Exact'
  BY DEF TableInv, Read, Handle
<1>2. i \in 1..MAX_USER /\ fds[i].fd = c /\ fds' = Done /\ user_counter' = user_counter
  BY <1>1, Sizes DEF Read, Handle, TypeOK, InPoll
<1>3. user_counter \in 0..MAX_USER /\ MAX_USER \in Nat
  BY <1>1, Sizes DEF TypeOK
<1>4. \A j \in 1..user_counter : fds'[j].fd = fds[j].fd
  BY <1>1, <1>2, <1>3, DoneEntry
<1>5. {fds'[j].fd : j \in 1..user_counter} = {fds[j].fd : j \in 1..user_counter}
  BY <1>4, SameFds
<1>6. {b \in Clients : peer'[b] # "none"} = {b \in Clients : peer[b] # "none"}
  BY <1>1, <1>2, <1>5 DEF Exact
<1>7. c \in {fds[j].fd : j \in 1..user_counter}
  BY <1>1, <1>2, <1>3, GuessAssumption DEF Exact
<1> QED BY <1>1, <1>6, <1>7 DEF Exact

LEMMA StayAway == ASSUME TypeOK, NoneSits, Stay \/ (\E d \in Desks : Clear(d)),
                         \A b \in Clients : peer'[b] = "none" => peer[b] = "none"
                  PROVE  NoneSits'
BY DEF NoneSits, Stay, Clear

LEMMA LeftMoves == ASSUME TableInv, SitInv, NEW c \in Clients, RemoveLeftClient(c)
                   PROVE  Moves /\ NoneSits'
<1> DEFINE d == desk_sub[c]
           net == IF d = Null THEN Net ELSE Send(Net, Seated(d) \ {c}, "RESULT")
<1>1. TypeOK /\ ~ruined /\ SeatOf /\ NoneSits
  BY DEF TableInv, SitInv, RemoveLeftClient, Handle
<1>3. Moves /\ desk_sub'[c] = Null /\ \A b \in Clients : desk_sub'[b] \in {desk_sub[b], Null}
  <2>1. CASE d = Null
    <3>1. UNCHANGED <<desks, desk_sub>>
      BY <2>1 DEF RemoveLeftClient
    <3> QED BY <2>1, <3>1 DEF Moves, Stay
  <2>2. CASE d # Null
    <3>1. Reset(d) /\ d \in Desks /\ c \in Seated(d)
      BY <1>1, <2>2 DEF RemoveLeftClient, TypeOK, SeatOf
    <3>2. desks[d] \in Desk
      BY <1>1, <3>1 DEF TypeOK, Desk
    <3>3. Clear(d)
      BY <3>1, <3>2, ClearedDesk DEF Reset, Clear
    <3> QED BY <3>1, <3>3 DEF Moves, Clear
  <2> QED BY <2>1, <2>2
<1>4. GoodNet(net)
  <2>1. GoodNet(Net) /\ "RESULT" \in Messages
    BY <1>1, NoneSent DEF Messages
  <2> QED BY <2>1, SendGood
<1>5. peer' = [net.peer EXCEPT ![c] = "none"]
  <2>1. \E ruins : Sent([net EXCEPT !.peer[c] = "none", !.in[c] = <<>>], ruins)
    BY DEF RemoveLeftClient
  <2>2. net = [peer |-> net.peer, in |-> net.in, killed |-> net.killed]
    BY DEF Net, Send
  <2> HIDE DEF net
  <2> QED BY <2>1, <2>2 DEF Sent
<1> HIDE DEF net, d
<1>6. \A b \in Clients : b # c => (peer'[b] = "none" => peer[b] = "none")
  BY <1>4, <1>5 DEF GoodNet
<1> QED BY <1>1, <1>3, <1>6 DEF NoneSits

LEMMA SitMoves == ASSUME TableInv, TableInv', SitInv, ~ruined', NEW c \in Clients, AddToDesk(c)
                  PROVE  Moves /\ NoneSits'
<1> DEFINE d == Request(c)[2]
<1>1. /\ Read(c) /\ ~ruined /\ TypeOK /\ d \in Desks
      /\ desks' = [desks EXCEPT ![d] = Taken(desks[d], c)]
  BY SitDesk
<1>2. desks[d].num < DESK_MAXUSER
  BY SitLives
<1>3. desk_sub' = [desk_sub EXCEPT ![c] = d]
  BY DEF AddToDesk
<1> HIDE DEF d
<1>4. Sit(c, d)
  BY <1>1, <1>2, <1>3 DEF Sit
<1>5. peer[c] # "none" /\ \A b \in Clients : peer'[b] = "none" => peer[b] = "none"
  BY <1>1, ReadRemains
<1>6. NoneSits'
  BY <1>1, <1>3, <1>5 DEF NoneSits, SitInv, TypeOK
<1> QED BY <1>1, <1>4, <1>6 DEF Moves

LEMMA PlayMoves ==
    ASSUME TableInv, TableInv', SitInv, ~ruined', NEW c \in Clients, NEW ans \in 0..(MAX_NUM - 1),
           PlayOutOfRange(c, ans) \/ PlayMiss(c, ans) \/ PlayHit(c, ans)
    PROVE  Moves /\ NoneSits'
<1> DEFINE d == desk_sub[c]
<1>1. Read(c) /\ ~ruined /\ TypeOK /\ NoneSits /\ d # Null
  BY DEF PlayOutOfRange, PlayMiss, PlayHit, Guess, Read, Handle, TableInv, SitInv
<1>2. \A b \in Clients : peer'[b] = "none" => peer[b] = "none"
  BY <1>1, ReadRemains
<1>3. CASE PlayOutOfRange(c, ans) \/ PlayMiss(c, ans)
  <2>1. Stay
    BY <1>1, <1>3, MissDesks DEF Stay
  <2> QED BY <1>1, <1>2, <2>1, StayAway DEF Moves
<1>4. CASE PlayHit(c, ans)
  <2>1. d \in Desks /\ Game(c, ans) \in Desk
    BY <1>1, GameDesk
  <2>2. desks' = [desks EXCEPT ![d] = Cleared(Game(c, ans))]
    BY <1>4 DEF PlayHit
  <2>3. desk_sub' = [b \in Clients |-> IF b \in Seated(d) THEN Null ELSE desk_sub[b]]
    BY <1>4 DEF PlayHit
  <2>4. Clear(d)
    BY <2>1, <2>2, <2>3, ClearedDesk DEF Clear
  <2> QED BY <1>1, <1>2, <2>1, <2>4, StayAway DEF Moves
<1> QED BY <1>3, <1>4

LEMMA SeatMoves == ASSUME TableInv, TableInv', SitInv, ~ruined', [Next]_vars
                   PROVE  ~ruined /\ Moves /\ NoneSits'
<1>0. TypeOK /\ ~ruined /\ NoneSits
  <2>1. ~ruined
    BY NextAlive DEF vars, serverVars
  <2> QED BY <2>1 DEF TableInv, SitInv
<1>1. CASE UNCHANGED vars \/ Connect \/ Poll \/ Full \/ ReadNobody
  <2>1. Stay /\ peer' = peer
    BY <1>1 DEF vars, serverVars, Connect, Poll, Full, ReadNobody, Stay
  <2> QED BY <1>0, <2>1, StayAway DEF Moves
<1>2. ASSUME NEW c \in Clients,
             ReadMessage(c) \/ Skip(c) \/ (\E text : Type(c, text)) \/ (\E how \in Ends : Leave(c, how))
      PROVE  Moves /\ NoneSits'
  <2>1. Stay
    BY <1>2 DEF ReadMessage, Skip, Type, Leave, serverVars, Stay
  <2>2. \A b \in Clients : peer'[b] = "none" => peer[b] = "none"
    BY <1>0, <1>2 DEF ReadMessage, Skip, Type, Leave, TypeOK
  <2> QED BY <1>0, <2>1, <2>2, StayAway DEF Moves
<1>3. ASSUME NEW c \in Clients, Accept(c)  PROVE Moves /\ NoneSits'
  <2>1. desk_sub[c] = Null
    BY <1>0, <1>3 DEF Accept, NoneSits
  <2>2. Stay
    BY <1>0, <1>3, <2>1 DEF Accept, Stay, TypeOK
  <2>3. \A b \in Clients : peer'[b] = "none" => peer[b] = "none"
    BY <1>0, <1>3 DEF Accept, TypeOK
  <2> QED BY <1>0, <2>2, <2>3, StayAway DEF Moves
<1>4. ASSUME NEW c \in Clients, SendDeskMsg(c) \/ IgnoreMsg(c) \/ AddToDeskRefused(c)
      PROVE  Moves /\ NoneSits'
  <2>1. Stay /\ Read(c)
    BY <1>4 DEF SendDeskMsg, IgnoreMsg, AddToDeskRefused, Stay
  <2>2. \A b \in Clients : peer'[b] = "none" => peer[b] = "none"
    BY <2>1, ReadRemains
  <2> QED BY <1>0, <2>1, <2>2, StayAway DEF Moves
<1>5. CASE RemoveNobody \/ \E c \in Clients : PlayNowhere(c) \/ AddNowhere(c)
  BY <1>5 DEF RemoveNobody, PlayNowhere, AddNowhere, Sent
<1>6. ASSUME NEW c \in Clients, AddToDesk(c) \/ RemoveLeftClient(c)  PROVE Moves /\ NoneSits'
  BY <1>6, SitMoves, LeftMoves
<1>7. ASSUME NEW c \in Clients, NEW ans \in 0..(MAX_NUM - 1),
             PlayOutOfRange(c, ans) \/ PlayMiss(c, ans) \/ PlayHit(c, ans)
      PROVE  Moves /\ NoneSits'
  BY <1>7, PlayMoves
<1> QED BY <1>0, <1>1, <1>2, <1>3, <1>4, <1>5, <1>6, <1>7 DEF Next, Server, People

\* Seats fill up from the first one also where somebody takes two.
LEMMA MovesFilled == ASSUME TypeOK, NoCrowd, Filled, SeatOf, Moves
                     PROVE  Filled' /\ SeatOf'
<1>1. desks \in [Desks -> Desk] /\ desk_sub \in [Clients -> Desks \cup {Null}]
  BY DEF TypeOK, Desk
<1>2. CASE Stay
  BY <1>1, <1>2 DEF Stay, Filled, SeatOf, Seated
<1>3. ASSUME NEW d \in Desks, Clear(d)  PROVE Filled' /\ SeatOf'
  <2>1. /\ desks'[d].num = 0 /\ desks'[d].seat = <<Null, Null>>
        /\ \A e \in Desks : e # d => desks'[e] = desks[e]
    BY <1>1, <1>3 DEF Clear
  <2>2. Filled'
    <3> SUFFICES ASSUME NEW e \in Desks, NEW k \in {1, 2}
                 PROVE  desks'[e].seat[k] \in Clients <=> k <= desks'[e].num
      BY DEF Filled
    <3>1. CASE e = d
      BY <2>1, <3>1, GuessAssumption
    <3>2. CASE e # d
      BY <2>1, <3>2 DEF Filled
    <3> QED BY <3>1, <3>2
  <2>3. SeatOf'
    <3> SUFFICES ASSUME NEW c \in Clients, desk_sub'[c] # Null
                 PROVE  c \in {desks'[desk_sub'[c]].seat[1], desks'[desk_sub'[c]].seat[2]}
      BY DEF SeatOf, Seated
    <3>1. c \notin Seated(d) /\ desk_sub'[c] = desk_sub[c]
      BY <1>3 DEF Clear
    <3>2. desk_sub[c] \in Desks /\ c \in Seated(desk_sub[c]) /\ desk_sub[c] # d
      BY <1>1, <3>1 DEF SeatOf
    <3> QED BY <2>1, <3>1, <3>2 DEF Seated
  <2> QED BY <2>2, <2>3
<1>4. ASSUME NEW c \in Clients, NEW d \in Desks, Sit(c, d)  PROVE Filled' /\ SeatOf'
  <2> DEFINE n == desks[d].num
             new == Taken(desks[d], c)
  <2>1. desks[d] \in Desk /\ n \in {0, 1}
    <3>1. desks[d] \in Desk
      BY <1>1
    <3>2. n \in 0..(DESK_MAXUSER + 1) /\ n < DESK_MAXUSER
      BY <1>4, <3>1 DEF Desk, Sit
    <3> QED BY <3>1, <3>2, Sizes
  <2>2. /\ new.num = n + 1
        /\ n = 0 => new.seat[1] = c
        /\ n = 1 => new.seat[2] = c
        /\ \A k \in {1, 2} : k # n + 1 => new.seat[k] = desks[d].seat[k]
    BY <2>1, Sizes, TakenDesk
  <2>3. /\ desks'[d] = new /\ \A e \in Desks : e # d => desks'[e] = desks[e]
        /\ desk_sub'[c] = d /\ \A b \in Clients : b # c => desk_sub'[b] = desk_sub[b]
    BY <1>1, <1>4 DEF Sit
  <2> HIDE DEF new
  <2>4. \A k \in {1, 2} : desks[d].seat[k] \in Clients <=> k <= n
    BY DEF Filled
  <2>5. \A b \in Clients : b \in Seated(d) \/ b = c => b \in {new.seat[1], new.seat[2]}
    <3>1. CASE n = 0
      <4>1. new.seat[1] = c /\ desks[d].seat[1] \notin Clients /\ desks[d].seat[2] \notin Clients
        BY <2>2, <2>4, <3>1
      <4> QED BY <4>1 DEF Seated
    <3>2. CASE n = 1
      <4>1. /\ new.seat[2] = c /\ new.seat[1] = desks[d].seat[1]
            /\ desks[d].seat[2] \notin Clients
        BY <2>2, <2>4, <3>2
      <4> QED BY <4>1 DEF Seated
    <3> QED BY <2>1, <3>1, <3>2
  <2>6. Filled'
    <3> SUFFICES ASSUME NEW e \in Desks, NEW k \in {1, 2}
                 PROVE  desks'[e].seat[k] \in Clients <=> k <= desks'[e].num
      BY DEF Filled
    <3>1. CASE e # d
      BY <2>3, <3>1 DEF Filled
    <3>2. CASE e = d /\ k = n + 1
      <4>1. new.seat[k] = c
        BY <2>1, <2>2, <3>2
      <4> QED BY <2>1, <2>2, <2>3, <3>2, <4>1
    <3>3. CASE e = d /\ k # n + 1
      <4>1. new.seat[k] = desks[d].seat[k] /\ (k <= n <=> k <= n + 1)
        BY <2>1, <2>2, <3>3
      <4> QED BY <2>2, <2>3, <2>4, <3>3, <4>1
    <3> QED BY <3>1, <3>2, <3>3
  <2>7. SeatOf'
    <3> SUFFICES ASSUME NEW b \in Clients, desk_sub'[b] # Null
                 PROVE  b \in {desks'[desk_sub'[b]].seat[1], desks'[desk_sub'[b]].seat[2]}
      BY DEF SeatOf, Seated
    <3>1. CASE b = c
      BY <2>3, <2>5, <3>1
    <3>2. CASE b # c
      <4>1. desk_sub'[b] = desk_sub[b] /\ desk_sub[b] \in Desks /\ b \in Seated(desk_sub[b])
        BY <1>1, <2>3, <3>2 DEF SeatOf
      <4>2. CASE desk_sub[b] = d
        BY <2>3, <2>5, <4>1, <4>2
      <4>3. CASE desk_sub[b] # d
        BY <2>3, <4>1, <4>3 DEF Seated
      <4> QED BY <4>2, <4>3
    <3> QED BY <3>1, <3>2
  <2> QED BY <2>6, <2>7
<1> QED BY <1>2, <1>3, <1>4 DEF Moves

LEMMA NextSit == TableInv /\ TableInv' /\ SitInv /\ [Next]_vars => SitInv'
<1> SUFFICES ASSUME TableInv, TableInv', SitInv, [Next]_vars, ~ruined' PROVE SitInv'
  BY DEF SitInv
<1>1. ~ruined /\ Moves /\ NoneSits'
  BY SeatMoves
<1>2. TypeOK /\ NoCrowd /\ Filled /\ SeatOf
  BY <1>1 DEF TableInv, SitInv
<1> QED BY <1>1, <1>2, MovesFilled DEF SitInv

\* As many sit at a desk as it has seats taken, unless one of them has both.
LEMMA DeskCounted ==
    ASSUME TypeOK, NoCrowd, Filled, NEW d \in Desks
    PROVE  Cardinality(Seated(d) \cap Clients) = desks[d].num <=>
                 (desks[d].seat[1] \in Clients => desks[d].seat[1] # desks[d].seat[2])
<1> DEFINE n == desks[d].num
           s1 == desks[d].seat[1]
           s2 == desks[d].seat[2]
           here == Seated(d) \cap Clients
<1>1. n \in 0..2
  <2>1. desks[d] \in Desk
    BY DEF TypeOK, Desk
  <2> QED BY <2>1, Sizes DEF NoCrowd, Desk
<1>2. (s1 \in Clients <=> 1 <= n) /\ (s2 \in Clients <=> 2 <= n)
  BY DEF Filled
<1>3. here = {s1, s2} \cap Clients
  BY DEF Seated
<1> HIDE DEF n, s1, s2, here
<1>4. Cardinality({s1}) = 1 /\ IsFiniteSet({s1}) /\ Cardinality({}) = 0
  BY FS_Singleton, FS_EmptySet
<1>5. CASE n = 0
  <2>1. here = {} /\ s1 \notin Clients
    BY <1>2, <1>3, <1>5
  <2> QED BY <1>4, <1>5, <2>1 DEF n, s1, s2, here
<1>6. CASE n = 1
  <2>1. here = {s1} /\ s1 # s2
    BY <1>2, <1>3, <1>6
  <2> QED BY <1>4, <1>6, <2>1 DEF n, s1, s2, here
<1>7. CASE n = 2 /\ s1 = s2
  <2>1. here = {s1} /\ s1 \in Clients
    BY <1>2, <1>3, <1>7
  <2>2. Cardinality(here) # n
    BY <1>4, <1>7, <2>1
  <2> QED BY <1>7, <2>1, <2>2 DEF n, s1, s2, here
<1>8. CASE n = 2 /\ s1 # s2
  <2>1. here = {s1} \cup {s2} /\ s2 \notin {s1}
    BY <1>2, <1>3, <1>8
  <2>2. Cardinality({s1} \cup {s2}) = Cardinality({s1}) + 1
    BY <1>4, <2>1, FS_AddElement
  <2>3. Cardinality(here) = n
    BY <1>4, <1>8, <2>1, <2>2
  <2> QED BY <1>8, <2>3 DEF n, s1, s2, here
<1> QED BY <1>1, <1>5, <1>6, <1>7, <1>8

\* The seats are exact where each client is on one seat at most, and only at its desk.
LEMMA SeatsCounted == TableInv /\ SitInv /\ ~ruined => (SeatsExact <=> Seats)
<1> SUFFICES ASSUME TypeOK, NoCrowd, Filled, SeatOf, ~ruined
             PROVE  SeatsExact <=> Seats
  BY DEF TableInv, SitInv
<1>1. TwoSeats <=> \A d \in Desks : Cardinality(Seated(d) \cap Clients) = desks[d].num
  BY DeskCounted DEF TwoSeats
<1>2. ASSUME \A d \in Desks : {c \in Clients : desk_sub[c] = d} = Seated(d) \cap Clients
      PROVE  SeatsOf
  <2> SUFFICES ASSUME NEW d \in Desks, NEW k \in {1, 2}, desks[d].seat[k] \in Clients
               PROVE  desk_sub[desks[d].seat[k]] = d
    BY DEF SeatsOf, Filled
  <2>1. desks[d].seat[k] \in Seated(d) \cap Clients
    BY DEF Seated
  <2> QED BY <1>2, <2>1
<1>3. SeatsExact => Seats
  BY <1>1, <1>2 DEF SeatsExact, Seats
<1>4. ASSUME Seats  PROVE SeatsExact
  <2>1. \A d \in Desks : {c \in Clients : desk_sub[c] = d} = Seated(d) \cap Clients
    BY <1>4, AtDesk
  <2> QED BY <1>1, <1>4, <2>1 DEF SeatsExact, Seats
<1> QED BY <1>3, <1>4

LEMMA MovesSeats == ASSUME TypeOK, Seats, Moves, ~Reseated
                    PROVE  Seats'
<1>1. CASE Stay
  BY <1>1, SeatsSame DEF Stay
<1>2. ASSUME NEW d \in Desks, Clear(d)  PROVE Seats'
  BY <1>2, SeatsReset DEF Clear
<1>3. ASSUME NEW c \in Clients, NEW d \in Desks, Sit(c, d)  PROVE Seats'
  <2>1. desk_sub[c] = Null
    BY <1>3 DEF Sit, Reseated
  <2> QED BY <1>3, <2>1, SeatsSit DEF Sit
<1> QED BY <1>1, <1>2, <1>3 DEF Moves

(***************************************************************************)
(* In note 13 users[fd].desk_sub and the seats of the desks, two arrays    *)
(* that AddToDesk, the end of a game and RemoveLeftClient each write for   *)
(* themselves, stay in step, and num counts the seats: for any number of   *)
(* desks, whatever people type and however they leave, but for the one     *)
(* step that seats somebody who sits already.                              *)
(***************************************************************************)
THEOREM SeatsInvariance == Spec => SeatsKept
<1>1. (TableInv /\ SitInv /\ ~ruined => (SeatsExact <=> Seats))'
  BY SeatsCounted, PTL
<1>2. ASSUME TableInv, TableInv', SitInv, SitInv', [Next]_vars, SeatsExact, ~Reseated
      PROVE  SeatsExact'
  <2> SUFFICES ASSUME ~ruined' PROVE SeatsExact'
    BY DEF SeatsExact
  <2>1. ~ruined /\ Moves
    BY <1>2, SeatMoves
  <2>2. TypeOK /\ Seats
    BY <1>2, <2>1, SeatsCounted DEF TableInv
  <2>3. Seats'
    BY <1>2, <2>1, <2>2, MovesSeats
  <2> QED BY <1>1, <1>2, <2>3
<1>3. TableInv /\ TableInv' /\ SitInv /\ SitInv' /\ [Next]_vars
        => [SeatsExact /\ ~Reseated => SeatsExact']_vars
  BY <1>2
<1> QED BY <1>3, InitTable, NextTable, InitSit, NextSit, PTL DEF Spec, SeatsKept

-----------------------------------------------------------------------------
(***************************************************************************)
(* The turn, in a game with both players there.  The one who has it keeps  *)
(* it until his guess is read; then he gets it again, or the other one     *)
(* does, or the game is over.                                              *)
(***************************************************************************)
Owes(c) == out[c] # <<>> /\ Head(out[c])[1] = 4
Turn(c) == can_guess[c] \/ Has(in[c], "GAME") \/ Owes(c)

LEMMA TurnIs == Before => \A c \in Clients : HasTurn(c) <=> Turn(c)
<1> SUFFICES ASSUME Before, NEW c \in Clients PROVE HasTurn(c) <=> Turn(c)
  OBVIOUS
<1>1. in[c] \in Seq(Messages) /\ out[c] \in Seq(Lines) /\ Asks(c)
  BY BeforeFacts DEF Fine, TypeOK
<1>2. DOMAIN in[c] = 1..Len(in[c]) /\ DOMAIN out[c] = 1..Len(out[c])
  BY <1>1
<1>3. Told(c, "GAME") <=> Has(in[c], "GAME")
  BY <1>2 DEF Told, Has
<1>4. (\E k \in DOMAIN out[c] : out[c][k][1] = 4) <=> Owes(c)
  <2>1. CASE out[c] = <<>>
    BY <2>1 DEF Owes
  <2>2. CASE out[c] # <<>>
    <3>1. Len(out[c]) = 1 /\ Head(out[c]) = out[c][1]
      BY <1>1, <2>2 DEF Asks
    <3> QED BY <1>2, <2>2, <3>1 DEF Owes
  <2> QED BY <2>1, <2>2
<1> QED BY <1>3, <1>4 DEF HasTurn, Turn

LEMMA Players == ASSUME Before, NEW d \in Desks, Playing(d)
                 PROVE  /\ Seated(d) \subseteq Clients
                        /\ desks[d].seat[1] # desks[d].seat[2]
                        /\ \A c \in Seated(d) :
                              peer[c] = "open" /\ desk_sub[c] = d /\ Mode(c) = "game"
<1>1. TypeOK /\ Seats /\ desks[d].num = 2 /\ d # Null
  BY BeforeFacts, Sizes, GuessAssumption DEF Playing
<1>2. /\ desks[d].seat[1] \in Clients /\ desks[d].seat[2] \in Clients
      /\ desks[d].seat[1] # desks[d].seat[2]
  BY <1>1 DEF Seats, SeatsOf, TwoSeats
<1>3. \A c \in Seated(d) : c \in Clients /\ desk_sub[c] = d
  BY <1>1, <1>2, AtDesk DEF Seated
<1>4. \A c \in Seated(d) : Mode(c) = "game"
  BY <1>1, <1>3, Sizes DEF Mode
<1> QED BY <1>2, <1>3, <1>4 DEF Playing

LEMMA TurnSame == ASSUME NEW c, Turn(c), can_guess[c] => can_guess'[c],
                         Has(in[c], "GAME") => Has(in'[c], "GAME"), out'[c] = out[c]
                  PROVE  Turn(c)'
BY DEF Turn, Owes

\* A message that was there is still there after something is sent.
KeepsGame(net) == \A b \in Clients : Has(in[b], "GAME") => Has(net.in[b], "GAME")

LEMMA SendKeeps == ASSUME NEW net, GoodNet(net), KeepsGame(net), NEW C,
                          NEW msg \in Messages \cup Printed
                   PROVE  /\ KeepsGame(Send(net, C, msg))
                          /\ msg = "GAME" => \A b \in Clients :
                                b \in C /\ peer[b] = "open" => Has(Send(net, C, msg).in[b], "GAME")
<1> SUFFICES ASSUME NEW b \in Clients
             PROVE  /\ Has(in[b], "GAME") => Has(Send(net, C, msg).in[b], "GAME")
                    /\ msg = "GAME" /\ b \in C /\ peer[b] = "open" =>
                          Has(Send(net, C, msg).in[b], "GAME")
  BY DEF KeepsGame
<1>1. Send(net, C, msg).in[b] = IF b \in C /\ peer[b] = "open" /\ msg \notin Printed
                                  THEN Append(net.in[b], msg) ELSE net.in[b]
  BY SentIn
<1>2. net.in[b] \in Seq(Messages) /\ (Has(in[b], "GAME") => Has(net.in[b], "GAME"))
  BY DEF GoodNet, KeepsGame
<1>3. "GAME" \notin Printed
  BY DEF Printed
<1>4. CASE msg \in Messages /\ b \in C /\ peer[b] = "open" /\ msg \notin Printed
  <2>1. Has(Append(net.in[b], msg), "GAME") <=> Has(net.in[b], "GAME") \/ msg = "GAME"
    BY <1>2, <1>4, AppendHas
  <2> QED BY <1>1, <1>2, <1>4, <2>1
<1>5. CASE ~(b \in C /\ peer[b] = "open" /\ msg \notin Printed)
  BY <1>1, <1>2, <1>3, <1>5
<1> QED BY <1>4, <1>5

LEMMA NetKeeps == TypeOK => GoodNet(Net) /\ KeepsGame(Net)
BY NoneSent DEF KeepsGame, Net

\* A player at d who has the turn, while another one is served, or the people do something.
TurnAt(c, d) == /\ Before /\ d \in Desks /\ Playing(d) /\ c \in Seated(d) /\ Turn(c)

LEMMA TurnRead ==
    ASSUME NEW d, NEW c, TurnAt(c, d), NEW b \in Clients, Read(b), b # c \/ Request(b)[1] # 4,
           NEW net, KeepsGame(net), in' = net.in
    PROVE  Turn(c)'
<1>1. TableInv /\ Fine(b) /\ c \in Clients /\ Mode(c) = "game"
  BY BeforeFacts, Players DEF TurnAt, Before
<1>2. b # c
  BY <1>1, AskedIn
<1>3. out'[c] = out[c] /\ can_guess' = can_guess
  BY <1>1, <1>2, AskedIn
<1> QED BY <1>1, <1>3, TurnSame DEF TurnAt, KeepsGame

LEMMA PeopleTurn ==
    ASSUME NEW d, NEW c, TurnAt(c, d), Playing(d)', c \in Seated(d)', haste' = 0,
           NEW b \in Clients,
           \/ ReadMessage(b)
           \/ \E text : Type(b, text)
           \/ \E how \in Ends : Leave(b, how)
    PROVE  Turn(c)'
<1>1. TypeOK /\ c \in Clients /\ peer'[c] = "open"
  BY BeforeFacts, Players DEF TurnAt, Playing
<1>2. in[c] \in Seq(Messages) /\ out[c] \in Seq(Lines)
  BY <1>1 DEF TypeOK
<1>3. CASE ReadMessage(b)
  <2>1. /\ out' = out
        /\ b # c => in'[c] = in[c] /\ can_guess'[c] = can_guess[c]
        /\ b = c => /\ in[c] # <<>> /\ in'[c] = Tail(in[c])
                    /\ can_guess'[c] = (can_guess[c] \/ Head(in[c]) = "GAME")
    BY <1>1, <1>3 DEF ReadMessage, TypeOK
  <2>2. CASE b # c
    BY <2>1, <2>2, TurnSame DEF TurnAt
  <2>3. CASE b = c
    <3>1. Has(in[c], "GAME") => Head(in[c]) = "GAME" \/ Has(in'[c], "GAME")
      BY <1>2, <2>1, <2>3, TailHas
    <3> QED BY <2>1, <2>3, <3>1 DEF TurnAt, Turn, Owes
  <2> QED BY <2>2, <2>3
<1>4. ASSUME NEW text, Type(b, text)  PROVE Turn(c)'
  <2>1. /\ in' = in
        /\ b # c => out'[c] = out[c] /\ can_guess'[c] = can_guess[c]
        /\ b = c => /\ out'[c] = Append(out[c], <<status[c], text>>)
                    /\ can_guess'[c] = (can_guess[c] /\ status[c] # 4)
    BY <1>1, <1>4 DEF Type, TypeOK
  <2>2. CASE b # c
    BY <2>1, <2>2, TurnSame DEF TurnAt
  <2>3. CASE b = c
    <3>1. ~Hasty(c)
      BY <1>4, <2>3 DEF Type, TurnAt, Before
    <3>2. out[c] = <<>>
      BY <3>1 DEF Hasty
    <3>3. out'[c] = << <<status[c], text>> >>
      BY <2>1, <2>3, <3>2
    <3>4. status[c] = 4 => Owes(c)'
      BY <3>3 DEF Owes
    <3> QED BY <2>1, <2>3, <3>2, <3>4 DEF TurnAt, Turn, Owes
  <2> QED BY <2>2, <2>3
<1>5. ASSUME NEW how \in Ends, Leave(b, how)  PROVE Turn(c)'
  <2>1. peer'[b] # "open" /\ out' = out
    BY <1>1, <1>5 DEF Leave, TypeOK
  <2>2. b # c /\ in'[c] = in[c] /\ can_guess'[c] = can_guess[c]
    BY <1>1, <1>5, <2>1 DEF Leave, TypeOK
  <2> QED BY <2>1, <2>2, TurnSame DEF TurnAt
<1> QED BY <1>3, <1>4, <1>5

LEMMA LeftTurn == ASSUME NEW d, NEW c, TurnAt(c, d), NEW b \in Clients, RemoveLeftClient(b)
                  PROVE  Turn(c)'
<1> DEFINE net == IF desk_sub[b] = Null THEN Net
                  ELSE Send(Net, Seated(desk_sub[b]) \ {b}, "RESULT")
<1>1. TypeOK /\ EventTrue /\ c \in Clients /\ peer[c] = "open"
  BY BeforeFacts, Players DEF TurnAt
<1>2. i \in 1..MAX_USER /\ fds[i].revents = "RDHUP" /\ fds[i].fd = b
  BY <1>1, Sizes DEF RemoveLeftClient, Handle, TypeOK, InPoll
<1>3. b # c
  BY <1>1, <1>2, GuessAssumption DEF EventTrue, IsSo
<1>4. KeepsGame(net) /\ GoodNet(net)
  BY <1>1, NetKeeps, SendKeeps, SendGood DEF Messages
<1>5. in' = [net.in EXCEPT ![b] = <<>>]
  <2>1. \E ruins : Sent([net EXCEPT !.peer[b] = "none", !.in[b] = <<>>], ruins)
    BY DEF RemoveLeftClient
  <2>2. net = [peer |-> net.peer, in |-> net.in, killed |-> net.killed]
    BY DEF Net, Send
  <2> HIDE DEF net
  <2> QED BY <2>1, <2>2 DEF Sent
<1> HIDE DEF net
<1>6. in'[c] = net.in[c]
  BY <1>1, <1>3, <1>4, <1>5 DEF GoodNet
<1>7. out'[c] = out[c] /\ can_guess' = can_guess
  BY <1>1, <1>3 DEF RemoveLeftClient, Handle, clientVars, TypeOK
<1> QED BY <1>1, <1>4, <1>6, <1>7, TurnSame DEF TurnAt, KeepsGame

\* A guess at the desk: the one who guessed, or the other one, is told to go on.
LEMMA PlayTurn ==
    ASSUME NEW d, NEW c, TurnAt(c, d), NEW b \in Clients, NEW ans \in 0..(MAX_NUM - 1),
           \/ PlayOutOfRange(b, ans) \/ PlayMiss(b, ans)
           \/ PlayHit(b, ans) /\ desks'[d].num = DESK_MAXUSER
    PROVE  \E e \in Seated(d) : Turn(e)'
<1>1. /\ TypeOK /\ Seats /\ TableInv /\ d \in Desks /\ c \in Clients /\ c \in Seated(d)
      /\ Seated(d) \subseteq Clients /\ desks[d].seat[1] # desks[d].seat[2]
      /\ \A e \in Seated(d) : peer[e] = "open" /\ desk_sub[e] = d
  BY BeforeFacts, Players DEF TurnAt, Before
<1>2. Read(b)
  BY DEF PlayOutOfRange, PlayMiss, PlayHit, Guess
<1>3. GoodNet(Net) /\ KeepsGame(Net)
  BY <1>1, NetKeeps
<1>4. {"GAME", "RANGE", "RESULT"} \subseteq Messages \cup Printed
  BY DEF Messages, Printed
<1> DEFINE here == Seated(desk_sub[b])
           told == Send(Net, here \ {b}, "GAME")
<1>5. /\ GoodNet(told) /\ KeepsGame(told)
      /\ \A e \in Clients : e \in here \ {b} /\ peer[e] = "open" => Has(told.in[e], "GAME")
  BY <1>3, <1>4, SendGood, SendKeeps
<1>6. CASE PlayOutOfRange(b, ans)
  <2>1. in' = Send(Net, {b}, "GAME").in
    BY <1>6 DEF PlayOutOfRange, Sent
  <2>2. /\ KeepsGame(Send(Net, {b}, "GAME"))
        /\ b = c => Has(Send(Net, {b}, "GAME").in[c], "GAME")
    BY <1>1, <1>3, <1>4, SendKeeps
  <2>3. CASE b = c
    BY <1>1, <2>1, <2>2, <2>3 DEF Turn
  <2>4. CASE b # c
    BY <1>1, <1>2, <2>1, <2>2, <2>4, TurnRead
  <2> QED BY <2>3, <2>4
<1>7. CASE PlayMiss(b, ans)
  <2> HIDE DEF told
  <2>1. in' = Send(told, here, "RANGE").in
    BY <1>7 DEF PlayMiss, Sent, told
  <2>2. KeepsGame(Send(told, here, "RANGE"))
    BY <1>4, <1>5, SendKeeps
  <2>3. CASE b = c
    <3>1. here = Seated(d)
      BY <1>1, <2>3
    <3>2. PICK e \in Seated(d) : e # c
      BY <1>1 DEF Seated
    <3>3. Has(told.in[e], "GAME")
      BY <1>1, <1>5, <2>3, <3>1, <3>2
    <3>4. Send(told, here, "RANGE").in[e] = told.in[e]
      BY <1>1, <1>5, SentIn DEF Printed
    <3> QED BY <2>1, <3>2, <3>3, <3>4 DEF Turn
  <2>4. CASE b # c
    BY <1>1, <1>2, <2>1, <2>2, <2>4, TurnRead
  <2> QED BY <2>3, <2>4
<1>8. CASE PlayHit(b, ans) /\ desks'[d].num = DESK_MAXUSER
  <2> HIDE DEF told
  <2>1. in' = Send(told, here, "RESULT").in
    BY <1>8 DEF PlayHit, Sent, told
  <2>2. KeepsGame(Send(told, here, "RESULT"))
    BY <1>4, <1>5, SendKeeps
  <2>3. b # c
    <3> SUFFICES ASSUME desk_sub[b] = d PROVE FALSE
      BY <1>1
    <3>1. desks' = [desks EXCEPT ![d] = Cleared(Game(b, ans))] /\ Game(b, ans) \in Desk
      BY <1>1, <1>8, GameDesk DEF PlayHit
    <3>2. desks'[d].num = 0
      BY <1>1, <3>1, ClearedDesk DEF TypeOK
    <3>3. desks'[d].num = DESK_MAXUSER
      BY <1>8
    <3>4. DESK_MAXUSER # 0
      BY Sizes
    <3> QED BY <3>2, <3>3, <3>4, Zenon
  <2> QED BY <1>1, <1>2, <2>1, <2>2, <2>3, TurnRead
<1> QED BY <1>6, <1>7, <1>8

LEMMA SitTurn == ASSUME NEW d, NEW c, TurnAt(c, d), NEW b \in Clients, AddToDesk(b), ~ruined'
                 PROVE  Turn(c)'
<1> DEFINE e == Request(b)[2]
           n == desks[e].num
           told == IF n = 1 THEN {desks'[e].seat[1], desks'[e].seat[2]} ELSE {b}
           msg == IF n = 1 THEN "GAMESTATUS" ELSE "ENTER"
           net == Send(Net, told, msg)
<1>1. TypeOK /\ TableInv /\ Read(b) /\ Request(b)[1] # 4
  BY BeforeFacts DEF TurnAt, Before, AddToDesk
<1>2. in' = net.in
  BY <1>1, SitLives
<1>3. msg \in Messages
  BY DEF Messages
<1> HIDE DEF told, msg
<1>4. KeepsGame(net)
  BY <1>1, <1>3, NetKeeps, SendKeeps
<1> QED BY <1>1, <1>2, <1>4, TurnRead

LEMMA NextTurn ==
    ASSUME NEW d, NEW c, TurnAt(c, d), [Next]_vars, ~ruined', haste' = 0,
           Playing(d)', Seated(d)' = Seated(d)
    PROVE  \E e \in Seated(d) : Turn(e)'
<1>1. /\ TypeOK /\ TableInv /\ c \in Seated(d) /\ c \in Clients /\ Turn(c)
      /\ \A b \in Clients : ~Skip(b)
  BY BeforeFacts, Players, NoHaste DEF TurnAt, Before
<1>2. CASE UNCHANGED vars \/ Connect \/ Poll \/ Full \/ ReadNobody
  <2>1. UNCHANGED <<out, in, can_guess>>
    BY <1>2 DEF vars, clientVars, Connect, Poll, Full, ReadNobody, Handle
  <2> QED BY <1>1, <2>1, TurnSame
<1>3. ASSUME NEW b \in Clients, ReadMessage(b) \/ (\E text : Type(b, text))
                                \/ (\E how \in Ends : Leave(b, how))
      PROVE  Turn(c)'
  BY <1>1, <1>3, PeopleTurn
<1>4. ASSUME NEW b \in Clients, Accept(b) \/ RemoveLeftClient(b)  PROVE Turn(c)'
  <2>1. CASE Accept(b)
    BY <1>1, <2>1, TurnSame DEF Accept, clientVars
  <2> QED BY <1>4, <2>1, LeftTurn
<1>5. ASSUME NEW b \in Clients, SendDeskMsg(b) \/ AddToDeskRefused(b) \/ IgnoreMsg(b)
      PROVE  Turn(c)'
  <2>1. Read(b) /\ Request(b)[1] # 4
    <3>1. Read(b) /\ (Request(b)[1] = 1 \/ Request(b)[1] \in {2, 3} \/ Request(b)[1] = 5)
      BY <1>5, Zenon DEF SendDeskMsg, AddToDeskRefused, IgnoreMsg
    <3>2. \A n : n = 1 \/ n \in {2, 3} \/ n = 5 => n # 4
      OBVIOUS
    <3> QED BY <3>1, <3>2
  <2>2. PICK net : KeepsGame(net) /\ in' = net.in
    <3>1. /\ KeepsGame(Net) /\ KeepsGame(Send(Net, {b}, "GETDESK"))
          /\ KeepsGame(Send(Net, {b}, "ENTERFALSE"))
      BY <1>1, NetKeeps, SendKeeps DEF Messages, Printed
    <3>2. IgnoreMsg(b) => in' = Net.in
      BY DEF IgnoreMsg, Net
    <3> QED BY <1>5, <3>1, <3>2 DEF SendDeskMsg, AddToDeskRefused, Sent
  <2> QED BY <2>1, <2>2, TurnRead
<1>6. ASSUME NEW b \in Clients, AddToDesk(b)  PROVE Turn(c)'
  BY <1>6, SitTurn
<1>7. ASSUME NEW b \in Clients, NEW ans \in 0..(MAX_NUM - 1),
             PlayOutOfRange(b, ans) \/ PlayMiss(b, ans) \/ PlayHit(b, ans)
      PROVE  \E e \in Seated(d) : Turn(e)'
  BY <1>7, PlayTurn DEF Playing
<1>8. CASE RemoveNobody \/ \E b \in Clients : PlayNowhere(b) \/ AddNowhere(b)
  BY <1>8 DEF RemoveNobody, PlayNowhere, AddNowhere, Sent
<1> QED BY <1>1, <1>2, <1>3, <1>4, <1>5, <1>6, <1>7, <1>8 DEF Next, Server, People

(***************************************************************************)
(* The turn of client.cpp is not lost in a game: as long as people wait    *)
(* for each answer, and both players are there, one of them may guess, has *)
(* a guess on its way, or is about to be told to guess, if one of them did *)
(* at the beginning; for any number of desks and games at once.  (That one *)
(* of them did is another matter: can_guess_num is not set anew.)          *)
(***************************************************************************)
THEOREM TurnInvariance == Spec => TurnHandedOn
<1> DEFINE Inv == TableInv /\ GameInv
           Handed == ~ruined' /\ haste' = 0 => \A d \in Desks :
                        Playing(d) /\ Playing(d)' /\ Seated(d)' = Seated(d)
                            /\ (\E c \in Seated(d) : HasTurn(c))
                                => (\E c \in Seated(d) : HasTurn(c))'
<1>1. (Before => \A c \in Clients : HasTurn(c) <=> Turn(c))'
  BY TurnIs, PTL
<1>2. ASSUME Inv, Inv', [Next]_vars  PROVE [Handed]_vars
  <2> SUFFICES ASSUME ~ruined', haste' = 0, NEW d \in Desks,
                      Playing(d), Playing(d)', Seated(d)' = Seated(d),
                      NEW c \in Seated(d), HasTurn(c)
               PROVE  \E e \in Seated(d)' : HasTurn(e)'
    OBVIOUS
  <2>1. ~ruined /\ haste = 0
    BY <1>2, NextAlive, NoHaste DEF vars, serverVars
  <2>2. Before /\ Before'
    BY <1>2, <2>1 DEF Before
  <2>3. c \in Clients /\ Turn(c) /\ Seated(d) \subseteq Clients
    BY <2>2, Players, TurnIs
  <2>4. PICK e \in Seated(d) : Turn(e)'
    BY <1>2, <2>2, <2>3, NextTurn DEF TurnAt
  <2> QED BY <1>1, <2>2, <2>3, <2>4
<1>3. Inv /\ Inv' /\ [Next]_vars => [Handed]_vars
  BY <1>2
<1> QED BY <1>3, InitTable, NextTable, InitGame, NextGame, PTL DEF Spec, TurnHandedOn
=============================================================================
