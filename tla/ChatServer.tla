----------------------------- MODULE ChatServer -----------------------------
(***************************************************************************)
(* The chat server of note 11 (CHAT_SERVER.c): one thread, poll() on a     *)
(* table of descriptors that is kept dense by moving its last entry into   *)
(* the place of one that left, and users[fd], which holds what was last    *)
(* received from fd and a pointer to what is to be sent to fd: the buffer  *)
(* of the client that spoke, not a copy.                                   *)
(*                                                                         *)
(* A text is its author.  A client joins once.  Clients read what they are *)
(* sent, so poll() always finds a descriptor writable.                     *)
(***************************************************************************)
EXTENDS Integers, Sequences, FiniteSets

CONSTANTS Clients,
          USER_LIMIT,
          MaxRx,       \* texts the kernel holds for one connection
          Null         \* nullptr, the empty text, no client

Fds == 1..USER_LIMIT    \* the descriptors of clients, from the lowest on

ASSUME ChatAssumption == /\ IsFiniteSet(Clients) /\ Null \notin Clients \cup Fds
                         /\ USER_LIMIT \in Nat \ {0} /\ MaxRx \in Nat

VARIABLES fds,      \* fds[1..user_count]
          listen,   \* fds[0].revents & POLLIN
          i,        \* the loop variable, InPoll outside of the loop
          users,
          client,   \* what each client is doing
          conn,     \* kernel: the client at the other end of a descriptor
          rx, peer  \* kernel: what was received, and what the client did

kernelVars == <<conn, rx, peer>>
vars == <<fds, listen, i, users, client, kernelVars>>

InPoll == -1
user_count == Len(fds)

Init == /\ fds = <<>> /\ listen = FALSE /\ i = InPoll
        /\ users = [f \in Fds |-> [write_buff |-> Null, buf |-> Null]]
        /\ client = [c \in Clients |-> "out"]
        /\ conn = [f \in Fds |-> Null]
        /\ rx = [f \in Fds |-> 0]
        /\ peer = [f \in Fds |-> "none"]
-----------------------------------------------------------------------------
Connect(c) == /\ client[c] = "out"
              /\ client' = [client EXCEPT ![c] = "waiting"]
              /\ UNCHANGED <<fds, listen, i, users, kernelVars>>

Send(f) == /\ peer[f] = "open" /\ rx[f] < MaxRx
           /\ rx' = [rx EXCEPT ![f] = @ + 1]
           /\ UNCHANGED <<fds, listen, i, users, client, conn, peer>>

\* The client ends the connection, or resets it; a reset may discard what was
\* not read.
Leave(f, how, kept) ==
    /\ peer[f] = "open"
    /\ how = "ended" => kept = rx[f]
    /\ peer' = [peer EXCEPT ![f] = how]
    /\ rx' = [rx EXCEPT ![f] = kept]
    /\ UNCHANGED <<fds, listen, i, users, client, conn>>
-----------------------------------------------------------------------------
(***************************************************************************)
(* The loop.  The branch of an entry follows from its revents alone:       *)
(* POLLERR before POLLRDHUP before POLLIN before POLLOUT.                  *)
(***************************************************************************)
\* Mutant: POLLOUT is looked at before POLLRDHUP.
ReventsWriteFirst(e) == IF peer[e.fd] = "reset" THEN "ERR"
                        ELSE IF e.out THEN "OUT"
                        ELSE IF peer[e.fd] # "open" THEN "RDHUP"
                        ELSE IF rx[e.fd] > 0 THEN "IN" ELSE "none"

Revents(e) == IF peer[e.fd] = "reset" THEN "ERR"
              ELSE IF peer[e.fd] # "open" THEN "RDHUP"
              ELSE IF rx[e.fd] > 0 THEN "IN"
              ELSE IF e.out THEN "OUT" ELSE "none"

\* The loop goes on at k, past the entries without an event, or back to poll().
GoOn(table, k) ==
    LET todo == {j \in k..Len(table) : table[j].revents # "none"}
    IN  i' = IF todo = {} THEN InPoll ELSE CHOOSE j \in todo : \A m \in todo : j <= m

Poll == LET waiting == \E c \in Clients : client[c] = "waiting"
            table == [j \in 1..user_count |-> [fds[j] EXCEPT !.revents = Revents(fds[j])]]
        IN  /\ i = InPoll
            /\ waiting \/ \E j \in 1..user_count : table[j].revents # "none"
            /\ fds' = table /\ listen' = waiting
            /\ IF waiting THEN i' = 0 ELSE GoOn(table, 1)
            /\ UNCHANGED <<users, client, kernelVars>>

\* A client is accepted, at the lowest free descriptor; users[connfd] keeps its
\* buffers, and the event that poll() found is that of fds[0].
Accept(c) ==
    LET connfd == CHOOSE f \in Fds : /\ conn[f] = Null
                                     /\ \A g \in Fds : conn[g] = Null => f <= g
        table == Append(fds, [fd |-> connfd, out |-> FALSE, revents |-> "none"])
    IN  /\ i = 0 /\ client[c] = "waiting" /\ user_count < USER_LIMIT
        /\ client' = [client EXCEPT ![c] = "in"]
        /\ conn' = [conn EXCEPT ![connfd] = c]
        /\ peer' = [peer EXCEPT ![connfd] = "open"]
        /\ fds' = table
        /\ GoOn(table, 1)
        /\ listen' = FALSE
        /\ UNCHANGED <<users, rx>>

\* The room is full: the client is told so and closed.
Refuse(c) == /\ i = 0 /\ client[c] = "waiting" /\ user_count >= USER_LIMIT
             /\ client' = [client EXCEPT ![c] = "out"]
             /\ GoOn(fds, 1)
             /\ listen' = FALSE
             /\ UNCHANGED <<fds, users, kernelVars>>

Handle(event) == i > 0 /\ fds[i].revents = event /\ UNCHANGED listen

\* What an event was is not looked at again once the entry is dealt with.
Done(table) == [table EXCEPT ![i].revents = "none"]

\* getsockopt(SO_ERROR) takes the error off the socket; the entry stays.
HandleError ==
    /\ Handle("ERR")
    /\ peer' = [peer EXCEPT ![fds[i].fd] = "gone"]
    /\ fds' = Done(fds)
    /\ GoOn(fds, i + 1)
    /\ UNCHANGED <<users, client, conn, rx>>

\* Mutant: user_count is not decremented.
RemoveKeepsLast ==
    LET left == fds[i].fd
        last == fds[user_count]
        table == [fds EXCEPT ![i] = last]
    IN  /\ users' = [users EXCEPT ![left] = users[last.fd]]
        /\ fds' = table
        /\ GoOn(table, i + 1)
        /\ client' = [client EXCEPT ![conn[left]] = "left"]
        /\ conn' = [conn EXCEPT ![left] = Null]
        /\ peer' = [peer EXCEPT ![left] = "none"]
        /\ rx' = [rx EXCEPT ![left] = 0]

\* Mutant: the two sides of users[] = users[] are swapped.
RemoveSwapped ==
    LET left == fds[i].fd
        last == fds[user_count]
        table == SubSeq([fds EXCEPT ![i] = last], 1, user_count - 1)
    IN  /\ users' = [users EXCEPT ![last.fd] = users[left]]
        /\ fds' = table
        /\ GoOn(table, i)
        /\ client' = [client EXCEPT ![conn[left]] = "left"]
        /\ conn' = [conn EXCEPT ![left] = Null]
        /\ peer' = [peer EXCEPT ![left] = "none"]
        /\ rx' = [rx EXCEPT ![left] = 0]

\* close() of the i-th descriptor, and the last entry takes its place, to be
\* looked at next.
Remove == LET left == fds[i].fd
              last == fds[user_count]
              table == SubSeq([fds EXCEPT ![i] = last], 1, user_count - 1)
          IN  /\ users' = [users EXCEPT ![left] = users[last.fd]]
              /\ fds' = table
              /\ GoOn(table, i)
              /\ client' = [client EXCEPT ![conn[left]] = "left"]
              /\ conn' = [conn EXCEPT ![left] = Null]
              /\ peer' = [peer EXCEPT ![left] = "none"]
              /\ rx' = [rx EXCEPT ![left] = 0]

HandleLeft == Handle("RDHUP") /\ Remove

\* recv() fails: the connection was reset after poll(), and its data is gone.
ReadFails == Handle("IN") /\ rx[fds[i].fd] = 0 /\ Remove

\* What a client said: everybody else has something to be sent.
Read == LET connfd == fds[i].fd
            table == [j \in 1..user_count |->
                        IF fds[j].fd = connfd THEN fds[j] ELSE [fds[j] EXCEPT !.out = TRUE]]
            others == {fds[j].fd : j \in 1..user_count} \ {connfd}
        IN  /\ Handle("IN") /\ rx[connfd] > 0
            /\ rx' = [rx EXCEPT ![connfd] = @ - 1]
            /\ users' = [f \in Fds |->
                           [write_buff |-> IF f \in others THEN connfd ELSE users[f].write_buff,
                            buf |-> IF f = connfd THEN conn[f] ELSE users[f].buf]]
            /\ fds' = Done(table)
            /\ GoOn(table, i + 1)
            /\ UNCHANGED <<client, conn, peer>>

\* Mutant: what was sent stays to be sent.
WriteAgain == /\ Handle("OUT")
              /\ fds' = Done(fds)
              /\ GoOn(fds, i + 1)
              /\ UNCHANGED <<users, client, kernelVars>>

\* send(), if there is something to send.  events |= ~POLLOUT clears nothing: out
\* remains.
Write == /\ Handle("OUT")
         /\ users' = [users EXCEPT ![fds[i].fd].write_buff = Null]
         /\ fds' = Done(fds)
         /\ GoOn(fds, i + 1)
         /\ UNCHANGED <<client, kernelVars>>

Server == \/ Poll \/ HandleError \/ HandleLeft \/ ReadFails \/ Read \/ Write
          \/ \E c \in Clients : Accept(c) \/ Refuse(c)

People == \/ \E c \in Clients : Connect(c)
          \/ \E f \in Fds : \/ Send(f)
                            \/ \E how \in {"ended", "reset"}, kept \in {0, rx[f]} :
                                  Leave(f, how, kept)

Next == Server \/ People

Spec == Init /\ [][Next]_vars

\* The process runs; people owe nothing.
FairSpec == Spec /\ WF_vars(Server)
-----------------------------------------------------------------------------
TypeOK ==
    /\ fds \in Seq([fd : Fds, out : BOOLEAN,
                    revents : {"none", "ERR", "RDHUP", "IN", "OUT"}])
    /\ user_count <= USER_LIMIT
    /\ listen \in BOOLEAN
    /\ i \in InPoll..user_count
    /\ users \in [Fds -> [write_buff : Fds \cup {Null}, buf : Clients \cup {Null}]]
    /\ client \in [Clients -> {"out", "waiting", "in", "left"}]
    /\ conn \in [Fds -> Clients \cup {Null}]
    /\ rx \in [Fds -> 0..MaxRx]
    /\ peer \in [Fds -> {"none", "open", "ended", "reset", "gone"}]

(***************************************************************************)
(* Over any joining and leaving, also of several within one round of the   *)
(* loop, the table has every open descriptor once, and no other.           *)
(***************************************************************************)
TableExact ==
    /\ TypeOK
    /\ {fds[j].fd : j \in 1..user_count} = {f \in Fds : conn[f] # Null}
    /\ \A j, k \in 1..user_count : fds[j].fd = fds[k].fd => j = k

(***************************************************************************)
(* Who left, in whatever way and with whatever pending, is taken out of    *)
(* the table in the end, although POLLOUT is wanted for good.              *)
(***************************************************************************)
LeaversRemoved == \A f \in Fds : peer[f] \in {"ended", "reset"} ~> peer[f] = "none"

(***************************************************************************)
(* What is to be sent to a client is sent, unless it keeps on talking.     *)
(* Whose words it gets: those of `hears` in ChatRoom, although they are no *)
(* copy but a pointer into the buffer of the speaker, which the speaker, a *)
(* client that takes over its descriptor and Remove overwrite.             *)
(***************************************************************************)
Pending(f) == users[f].write_buff # Null
              /\ \E j \in 1..user_count : fds[j].fd = f /\ fds[j].out

Served == \A f \in Fds : []<>(~Pending(f) \/ rx[f] > 0)

Words(f) == LET x == users[f].write_buff
            IN  IF ~Pending(f) THEN Null
                ELSE IF conn[x] # Null /\ users[x].buf = conn[x] THEN conn[x]
                ELSE "gone"

Room == INSTANCE ChatRoom WITH
            Nobody <- Null, Gone <- "gone",
            members <- {c \in Clients : client[c] = "in"},
            hears <- [c \in Clients |->
                        IF client[c] = "in" THEN Words(CHOOSE f \in Fds : conn[f] = c)
                                            ELSE Null]

RoomSpec == Room!Spec
=============================================================================
