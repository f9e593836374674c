---------------------------- MODULE SelectServer ----------------------------
(***************************************************************************)
(* The chat server with accounts of note 8 (server.c): one thread, a       *)
(* select() on a set of descriptors that only grows, and for each readable *)
(* one a splice() into a fresh pipe and a blocking read() out of it.       *)
(*                                                                         *)
(* The tables users[] and online_users[] are sequences; a nickname is the  *)
(* index of its account.  username and password are neither cleared nor    *)
(* ended by a zero: what is compared is what was typed and whatever lies   *)
(* behind it on the stack, one of the tails.  online_users[].status is     *)
(* left out: it is 1 until the server has stopped.                         *)
(*                                                                         *)
(* Each request leaves two descriptors of a pipe open.  How many there may *)
(* be is not counted: pipe() and accept() can always be the ones that fail.*)
(*                                                                         *)
(* A client and its socket have one name.  What people do when the server  *)
(* has stopped is not followed.                                            *)
(***************************************************************************)
EXTENDS Integers, Sequences, FiniteSets

CONSTANTS Clients, Names, Passwords,
          NameTails, PasswordTails,  \* what may lie behind the two strings
          Listen,      \* sock_server
          Texts,       \* what else people send, of "say", "other", "start", "rest", "long"
          MaxRx,       \* requests of a client that the server has not read yet
          Ends         \* how a connection may end: of "ended", "reset", "broken"

ASSUME SelectAssumption == /\ Listen \notin Clients /\ MaxRx \in Nat
                           /\ Texts \subseteq {"say", "other", "start", "rest", "long"}
                           /\ Ends \subseteq {"ended", "reset", "broken"}

VARIABLES readfds,      \* the clients in it, in the order of their descriptors
          testfds,      \* those found readable and not dealt with yet
          users, online_users,
          fate,         \* "running", "hung" in read(), "blocked" in send(), "killed" by
                        \* SIGPIPE, "ruined": without a pipe or a socket
          backlog, peer, rx,  \* kernel: who waits, the state of each connection,
                              \* what it received
          sent,         \* history: what this step of the server sends to each,
                        \* unless it stops in the middle
          joined        \* clients that were told LOGIN_SUCCESS

server  == <<readfds, testfds, users, online_users, fate>>
network == <<backlog, peer, rx>>
vars    == <<server, network, sent, joined>>

\* A log-in, a text, a request with another number, a text cut in two, and one
\* that is longer than BUFFER_SIZE; several short ones still fit into it.
Requests == [op : {"login"}, name : Names, password : Passwords] \cup [op : Texts]

Init == /\ readfds = <<>> /\ testfds = {}
        /\ users = <<>> /\ online_users = <<>>
        /\ fate = "running"
        /\ backlog = <<>>
        /\ peer = [c \in Clients |-> "none"]
        /\ rx = [c \in Clients |-> <<>>]
        /\ sent = [c \in Clients |-> <<>>]
        /\ joined = {}

Quiet == sent' = [c \in Clients |-> <<>>]
-----------------------------------------------------------------------------
(***************************************************************************)
(* The clients.                                                            *)
(***************************************************************************)
Connect(c) == /\ fate = "running" /\ peer[c] = "none"
              /\ peer' = [peer EXCEPT ![c] = "open"]
              /\ backlog' = Append(backlog, c)
              /\ UNCHANGED <<server, rx, joined>> /\ Quiet

Ask(c, r) == /\ fate = "running" /\ peer[c] = "open" /\ Len(rx[c]) < MaxRx
             /\ rx' = [rx EXCEPT ![c] = Append(@, r)]
             /\ UNCHANGED <<server, backlog, peer, joined>> /\ Quiet

\* A client ends its connection, or resets it; an ended connection is reset when
\* something more comes.  What was received before stays to be read.
Leave(c, how) ==
    /\ fate = "running" /\ how \in Ends
    /\ \/ peer[c] = "open" /\ how \in {"ended", "reset"}
       \/ peer[c] = "ended" /\ how = "broken"
    /\ peer' = [peer EXCEPT ![c] = how]
    /\ UNCHANGED <<server, backlog, rx, joined>> /\ Quiet
-----------------------------------------------------------------------------
(***************************************************************************)
(* The loop.                                                               *)
(***************************************************************************)
Readable(c) == rx[c] # <<>> \/ peer[c] # "open"

\* fd is the first one of ready.
First(fd, ready) ==
    /\ fd \in ready
    /\ fd # Listen => /\ Listen \notin ready
                      /\ \E k \in DOMAIN readfds : /\ readfds[k] = fd
                                                 /\ \A m \in 1..k - 1 : readfds[m] \notin ready

Ready == {readfds[k] : k \in {m \in DOMAIN readfds : Readable(readfds[m])}}
         \cup (IF backlog # <<>> THEN {Listen} ELSE {})

\* Mutant: the scan ends at the first descriptor that is set.
SelectFirst == /\ fate = "running" /\ testfds = {}
               /\ \E fd \in Ready : First(fd, Ready) /\ testfds' = {fd}
               /\ UNCHANGED <<readfds, users, online_users, fate, network, joined>> /\ Quiet

Select == /\ fate = "running" /\ testfds = {} /\ Ready # {}
          /\ testfds' = Ready
          /\ UNCHANGED <<readfds, users, online_users, fate, network, joined>> /\ Quiet

Turn(fd) == /\ fate = "running" /\ First(fd, testfds)
            /\ testfds' = testfds \ {fd}

Accept == /\ Turn(Listen)
          /\ readfds' = Append(readfds, Head(backlog))
          /\ backlog' = Tail(backlog)
          /\ UNCHANGED <<users, online_users, fate, peer, rx, joined>> /\ Quiet

\* accept() fails, and FD_SET(-1); pipe() fails, and pipefd is not set.
DescriptorsGone == /\ \/ Turn(Listen)
                      \/ \E c \in Clients : Turn(c)
                   /\ fate' = "ruined"
                   /\ UNCHANGED <<readfds, users, online_users, network, joined>> /\ Quiet

\* The client has left: splice() has nothing for the pipe, and read() waits for
\* ever.  close() and the loop over online_users in front of it change nothing
\* that anybody will see.
ServeLeft(c) == /\ Turn(c) /\ rx[c] = <<>>
                /\ fate' = "hung"
                /\ UNCHANGED <<readfds, users, online_users, network, joined>> /\ Quiet

\* The pipe gets all that has come, and what fits the buffer of it is looked at as
\* one request: it must begin and end like one.
Heeded(q) == /\ Head(q).op # "rest"
             /\ q[Len(q)].op # "start"
             /\ \A k \in DOMAIN q : q[k].op # "long"

\* What is behind a log-in belongs to its password.
Merged == "merged"

Request(c) == LET r == Head(rx[c])
              IN  IF r.op = "start" THEN [op |-> "say"]
                  ELSE IF r.op = "login" /\ Len(rx[c]) > 1 THEN [r EXCEPT !.password = Merged]
                  ELSE r

\* send(): the first one after a reset takes the error off the socket, the next
\* one raises SIGPIPE; and one to somebody who does not read may never return.
Send(msgs) ==
    /\ sent' = msgs
    /\ peer' = [c \in Clients |-> IF peer[c] = "reset" /\ msgs[c] # <<>> THEN "gone" ELSE peer[c]]
    /\ \/ fate' = IF \E c \in Clients : msgs[c] # <<>> /\ peer[c] \in {"gone", "broken"}
                     THEN "killed" ELSE fate
       \/ /\ \E c \in Clients : msgs[c] # <<>> /\ peer[c] = "open"
          /\ fate' = "blocked"

Only(c, msg) == [d \in Clients |-> IF d = c THEN <<msg>> ELSE <<>>]

ReadAll(c) == /\ Turn(c) /\ rx[c] # <<>>
              /\ rx' = [rx EXCEPT ![c] = <<>>]
              /\ UNCHANGED <<readfds, backlog>>

Serve(c, op) == ReadAll(c) /\ Heeded(rx[c]) /\ Request(c).op = op

\* Without an answer.
Ignore(c) == /\ ReadAll(c)
             /\ ~Heeded(rx[c]) \/ Request(c).op = "other"
             /\ UNCHANGED <<users, online_users, fate, peer, joined>> /\ Quiet

Typed(r, t, u) == [username |-> <<r.name, t>>, password |-> <<r.password, u>>]

\* The first account of that name.
Matches(typed) == {k \in DOMAIN users : users[k].username = typed.username}

AccountOf(typed) == CHOOSE k \in Matches(typed) : \A m \in Matches(typed) : k <= m

IsOnline(c) == \E k \in DOMAIN online_users : online_users[k].sockfd = c

AccountCreate(c, typed) ==
    /\ Matches(typed) = {}
    /\ users' = Append(users, typed)
    /\ Send(Only(c, "NEW_USER"))
    /\ UNCHANGED <<online_users, joined>>

PasswordWrong(c, typed) ==
    /\ Matches(typed) # {} /\ users[AccountOf(typed)].password # typed.password
    /\ Send(Only(c, "PASSWORD_WRONG"))
    /\ UNCHANGED <<users, online_users, joined>>

LoginAgain(c, typed) ==
    /\ Matches(typed) # {} /\ users[AccountOf(typed)].password = typed.password
    /\ IsOnline(c)
    /\ Send(Only(c, "LOGINED"))
    /\ UNCHANGED <<users, online_users, joined>>

\* Mutant: the test for a second log-in is left out.
LoginUntested(c, typed) ==
    /\ Matches(typed) # {} /\ users[AccountOf(typed)].password = typed.password
    /\ online_users' = Append(online_users, [sockfd |-> c, account |-> AccountOf(typed)])
    /\ joined' = joined \cup {c}
    /\ Send(Only(c, "LOGIN_SUCCESS"))
    /\ UNCHANGED users

LoginSuccess(c, typed) ==
    /\ Matches(typed) # {} /\ users[AccountOf(typed)].password = typed.password
    /\ ~IsOnline(c)
    /\ online_users' = Append(online_users, [sockfd |-> c, account |-> AccountOf(typed)])
    /\ joined' = joined \cup {c}
    /\ Send(Only(c, "LOGIN_SUCCESS"))
    /\ UNCHANGED users

\* accountProcess: what was typed, and what lies behind it.
AccountProcess(c) ==
    /\ Serve(c, "login")
    /\ \E t \in NameTails, u \in PasswordTails :
         LET typed == Typed(Request(c), t, u)
         IN  \/ AccountCreate(c, typed) \/ PasswordWrong(c, typed)
             \/ LoginAgain(c, typed)    \/ LoginSuccess(c, typed)

\* Mutant: the loop leaves out the last entry.
CopiesButLast(c, d) ==
    Cardinality({k \in DOMAIN online_users : /\ online_users[k].sockfd = d /\ d # c
                                             /\ k < Len(online_users)})

\* One text for every entry of the table but those of c, and then the answer.
Copies(c, d) == Cardinality({k \in DOMAIN online_users : online_users[k].sockfd = d /\ d # c})

DistributeMessage(c) ==
    /\ Serve(c, "say")
    /\ Send([d \in Clients |-> [k \in 1..Copies(c, d) |-> "text"]
                               \o (IF d = c THEN <<"ok">> ELSE <<>>)])
    /\ UNCHANGED <<users, online_users, joined>>
-----------------------------------------------------------------------------
Server == \/ Select \/ Accept \/ DescriptorsGone
          \/ \E c \in Clients : \/ ServeLeft(c) \/ Ignore(c)
                               \/ AccountProcess(c) \/ DistributeMessage(c)

People == \E c \in Clients : \/ Connect(c)
                             \/ \E r \in Requests : Ask(c, r)
                             \/ \E how \in Ends : Leave(c, how)

Next == Server \/ People

Spec == Init /\ [][Next]_vars

\* The server runs when it can; nobody has to come, to talk or to leave.
FairSpec == Spec /\ WF_vars(Server)
-----------------------------------------------------------------------------
Account == [username : Names \X NameTails, password : (Passwords \cup {Merged}) \X PasswordTails]

TypeOK == /\ readfds \in Seq(Clients) /\ testfds \subseteq Clients \cup {Listen}
          /\ users \in Seq(Account)
          /\ online_users \in Seq([sockfd : Clients, account : Nat \ {0}])
          /\ fate \in {"running", "hung", "blocked", "killed", "ruined"}
          /\ backlog \in Seq(Clients)
          /\ peer \in [Clients -> {"none", "open", "ended", "reset", "gone", "broken"}]
          /\ rx \in [Clients -> Seq(Requests)]
          /\ joined \in SUBSET Clients

(***************************************************************************)
(* The two tables and what people were told agree: a socket is online once *)
(* and exactly if it was told LOGIN_SUCCESS, under an account that exists; *)
(* and no two accounts have usernames that strcmp() takes for equal.  What *)
(* is typed as one name may still have several, with other tails.          *)
(***************************************************************************)
OnlineOnce == \A k, m \in DOMAIN online_users :
                 online_users[k].sockfd = online_users[m].sockfd => k = m

NamesOnce == \A k, m \in DOMAIN users : users[k].username = users[m].username => k = m

MembersExact == /\ TypeOK /\ OnlineOnce /\ NamesOnce
                /\ {online_users[k].sockfd : k \in DOMAIN online_users} = joined
                /\ \A k \in DOMAIN online_users : online_users[k].account \in DOMAIN users

(***************************************************************************)
(* Unless the server stops in the middle, what it reads as a text goes     *)
(* once to everybody who was told that he is logged in, and to nobody      *)
(* else; its author gets one answer and not his own text.  A log-in is     *)
(* answered to who made it.  And what is cut apart, too long or followed   *)
(* by half of something else is lost to all: not even its author is told.  *)
(***************************************************************************)
IsText(q) == Heeded(q) /\ Head(q).op \in {"say", "start"}
IsLogin(q) == Heeded(q) /\ Head(q).op = "login"

Reads(c) == rx[c] # <<>> /\ rx'[c] = <<>> /\ fate' = "running"

Members(c) == [d \in Clients |-> IF d = c THEN <<"ok">> ELSE IF d \in joined THEN <<"text">> ELSE <<>>]

EveryoneHears ==
    [][\A c \in Clients : Reads(c) =>
         /\ IsText(rx[c]) => sent' = Members(c)
         /\ ~IsText(rx[c]) => \A d \in Clients \ {c} : sent'[d] = <<>>
         /\ sent'[c] = <<>> <=> ~IsText(rx[c]) /\ ~IsLogin(rx[c])]_vars

(***************************************************************************)
(* While the server runs, who connects is accepted and what somebody sent  *)
(* is read, however much the others talk.  It stops for good once somebody *)
(* leaves, does not read what he is sent, or when the pipes have used up   *)
(* the descriptors.                                                        *)
(***************************************************************************)
Accepted(c) == \E k \in DOMAIN readfds : readfds[k] = c

Waits(c) == (peer[c] = "open" /\ ~Accepted(c)) \/ rx[c] # <<>>

Answered == \A c \in Clients : Waits(c) ~> (~Waits(c) \/ fate # "running")
=============================================================================
