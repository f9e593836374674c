---------------------------- MODULE ProcessChat -----------------------------
(***************************************************************************)
(* The chat of note 15 (main.cpp): the parent accepts and forks a child    *)
(* for each client.  A child receives into its segment of the shared       *)
(* memory and tells the parent its index through a socket pair; the parent *)
(* passes the index on to the other children, and each sends the segment   *)
(* to its client, without a lock on any of it.                             *)
(*                                                                         *)
(* All descriptors are registered with EPOLLET, and one recv() is made for *)
(* each report, on descriptors that are blocking after all (SetNonblock    *)
(* passes the flags for the command).  An edge is kept until epoll_wait    *)
(* reports it, which it does only if there is something to read.           *)
(*                                                                         *)
(* What a client says is counted in pieces that one recv() can take: one   *)
(* that is longer than BUFFER_SIZE - 1 bytes is several pieces.  A recv()  *)
(* takes one or more of those that are there; what it leaves stays in the  *)
(* socket without an edge, until the client says more or leaves.           *)
(*                                                                         *)
(* sig_pipe is never created and is {0, 0}: no signal is ever seen by the  *)
(* loop, no child is ever taken out of users[], and an index is the number *)
(* of its client from the first one on.                                    *)
(***************************************************************************)
EXTENDS Integers, Sequences, FiniteSets

CONSTANTS USER_LIMIT,
          MaxTalk,     \* how many pieces the client of each child says
          MaxBacklog   \* connections that wait to be accepted

ASSUME ProcessAssumption == /\ USER_LIMIT \in Nat /\ MaxBacklog \in Nat
                            /\ MaxTalk \in [0..(USER_LIMIT - 1) -> Nat]

Slots == 0..(USER_LIMIT - 1)

VARIABLES user_count,
          todo,        \* of the parent: what epoll_wait reported
          backlog, listen_edge,
          up, up_edge, \* indices on their way from each child, all its own
          down, down_edge,
          child,       \* "none", "run", "fill" between memset and recv, "ended"
          batch, stop_child,
          share_mem,   \* the last piece in each segment, Blank when cleared
          peer, conn_edge,
          said, taken, \* pieces of each client, and those received
          heard, before  \* what was heard of the others; received before one joined

parentVars == <<user_count, todo, backlog, listen_edge>>
pipeVars   == <<up, up_edge, down, down_edge>>
childVars  == <<child, batch, stop_child, share_mem>>
clientVars == <<peer, conn_edge, said, taken, heard, before>>
vars == <<parentVars, pipeVars, childVars, clientVars>>

Blank  == -1
Listen == -1    \* the listening socket, among what epoll_wait reports

Init == /\ user_count = 0 /\ todo = {} /\ backlog = 0 /\ listen_edge = FALSE
        /\ up = [k \in Slots |-> 0] /\ up_edge = [k \in Slots |-> FALSE]
        /\ down = [k \in Slots |-> <<>>] /\ down_edge = [k \in Slots |-> FALSE]
        /\ child = [k \in Slots |-> "none"] /\ batch = [k \in Slots |-> {}]
        /\ stop_child = [k \in Slots |-> FALSE]
        /\ share_mem = [k \in Slots |-> Blank]
        /\ peer = [k \in Slots |-> "none"] /\ conn_edge = [k \in Slots |-> FALSE]
        /\ said = [k \in Slots |-> 0] /\ taken = [k \in Slots |-> 0]
        /\ heard = [k \in Slots |-> [j \in Slots |-> 0]]
        /\ before = [k \in Slots |-> [j \in Slots |-> 0]]
-----------------------------------------------------------------------------
(***************************************************************************)
(* The clients.                                                            *)
(***************************************************************************)
Connect == /\ backlog < MaxBacklog
           /\ backlog' = backlog + 1 /\ listen_edge' = TRUE
           /\ UNCHANGED <<user_count, todo, pipeVars, childVars, clientVars>>

Say(k) == /\ peer[k] = "open" /\ said[k] < MaxTalk[k]
          /\ said' = [said EXCEPT ![k] = @ + 1]
          /\ conn_edge' = [conn_edge EXCEPT ![k] = TRUE]
          /\ UNCHANGED <<parentVars, pipeVars, childVars, peer, taken, heard, before>>

Leave(k) == /\ peer[k] = "open"
            /\ peer' = [peer EXCEPT ![k] = "left"]
            /\ conn_edge' = [conn_edge EXCEPT ![k] = TRUE]
            /\ UNCHANGED <<parentVars, pipeVars, childVars, said, taken, heard, before>>
-----------------------------------------------------------------------------
(***************************************************************************)
(* RunChild.                                                               *)
(***************************************************************************)
Readable(k) ==
    (IF conn_edge[k] /\ (said[k] > taken[k] \/ peer[k] = "left") THEN {"conn"} ELSE {})
      \cup (IF down_edge[k] /\ down[k] # <<>> THEN {"pipe"} ELSE {})

ChildWait(k) ==
    /\ child[k] = "run" /\ batch[k] = {} /\ ~stop_child[k]
    /\ Readable(k) # {}
    /\ batch' = [batch EXCEPT ![k] = Readable(k)]
    /\ conn_edge' = [conn_edge EXCEPT ![k] = @ /\ "conn" \notin Readable(k)]
    /\ down_edge' = [down_edge EXCEPT ![k] = @ /\ "pipe" \notin Readable(k)]
    /\ UNCHANGED <<parentVars, up, up_edge, down, child, stop_child, share_mem,
                   peer, said, taken, heard, before>>

\* memset: from here to recv() the others may read anything in the segment.
Clear(k) == /\ child[k] = "run" /\ "conn" \in batch[k]
            /\ child' = [child EXCEPT ![k] = "fill"]
            /\ share_mem' = [share_mem EXCEPT ![k] = Blank]
            /\ UNCHANGED <<parentVars, pipeVars, batch, stop_child, clientVars>>

\* recv() takes the pieces up to n, of which the last counts.
Received(k, n, rest) ==
    /\ child[k] = "fill"
    /\ child' = [child EXCEPT ![k] = "run"]
    /\ batch' = [batch EXCEPT ![k] = rest]
    /\ share_mem' = [share_mem EXCEPT ![k] = n]
    /\ taken' = [taken EXCEPT ![k] = n]
    /\ up' = [up EXCEPT ![k] = @ + 1] /\ up_edge' = [up_edge EXCEPT ![k] = TRUE]
    /\ UNCHANGED <<parentVars, down, down_edge, stop_child, peer, conn_edge, said, heard,
                   before>>

\* Defective variant: recv() is called until there is nothing left.
FillLoops(k) == \E n \in (taken[k] + 1)..said[k] : Received(k, n, batch[k])

Fill(k) == \E n \in (taken[k] + 1)..said[k] : Received(k, n, batch[k] \ {"conn"})

\* recv() returns 0, or the error of a reset.
FillNothing(k) == /\ child[k] = "fill" /\ said[k] = taken[k]
                  /\ child' = [child EXCEPT ![k] = "run"]
                  /\ batch' = [batch EXCEPT ![k] = @ \ {"conn"}]
                  /\ stop_child' = [stop_child EXCEPT ![k] = TRUE]
                  /\ UNCHANGED <<parentVars, pipeVars, share_mem, clientVars>>

\* A client that is gone answers with a reset, and so with an edge.
Tell(k) ==
    LET j == Head(down[k]) IN
    /\ child[k] = "run" /\ "pipe" \in batch[k]
    /\ batch' = [batch EXCEPT ![k] = @ \ {"pipe"}]
    /\ down' = [down EXCEPT ![k] = Tail(@)]
    /\ heard' = IF peer[k] = "open" /\ share_mem[j] # Blank
                  THEN [heard EXCEPT ![k][j] = share_mem[j]] ELSE heard
    /\ conn_edge' = [conn_edge EXCEPT ![k] = @ \/ peer[k] = "left"]
    /\ UNCHANGED <<parentVars, up, up_edge, down_edge, child, stop_child, share_mem,
                   peer, said, taken, before>>

\* The end of RunChild; the socket pair reports it.
ChildEnd(k) == /\ child[k] = "run" /\ stop_child[k] /\ batch[k] = {}
               /\ child' = [child EXCEPT ![k] = "ended"]
               /\ up_edge' = [up_edge EXCEPT ![k] = TRUE]
               /\ UNCHANGED <<parentVars, up, down, down_edge, batch, stop_child, share_mem,
                              clientVars>>

Child(k) == \/ ChildWait(k) \/ Clear(k) \/ Fill(k) \/ FillNothing(k) \/ Tell(k) \/ ChildEnd(k)
-----------------------------------------------------------------------------
(***************************************************************************)
(* The loop of main.                                                       *)
(***************************************************************************)
Reported == (IF listen_edge /\ backlog > 0 THEN {Listen} ELSE {})
              \cup {k \in Slots : up_edge[k] /\ (up[k] > 0 \/ child[k] = "ended")}

Wait == /\ todo = {} /\ Reported # {}
        /\ todo' = Reported
        /\ listen_edge' = (listen_edge /\ Listen \notin Reported)
        /\ up_edge' = [k \in Slots |-> up_edge[k] /\ k \notin Reported]
        /\ UNCHANGED <<user_count, backlog, up, down, down_edge, childVars, clientVars>>

\* accept() and fork(); epoll_ctl(ADD) reports what is there already.
Accepted ==
    LET k == user_count IN
          /\ Listen \in todo
          /\ todo' = todo \ {Listen} /\ backlog' = backlog - 1
          /\ user_count' = user_count + 1
          /\ child' = [child EXCEPT ![k] = "run"]
          /\ peer' = [peer EXCEPT ![k] = "open"]
          /\ before' = [before EXCEPT ![k] = taken]
          /\ UNCHANGED <<listen_edge, pipeVars, batch, stop_child, share_mem, conn_edge, said,
                         taken, heard>>

\* Defective variant: the limit is looked at one too late.
AcceptOneMore == user_count <= USER_LIMIT /\ Accepted

Accept == user_count < USER_LIMIT /\ Accepted

Refuse == /\ Listen \in todo /\ user_count >= USER_LIMIT
          /\ todo' = todo \ {Listen} /\ backlog' = backlog - 1
          /\ UNCHANGED <<user_count, listen_edge, pipeVars, childVars, clientVars>>

\* fork() fails: the place stays free, and the next client overwrites the socket
\* pair that is in it.
ForkFails == /\ Listen \in todo /\ user_count < USER_LIMIT
             /\ todo' = todo \ {Listen} /\ backlog' = backlog - 1
             /\ UNCHANGED <<user_count, listen_edge, pipeVars, childVars, clientVars>>

\* An index goes to all the others; those that have ended do not get it.
PassOn(to, k) ==
    /\ up[k] > 0
    /\ todo' = todo \ {k}
    /\ up' = [up EXCEPT ![k] = @ - 1]
    /\ down' = [j \in Slots |-> IF j \in to THEN Append(down[j], k) ELSE down[j]]
    /\ down_edge' = [j \in Slots |-> down_edge[j] \/ j \in to]
    /\ UNCHANGED <<user_count, backlog, listen_edge, up_edge, childVars, clientVars>>

Alive == {j \in 0..(user_count - 1) : child[j] # "ended"}

\* Defective variants: the sender is among the receivers; the last user is not.
RelayToAll(k)   == k \in todo /\ PassOn(Alive, k)
RelayToFirst(k) == k \in todo /\ PassOn(Alive \ {k, user_count - 1}, k)

Relay(k) == k \in todo /\ PassOn(Alive \ {k}, k)

\* recv() returns 0: the child has ended, and stays in users[].
RelayNothing(k) == /\ k \in todo /\ up[k] = 0
                   /\ todo' = todo \ {k}
                   /\ UNCHANGED <<user_count, backlog, listen_edge, pipeVars, childVars,
                                  clientVars>>

Parent == \/ Wait \/ Accept \/ ForkFails \/ Refuse
          \/ \E k \in Slots : Relay(k) \/ RelayNothing(k)

Client == Connect \/ \E k \in Slots : Say(k) \/ Leave(k)

Next == Parent \/ Client \/ \E k \in Slots : Child(k)

Spec == Init /\ [][Next]_vars

\* Every process is scheduled; the clients do as they like.
FairSpec == Spec /\ WF_vars(Parent) /\ \A k \in Slots : WF_vars(Child(k))
-----------------------------------------------------------------------------
TypeOK == /\ user_count \in 0..USER_LIMIT
          /\ todo \subseteq Slots \cup {Listen}
          /\ backlog \in 0..MaxBacklog /\ listen_edge \in BOOLEAN
          /\ up \in [Slots -> Nat] /\ up_edge \in [Slots -> BOOLEAN]
          /\ down \in [Slots -> Seq(Slots)] /\ down_edge \in [Slots -> BOOLEAN]
          /\ child \in [Slots -> {"none", "run", "fill", "ended"}]
          /\ batch \in [Slots -> SUBSET {"conn", "pipe"}]
          /\ stop_child \in [Slots -> BOOLEAN]
          /\ share_mem \in [Slots -> {Blank} \cup (Nat \ {0})]
          /\ peer \in [Slots -> {"none", "open", "left"}]
          /\ conn_edge \in [Slots -> BOOLEAN]
          /\ said \in [Slots -> Nat] /\ taken \in [Slots -> Nat]
          /\ heard \in [Slots -> [Slots -> Nat]]
          /\ before \in [Slots -> [Slots -> Nat]]

(***************************************************************************)
(* Descriptors are blocking, and one process reads them all: recv() is     *)
(* only called where it returns, on a socket pair or on a client.          *)
(***************************************************************************)
NeverBlocked ==
    /\ \A k \in Slots : /\ "pipe" \in batch[k] => down[k] # <<>>
                        /\ "conn" \in batch[k] => said[k] > taken[k] \/ peer[k] = "left"
                        /\ k \in todo => up[k] > 0 \/ child[k] = "ended"
    /\ Listen \in todo => backlog > 0

(***************************************************************************)
(* What a client hears through the unlocked segments is what Announcements *)
(* promises.                                                               *)
(***************************************************************************)
Abstract == INSTANCE Announcements
AnnouncementsSpec == Abstract!Spec

(***************************************************************************)
(* In the end each client who stays has heard the last words received of   *)
(* each other who stays, unless they were received before he came, or an   *)
(* index waits in his socket pair: of two that come under one edge, one is *)
(* read.  What recv() left in the socket of the speaker is not received.   *)
(***************************************************************************)
Heard(k, j) == heard[k][j] = taken[j] \/ before[k][j] = taken[j] \/ down[k] # <<>>

LastWordsHeard ==
    <>[](\A k, j \in Slots : k # j /\ peer[k] = "open" /\ peer[j] = "open" => Heard(k, j))
=============================================================================
