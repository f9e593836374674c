----------------------------- MODULE GuessGame ------------------------------
(***************************************************************************)
(* The number-guessing game of note 13: server.cpp, one thread in poll()   *)
(* over a table of clients who sit down at desks of two and play, and      *)
(* client.cpp, whose state follows the messages of the server.             *)
(*                                                                         *)
(* An access outside of an array leaves everything open: `ruined`, as does *)
(* a SIGPIPE, which nobody handles.  A client and its descriptor have one  *)
(* name.  recv() of the server returns all that has come, and only the     *)
(* first message of it is looked at.                                       *)
(***************************************************************************)
EXTENDS Integers, Sequences, FiniteSets

CONSTANTS Clients,
          Null,       \* -1, as a descriptor or a desk
          MAX_DESK, DESK_MAXUSER,
          MAX_NUM,    \* MIN_NUM is 0
          MaxBacklog, \* clients that wait to be accepted
          MaxTyped,   \* lines of a client that the server has not read yet
          Ends,       \* how a connection may end: of "ended", "reset", "broken"
          MaxHaste    \* lines typed before the answer to the last one is there

Desks    == 0..(MAX_DESK - 1)
MAX_USER == MAX_DESK * DESK_MAXUSER

ASSUME GuessAssumption == /\ IsFiniteSet(Clients) /\ Null \notin Clients \cup Desks
                          /\ "unset" \notin Clients
                          /\ MAX_DESK \in Nat \ {0} /\ DESK_MAXUSER = 2
                          /\ MAX_NUM \in Nat \ {0} /\ MaxBacklog \in Nat
                          /\ MaxTyped \in Nat /\ MaxHaste \in Nat
                          /\ Ends \subseteq {"ended", "reset", "broken"}

VARIABLES fds,           \* fds[1..MAX_USER]: fd and revents
          user_counter,
          i,             \* the loop variable, InPoll outside of the loop
          desks,
          desk_sub,      \* users[fd].desk_sub
          backlog,       \* clients not yet accepted
          peer,          \* kernel: the state of each connection
          out, in,       \* messages to and from the server
          status,        \* now_game_status of each client
          can_guess,
          haste,         \* history: how often somebody did not wait
          ruined

clientVars == <<status, can_guess, haste>>
serverVars == <<fds, user_counter, i, desks, desk_sub, ruined>>
vars == <<serverVars, backlog, peer, out, in, clientVars>>

InPoll == -1

\* The code as a slip could have it: the players of the last game still count.
ClearedKeepsNum(desk) == [desk EXCEPT !.seat = <<Null, Null>>, !.min = 0, !.max = MAX_NUM]

\* A desk as ResetGameDesk leaves it; is_playing and the answer stay.
Cleared(desk) == [desk EXCEPT !.num = 0, !.seat = <<Null, Null>>,
                              !.min = 0, !.max = MAX_NUM]

\* online_user is not initialised; what is there is no client.
NewDesk == [num |-> 0, seat |-> <<"unset", "unset">>, is_playing |-> FALSE,
            min |-> 0, max |-> MAX_NUM, ans |-> 0]

Init == /\ fds = [j \in 1..MAX_USER |-> [fd |-> Null, revents |-> "none"]]
        /\ user_counter = 0 /\ i = InPoll
        /\ desks = [d \in Desks |-> NewDesk]
        /\ desk_sub = [c \in Clients |-> Null]
        /\ backlog = 0
        /\ peer = [c \in Clients |-> "none"]
        /\ out = [c \in Clients |-> <<>>] /\ in = [c \in Clients |-> <<>>]
        /\ status = [c \in Clients |-> 1]
        /\ can_guess = [c \in Clients |-> TRUE]
        /\ haste = 0 /\ ruined = FALSE
-----------------------------------------------------------------------------
(***************************************************************************)
(* client.cpp.                                                             *)
(***************************************************************************)
Connect == /\ ~ruined /\ backlog < MaxBacklog
           /\ backlog < Cardinality({c \in Clients : peer[c] = "none"})
           /\ backlog' = backlog + 1
           /\ UNCHANGED <<serverVars, peer, out, in, clientVars>>

\* What a line of input becomes: a request for the desks, a desk, or a guess.
\* The desk is one character; MAX_DESK stands for all that are no desk.
Texts(s) == IF s \in {2, 3} THEN 0..MAX_DESK
            ELSE IF s = 4 THEN 0..(MAX_NUM + 1) ELSE {0}

\* The client takes a line at any time: also before the last one is answered,
\* and from who sits at a desk and should wait for the game.
Hasty(c) == out[c] # <<>> \/ status[c] = 3 \/ (status[c] # 4 /\ in[c] # <<>>)

Type(c, text) ==
    /\ ~ruined /\ peer[c] = "open" /\ Len(out[c]) < MaxTyped
    /\ text \in Texts(status[c])
    /\ status[c] = 4 => can_guess[c]
    /\ can_guess' = [can_guess EXCEPT ![c] = @ /\ status[c] # 4]
    /\ out' = [out EXCEPT ![c] = Append(@, <<status[c], text>>)]
    /\ haste' = IF Hasty(c) THEN haste + 1 ELSE haste
    /\ haste' <= MaxHaste
    /\ UNCHANGED <<serverVars, backlog, peer, in, status>>

\* A line with '&' in front: the client goes to the next status by itself.
\* What is above 4 is for the server all the same: 5.
Skip(c) ==
    /\ ~ruined /\ peer[c] = "open" /\ status[c] < 5
    /\ haste < MaxHaste
    /\ status' = [status EXCEPT ![c] = @ + 1]
    /\ haste' = haste + 1
    /\ UNCHANGED <<serverVars, backlog, peer, out, in, can_guess>>

\* ProcessMsgCenter takes the next message.
ReadMessage(c) ==
    /\ ~ruined /\ peer[c] = "open" /\ in[c] # <<>>
    /\ in' = [in EXCEPT ![c] = Tail(@)]
    /\ LET msg == Head(in[c]) IN
         /\ status' = [status EXCEPT ![c] = CASE msg = "GETDESK"    -> 2
                                              [] msg = "ENTER"      -> 3
                                              [] msg = "GAMESTATUS" -> 4
                                              [] msg = "RESULT"     -> 1
                                              [] OTHER              -> @]
         /\ can_guess' = [can_guess EXCEPT ![c] = @ \/ msg = "GAME"]
    /\ UNCHANGED <<serverVars, backlog, peer, out, haste>>

\* The client ends: its kernel closes the connection, or resets it, at once or
\* when it gets something more.
Leave(c, how) ==
    /\ ~ruined
    /\ \/ peer[c] = "open" /\ how \in {"ended", "reset"}
       \/ peer[c] = "ended" /\ how = "broken"
    /\ peer' = [peer EXCEPT ![c] = how]
    /\ in' = [in EXCEPT ![c] = <<>>]
    /\ status' = [status EXCEPT ![c] = 1]
    /\ can_guess' = [can_guess EXCEPT ![c] = TRUE]
    /\ UNCHANGED <<serverVars, backlog, out, haste>>
-----------------------------------------------------------------------------
(***************************************************************************)
(* send() to the clients of C.  The first one after a reset takes the      *)
(* error off the socket; the next one raises SIGPIPE.  What a client only  *)
(* prints is not followed to it.                                           *)
(***************************************************************************)
Printed == {"RANGE", "ENTERFALSE"}

Net == [peer |-> peer, in |-> in, killed |-> FALSE]

Send(net, C, msg) ==
    [peer   |-> [c \in Clients |-> IF c \in C /\ net.peer[c] = "reset" THEN "gone"
                                                                       ELSE net.peer[c]],
     in     |-> [c \in Clients |-> IF c \in C /\ net.peer[c] = "open" /\ msg \notin Printed
                                     THEN Append(net.in[c], msg) ELSE net.in[c]],
     killed |-> \/ net.killed
                \/ \E c \in C \cap Clients : net.peer[c] \in {"gone", "broken"}]

Seated(d) == {desks[d].seat[1], desks[d].seat[2]}

\* ResetGameDesk writes users[] at both seats, and an empty one is -1.
Reset(d)     == /\ desks' = [desks EXCEPT ![d] = Cleared(@)]
                /\ desk_sub' = [c \in Clients |-> IF c \in Seated(d) THEN Null
                                                                     ELSE desk_sub[c]]
ResetRuins(d) == Null \in Seated(d)

\* The end of a handler: what it sent, and whether the server is still alive.
Sent(net, ruins) == peer' = net.peer /\ in' = net.in /\ ruined' = (net.killed \/ ruins)
-----------------------------------------------------------------------------
(***************************************************************************)
(* The loop of server.cpp.                                                 *)
(***************************************************************************)
Revents(c) == IF c = Null                             THEN "none"
              ELSE IF peer[c] \in {"reset", "broken"} THEN "ERR"
              ELSE IF peer[c] \in {"ended", "gone"}   THEN "RDHUP"
              ELSE IF out[c] # <<>>                   THEN "IN"
              ELSE "none"

\* The loop goes on at k, past the entries without an event, or back to poll().
GoOn(table, k) ==
    LET todo == {j \in k..MAX_USER : table[j].revents \notin {"none", "ERR"}}
    IN  i' = IF todo = {} THEN InPoll ELSE CHOOSE j \in todo : \A m \in todo : j <= m

\* An entry with POLLERR is reported, printed and kept, in each round again.
Poll == LET table == [j \in 1..MAX_USER |-> [fds[j] EXCEPT !.revents = Revents(fds[j].fd)]]
        IN  /\ ~ruined /\ i = InPoll
            /\ backlog > 0 \/ \E j \in 1..MAX_USER : table[j].revents # "none"
            /\ fds' = table
            /\ IF backlog > 0 THEN i' = 0 ELSE GoOn(table, 1)
            /\ UNCHANGED <<user_counter, desks, desk_sub, ruined, backlog, peer, out, in,
                           clientVars>>

Accept(c) ==
    /\ ~ruined /\ i = 0 /\ user_counter < MAX_USER /\ peer[c] = "none"
    /\ backlog' = backlog - 1
    /\ user_counter' = user_counter + 1
    /\ fds' = [fds EXCEPT ![user_counter + 1].fd = c]
    /\ desk_sub' = [desk_sub EXCEPT ![c] = Null]
    /\ peer' = [peer EXCEPT ![c] = "open"]
    /\ GoOn(fds', 1)
    /\ UNCHANGED <<desks, ruined, out, in, clientVars>>

\* With the server full, who waits goes on waiting.
Full == /\ ~ruined /\ i = 0 /\ user_counter = MAX_USER
        /\ GoOn(fds, 1)
        /\ UNCHANGED <<fds, user_counter, desks, desk_sub, ruined, backlog, peer, out, in,
                       clientVars>>

\* An entry with an event; once it is dealt with, what the event was is dead.
Handle(event) == /\ ~ruined /\ i > 0 /\ fds[i].revents = event
                 /\ GoOn(fds, i + 1)
                 /\ UNCHANGED <<backlog, clientVars>>

Done == [fds EXCEPT ![i].revents = "none"]

\* recv() on the descriptor -1 of an entry that was moved: "Wrong msg".
ReadNobody == /\ Handle("IN") /\ fds[i].fd = Null
              /\ fds' = Done
              /\ UNCHANGED <<user_counter, desks, desk_sub, ruined, peer, out, in>>

Read(c) == Handle("IN") /\ fds[i].fd = c
           /\ fds' = Done
           /\ out' = [out EXCEPT ![c] = <<>>]
           /\ UNCHANGED user_counter

Request(c) == Head(out[c])

SendDeskMsg(c) == /\ Read(c) /\ Request(c)[1] = 1
                  /\ Sent(Send(Net, {c}, "GETDESK"), FALSE)
                  /\ UNCHANGED <<desks, desk_sub>>

\* Any other request is taken and forgotten.
IgnoreMsg(c) == /\ Read(c) /\ Request(c)[1] = 5
                /\ UNCHANGED <<desks, desk_sub, ruined, peer, in>>

\* The character is not checked: what is no desk is behind the end of desks.
AddNowhere(c) == /\ Read(c) /\ Request(c)[1] \in {2, 3} /\ Request(c)[2] \notin Desks
                 /\ Sent(Net, TRUE)
                 /\ UNCHANGED <<desks, desk_sub>>

\* AddToDesk looks for the client in desks[msg_fd], which is behind the end of
\* desks, and may by chance find it there.
AddToDeskRefused(c) == /\ Read(c) /\ Request(c)[1] \in {2, 3}
                       /\ Sent(Send(Net, {c}, "ENTERFALSE"), FALSE)
                       /\ UNCHANGED <<desks, desk_sub>>

\* A full desk is refused and then entered all the same, at online_user[2].
AddToDesk(c) ==
    LET d == Request(c)[2]
        n == desks[d].num
        refused == IF n >= DESK_MAXUSER THEN Send(Net, {c}, "ENTERFALSE") ELSE Net
    IN  /\ Read(c) /\ Request(c)[1] \in {2, 3} /\ d \in Desks
        /\ desk_sub' = [desk_sub EXCEPT ![c] = d]
        /\ desks' = [desks EXCEPT ![d].num = n + 1,
                                  ![d].seat = IF n < DESK_MAXUSER THEN [@ EXCEPT ![n + 1] = c]
                                                                  ELSE @]
        /\ IF n + 1 = DESK_MAXUSER
             THEN Sent(Send(refused, {desks'[d].seat[1], desks'[d].seat[2]}, "GAMESTATUS"), FALSE)
             ELSE Sent(Send(refused, {c}, "ENTER"), n >= DESK_MAXUSER)

\* PlayGame.  The first guess at a desk draws the answer.
Game(c, ans) == LET desk == desks[desk_sub[c]]
                IN  IF desk.is_playing THEN desk
                    ELSE [desk EXCEPT !.is_playing = TRUE, !.min = 0, !.max = MAX_NUM,
                                      !.ans = ans]

Guess(c) == Read(c) /\ Request(c)[1] = 4

\* The game is over for the server, but the client did not know yet: desks[-1].
PlayNowhere(c) == /\ Guess(c) /\ desk_sub[c] = Null
                  /\ Sent(Net, TRUE)
                  /\ UNCHANGED <<desks, desk_sub>>

PlayOutOfRange(c, ans) ==
    LET num == Request(c)[2]  game == Game(c, ans)
    IN  /\ Guess(c) /\ desk_sub[c] # Null
        /\ num \notin game.min..game.max
        /\ desks' = [desks EXCEPT ![desk_sub[c]] = game]
        /\ Sent(Send(Net, {c}, "GAME"), FALSE)
        /\ UNCHANGED desk_sub

\* The code as a slip could have it: the other player is not given the turn.
PlayMissUntold(c, ans) ==
    LET num == Request(c)[2]  game == Game(c, ans)
        here == Seated(desk_sub[c])
    IN  /\ Guess(c) /\ desk_sub[c] # Null
        /\ num \in game.min..game.max /\ num # game.ans
        /\ desks' = [desks EXCEPT ![desk_sub[c]] =
                        IF num < game.ans THEN [game EXCEPT !.min = num]
                                          ELSE [game EXCEPT !.max = num]]
        /\ Sent(Send(Net, here, "RANGE"), FALSE)
        /\ UNCHANGED desk_sub

PlayMiss(c, ans) ==
    LET num == Request(c)[2]  game == Game(c, ans)
        here == Seated(desk_sub[c])
    IN  /\ Guess(c) /\ desk_sub[c] # Null
        /\ num \in game.min..game.max /\ num # game.ans
        /\ desks' = [desks EXCEPT ![desk_sub[c]] =
                        IF num < game.ans THEN [game EXCEPT !.min = num]
                                          ELSE [game EXCEPT !.max = num]]
        /\ Sent(Send(Send(Net, here \ {c}, "GAME"), here, "RANGE"), FALSE)
        /\ UNCHANGED desk_sub

\* The code as a slip could have it: the winner is not told.
PlayHitUntold(c, ans) ==
    LET game == Game(c, ans)
        d == desk_sub[c]
        here == Seated(d)
    IN  /\ Guess(c) /\ d # Null /\ Request(c)[2] = game.ans
        /\ game.ans \in game.min..game.max
        /\ desks' = [desks EXCEPT ![d] = Cleared(game)]
        /\ desk_sub' = [b \in Clients |-> IF b \in here THEN Null ELSE desk_sub[b]]
        /\ Sent(Send(Send(Net, here \ {c}, "GAME"), here \ {c}, "RESULT"), ResetRuins(d))

PlayHit(c, ans) ==
    LET game == Game(c, ans)
        d == desk_sub[c]
        here == Seated(d)
    IN  /\ Guess(c) /\ d # Null /\ Request(c)[2] = game.ans
        /\ game.ans \in game.min..game.max
        /\ desks' = [desks EXCEPT ![d] = Cleared(game)]
        /\ desk_sub' = [b \in Clients |-> IF b \in here THEN Null ELSE desk_sub[b]]
        /\ Sent(Send(Send(Net, here \ {c}, "GAME"), here, "RESULT"), ResetRuins(d))

\* The last entry takes the place of c; what poll() said of either stays where it is.
Place(c) == CHOOSE j \in 1..MAX_USER : fds[j].fd = c

\* The code as a slip could have it: the last entry is only cut off.
RemovedLast(c) == [Done EXCEPT ![user_counter].fd = Null]

Removed(c) == [Done EXCEPT ![Place(c)].fd = fds[user_counter].fd, ![user_counter].fd = Null]

\* The game of a client that left is over.
RemoveLeftClient(c) ==
    LET d == desk_sub[c]
    IN  /\ Handle("RDHUP") /\ fds[i].fd = c
        /\ fds' = Removed(c)
        /\ user_counter' = user_counter - 1
        /\ out' = [out EXCEPT ![c] = <<>>]
        /\ LET net == IF d = Null THEN Net ELSE Send(Net, Seated(d) \ {c}, "RESULT")
           IN  Sent([net EXCEPT !.peer[c] = "none", !.in[c] = <<>>],
                    d # Null /\ ResetRuins(d))
        /\ IF d = Null THEN UNCHANGED <<desks, desk_sub>> ELSE Reset(d)

\* The moved entry itself had ended: users[-1].
RemoveNobody == /\ Handle("RDHUP") /\ fds[i].fd = Null
                /\ Sent(Net, TRUE)
                /\ UNCHANGED <<fds, user_counter, desks, desk_sub, out>>
-----------------------------------------------------------------------------
Server == \/ Poll \/ Full \/ ReadNobody \/ RemoveNobody
          \/ \E c \in Clients :
                \/ Accept(c) \/ RemoveLeftClient(c)
                \/ SendDeskMsg(c) \/ IgnoreMsg(c) \/ PlayNowhere(c)
                \/ AddToDesk(c) \/ AddToDeskRefused(c) \/ AddNowhere(c)
                \/ \E ans \in 0..(MAX_NUM - 1) :
                      PlayOutOfRange(c, ans) \/ PlayMiss(c, ans) \/ PlayHit(c, ans)

People == \/ Connect
          \/ \E c \in Clients : \/ ReadMessage(c) \/ Skip(c)
                                \/ \E text \in 0..(MAX_DESK + MAX_NUM) : Type(c, text)
                                \/ \E how \in Ends : Leave(c, how)

Next == Server \/ People

Spec == Init /\ [][Next]_vars
-----------------------------------------------------------------------------
Messages == {"GETDESK", "ENTER", "GAMESTATUS", "GAME", "RESULT"}
Lines    == (1..5) \X Nat

TypeOK ==
    /\ fds \in [1..MAX_USER -> [fd : Clients \cup {Null},
                                revents : {"none", "ERR", "RDHUP", "IN"}]]
    /\ user_counter \in 0..MAX_USER
    /\ i \in InPoll..MAX_USER
    /\ desks \in [Desks -> [num : 0..(DESK_MAXUSER + 1),
                            seat : [{1, 2} -> Clients \cup {Null, "unset"}],
                            is_playing : BOOLEAN, min : 0..MAX_NUM, max : 0..MAX_NUM,
                            ans : 0..(MAX_NUM - 1)]]
    /\ desk_sub \in [Clients -> Desks \cup {Null}]
    /\ backlog \in 0..MaxBacklog
    /\ peer \in [Clients -> {"none", "open", "ended", "reset", "gone", "broken"}]
    /\ out \in [Clients -> Seq(Lines)] /\ in \in [Clients -> Seq(Messages)]
    /\ status \in [Clients -> 1..5] /\ can_guess \in [Clients -> BOOLEAN]
    /\ haste \in 0..MaxHaste /\ ruined \in BOOLEAN

(***************************************************************************)
(* Before it is ruined, the server's table has every open connection once, *)
(* in its first user_counter entries, and nothing behind them, whatever    *)
(* people type and whenever.                                               *)
(***************************************************************************)
TableExact ==
    TypeOK /\ (~ruined =>
        /\ {fds[j].fd : j \in 1..user_counter} = {c \in Clients : peer[c] # "none"}
        /\ \A j, k \in 1..user_counter : fds[j].fd = fds[k].fd => j = k
        /\ \A k \in (user_counter + 1)..MAX_USER : fds[k].fd = Null)

(***************************************************************************)
(* A client sits at the desk it has in desk_sub, on one seat, and at no    *)
(* other.  AddToDesk, which looks for the client in the wrong place, seats *)
(* one who sits already; nothing else that happens, in a game, at its end  *)
(* or when somebody leaves, makes seats and desk_sub differ.               *)
(***************************************************************************)
SeatsExact ==
    ~ruined => \A d \in Desks :
        /\ {c \in Clients : desk_sub[c] = d} = Seated(d) \cap Clients
        /\ Cardinality(Seated(d) \cap Clients) = desks[d].num

Reseated == \E c \in Clients : desk_sub[c] # Null /\ AddToDesk(c)

SeatsKept == [][SeatsExact /\ ~Reseated => SeatsExact']_vars

(***************************************************************************)
(* The two state machines agree as long as people wait for each answer: a  *)
(* client that believes itself in a game, with no end of it on the way,    *)
(* sits at a full desk; and at a full desk everybody who is still there    *)
(* believes so, or is about to be told.                                    *)
(***************************************************************************)
Told(c, msg) == \E k \in DOMAIN in[c] : in[c][k] = msg

InGame(c) == desk_sub[c] # Null /\ desks[desk_sub[c]].num = DESK_MAXUSER

Believes(c) == ~Told(c, "RESULT") /\ (status[c] = 4 \/ Told(c, "GAMESTATUS"))

GameAgreed ==
    ~ruined /\ haste = 0 =>
        \A c \in Clients : peer[c] = "open" => (InGame(c) <=> Believes(c))

(***************************************************************************)
(* The turn does not get lost in a game: if at a full desk somebody may    *)
(* guess, is about to be told so, or has a guess on its way, then after    *)
(* any step that leaves both players there somebody still has it, as long  *)
(* as people wait for each answer.  A game may begin without: can_guess_num*)
(* is not set anew, and where the winners of two games meet, nobody has it.*)
(***************************************************************************)
HasTurn(c) == \/ can_guess[c] \/ Told(c, "GAME")
              \/ \E k \in DOMAIN out[c] : out[c][k][1] = 4

Playing(d) == /\ desks[d].num = DESK_MAXUSER
              /\ \A c \in Seated(d) : peer[c] = "open"

TurnHandedOn ==
    [][~ruined' /\ haste' = 0 => \A d \in Desks :
          Playing(d) /\ Playing(d)' /\ Seated(d)' = Seated(d)
              /\ (\E c \in Seated(d) : HasTurn(c))
                  => (\E c \in Seated(d) : HasTurn(c))']_vars
=============================================================================
