------------------------------- MODULE Snake --------------------------------
(***************************************************************************)
(* The game of note 7 (snake.c).  main() waits for keys in getOrder; the   *)
(* handler of SIGALRM, show, moves the snake.  The handler interrupts main *)
(* between any two of its stores, and main never interrupts the handler.   *)
(*                                                                         *)
(* The snake is a linked list of cells; what it may bite is looked up on   *)
(* the screen (mvinch), which shows less than the list: food is printed    *)
(* over the body, the first cell is never printed, and a cell that holds   *)
(* two nodes goes blank when the first of them leaves.                     *)
(*                                                                         *)
(* tTime is left out: that the timer fires is an action, and whether the   *)
(* snake moves then (tTime % (30-level)) is open.  Reading a node that     *)
(* over() has freed leaves everything open: `ruined`.                      *)
(***************************************************************************)
EXTENDS Integers, Sequences, FiniteSets

CONSTANTS COLS, LINES,  \* the screen; its first two lines are not the field
          Start,        \* the first cell, (5,10)
          WIN           \* the length that ends the game, 50

Cells == (0..COLS - 1) \X (2..LINES - 1)

ASSUME SnakeAssumption == /\ COLS \in Nat \ {0} /\ LINES \in Nat /\ LINES > 2
                          /\ Start \in Cells /\ WIN \in Nat \ {0, 1}

VARIABLES body,    \* the nodes between head and tail
          stars,   \* the cells in which the screen shows '*'
          food, length,
          dir,
          main,    \* where main() is: "initGame", "getch", "store" or "ticker"
          key,     \* the direction main is storing, and the fields that it
          left,    \* has still to store
          timer,   \* "periodic"; "once", armed with interval 0; "off"
          result,  \* the argument of over(), 0 before, -1 killed by SIGALRM
          ruined

keys == <<main, key, left>>
snake == <<body, stars, food, length>>
vars == <<snake, dir, keys, timer, result, ruined>>

\* Mutant: the interval is cleared instead of the value.
SetTickerOnce(n_msecs) == timer' = IF n_msecs = 0 THEN "off" ELSE "once"

\* it_value is 1 ms, whatever n_msecs; the interval is n_msecs.
SetTicker(n_msecs) == timer' = IF n_msecs = 0 THEN "once" ELSE "periodic"

Killed == -1

Units == [cx : {-1, 1}, cy : {0}] \cup [cx : {0}, cy : {-1, 1}]
Right == [cx |-> 1, cy |-> 0]

\* initGame, up to the line that arms the timer and with it.
Init == /\ body = <<Start>> /\ stars = {} /\ length = 1
        /\ food \in Cells
        /\ dir = Right
        /\ main = "initGame" /\ key = Right /\ left = {}
        /\ timer = "periodic"
        /\ result = 0 /\ ruined = FALSE
-----------------------------------------------------------------------------
(***************************************************************************)
(* main() and getOrder.                                                    *)
(***************************************************************************)
\* signal(SIGALRM, show).
InstallHandler == /\ main = "initGame" /\ result # Killed
                  /\ main' = "getch"
                  /\ UNCHANGED <<snake, dir, key, left, timer, result, ruined>>

\* Mutant: dir is cleared before it is set.
PressArrowClears(k) == /\ main = "getch" /\ ~ruined
                       /\ main' = "store" /\ key' = k /\ left' = {"cx", "cy"}
                       /\ dir' = [cx |-> 0, cy |-> 0]
                       /\ UNCHANGED <<snake, timer, result, ruined>>

\* One of the arrows: both fields of dir are to be stored.
PressArrow(k) == /\ main = "getch" /\ ~ruined
                 /\ main' = "store" /\ key' = k /\ left' = {"cx", "cy"}
                 /\ UNCHANGED <<snake, dir, timer, result, ruined>>

PressOther == /\ main = "getch" /\ ~ruined
              /\ main' = "ticker"
              /\ UNCHANGED <<snake, dir, key, left, timer, result, ruined>>

\* dir is a plain global: the compiler may store its fields in either order.
Store(f) == /\ main = "store" /\ f \in left /\ ~ruined
            /\ dir' = [dir EXCEPT ![f] = key[f]]
            /\ left' = left \ {f}
            /\ main' = IF left = {f} THEN "ticker" ELSE "store"
            /\ UNCHANGED <<snake, key, timer, result, ruined>>

Rearm == /\ main = "ticker" /\ ~ruined
         /\ SetTicker(20)
         /\ main' = "getch"
         /\ UNCHANGED <<snake, dir, key, left, result, ruined>>

Press == (\E k \in Units : PressArrow(k)) \/ PressOther
-----------------------------------------------------------------------------
(***************************************************************************)
(* The handler.                                                            *)
(***************************************************************************)
Fires == timer # "off" /\ ~ruined

\* What the expiry leaves of the timer.
Expired == timer' = IF timer = "once" THEN "off" ELSE timer

\* SIGALRM before the handler is there ends the process.
KilledByAlarm == /\ Fires /\ main = "initGame" /\ result # Killed
                 /\ result' = Killed
                 /\ timer' = "off"
                 /\ UNCHANGED <<snake, dir, keys, ruined>>

Show == Fires /\ main # "initGame"

\* A tick on which showSnake returns at once.
ShowInformation == Show /\ Expired /\ UNCHANGED <<snake, dir, keys, result, ruined>>

Over(n) == /\ result' = n
           /\ SetTicker(0)
           /\ body' = <<>>

Head1 == body[1]
Ahead == <<Head1[1] + dir.cx, Head1[2] + dir.cy>>

AtWall == \/ Head1[1] = COLS - 1 /\ dir.cx = 1
          \/ Head1[1] = 0 /\ dir.cx = -1
          \/ Head1[2] = LINES - 1 /\ dir.cy = 1
          \/ Head1[2] = 2 /\ dir.cy = -1

\* showSnake, on a tick on which the snake moves: the food is printed first.
Due == Show /\ result = 0
Shown == stars \ {food}

HitWall == /\ Due /\ AtWall
           /\ Over(1) /\ stars' = Shown
           /\ UNCHANGED <<food, length, dir, keys, ruined>>

BiteItself == /\ Due /\ ~AtWall /\ Ahead \in Shown
              /\ Over(2) /\ stars' = Shown
              /\ UNCHANGED <<food, length, dir, keys, ruined>>

Steps == Due /\ ~AtWall /\ Ahead \notin Shown

\* Mutant: the handler returns before it prints the head that has eaten.
EatUnprinted == /\ Steps /\ Ahead = food
                /\ length' = length + 1
                /\ Expired /\ result' = result
                /\ body' = <<Ahead>> \o body
                /\ food' \in Cells
                /\ stars' = Shown
                /\ UNCHANGED <<dir, keys, ruined>>

\* The snake grows, and new food is put anywhere, also on the snake.
Eat == /\ Steps /\ Ahead = food
       /\ length' = length + 1
       /\ IF length + 1 >= WIN
            THEN Over(3) /\ stars' = Shown /\ food' = food
            ELSE /\ Expired /\ result' = result
                 /\ body' = <<Ahead>> \o body
                 /\ food' \in Cells
                 /\ stars' = Shown \cup {Ahead}
       /\ UNCHANGED <<dir, keys, ruined>>

\* Mutant: the last node is freed before its cell is made blank.
CreepFreesFirst ==
    LET grown == <<Ahead>> \o body
        rest  == SubSeq(grown, 1, Len(grown) - 1)
    IN  /\ Steps /\ Ahead # food
        /\ body' = rest
        /\ stars' = (Shown \ {rest[Len(rest)]}) \cup {Ahead}
        /\ Expired
        /\ UNCHANGED <<food, length, dir, keys, result, ruined>>

\* The last cell is made blank and its node freed; the head is printed.
Creep == LET grown == <<Ahead>> \o body
         IN  /\ Steps /\ Ahead # food
             /\ body' = SubSeq(grown, 1, Len(grown) - 1)
             /\ stars' = (Shown \ {grown[Len(grown)]}) \cup {Ahead}
             /\ Expired
             /\ UNCHANGED <<food, length, dir, keys, result, ruined>>

\* After over(), head is a freed node.
WalkFreed == /\ Show /\ result # 0
             /\ ruined' = TRUE
             /\ Expired
             /\ UNCHANGED <<snake, dir, keys, result>>

ShowSnake == HitWall \/ BiteItself \/ Eat \/ Creep \/ WalkFreed
-----------------------------------------------------------------------------
GetOrder == InstallHandler \/ (\E f \in left : Store(f)) \/ Rearm
Tick == KilledByAlarm \/ ShowInformation \/ ShowSnake

Next == Press \/ GetOrder \/ Tick

Spec == Init /\ [][Next]_vars

\* Timers expire, and of thirty ticks in a row one moves the snake.  Nobody
\* needs to press a key.
FairSpec == /\ Spec
            /\ WF_vars(GetOrder) /\ WF_vars(Tick) /\ WF_vars(ShowSnake)
-----------------------------------------------------------------------------
Nodes == {body[k] : k \in DOMAIN body}

TypeOK == /\ body \in Seq(Cells) /\ stars \in SUBSET Cells /\ food \in Cells
          /\ length \in 1..WIN
          /\ dir \in [cx : -1..1, cy : -1..1]
          /\ main \in {"initGame", "getch", "store", "ticker"}
          /\ key \in Units /\ left \subseteq {"cx", "cy"}
          /\ timer \in {"periodic", "once", "off"}
          /\ result \in {Killed, 0, 1, 2, 3} /\ ruined \in BOOLEAN

(***************************************************************************)
(* The snake never leaves the field and bites nothing but itself, also     *)
(* when the handler uses a dir that was stored by half: while a game goes  *)
(* on every node is a cell of the field, every '*' on the screen is a cell *)
(* of a node, and there are as many nodes as length says.                  *)
(***************************************************************************)
ScreenTrue == result = 0 => /\ Nodes \subseteq Cells /\ stars \subseteq Nodes
                            /\ Len(body) = length

(***************************************************************************)
(* Who hits his own body loses (snake.c:174), unless he does not see it:   *)
(* the snake gets onto a cell of its own only where that cell is hidden,   *)
(* and a cell gets hidden only by food put on it, by being the first one,  *)
(* or where two nodes already lie on one another.                          *)
(***************************************************************************)
Hidden == (Nodes \ stars) \cup (Nodes \cap {food})
Crossed == {body[k] : k \in {n \in DOMAIN body : \E m \in DOMAIN body : m # n /\ body[m] = body[n]}}

CrossesUnseen == [][result' = 0 => /\ Crossed' \ Crossed \subseteq Hidden
                                   /\ Hidden' \ Hidden \subseteq {food'} \cup Crossed]_vars

(***************************************************************************)
(* Only a direction stored by half lets a snake of one cell bite itself,   *)
(* or take a step that leaves its head where it is.                        *)
(***************************************************************************)
Whole == left # {"cx"} /\ left # {"cy"}

OneCellMoves ==
    [][Len(body) = 1 /\ Whole =>
         /\ result = 0 => result' # 2
         /\ body' \notin {body, <<>>} => body'[1] # body[1]]_vars

(***************************************************************************)
(* A snake that nobody steers any more comes to its end, and the timer     *)
(* that drove it stops with it.                                            *)
(***************************************************************************)
Unsteered == <>[][~Press]_vars => <>[](result # 0 /\ (timer = "off" \/ ruined))
=============================================================================
