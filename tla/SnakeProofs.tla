---------------------------- MODULE SnakeProofs -----------------------------
(***************************************************************************)
(* The invariants and the action properties of Snake, for a screen of any  *)
(* size, any first cell and any winning length.  With the length of a      *)
(* snake that has not won yet, TypeOK and ScreenTrue are inductive.        *)
(***************************************************************************)
EXTENDS Snake, TLAPS

SnakeInv == TypeOK /\ ScreenTrue /\ (result = 0 => length < WIN)

\* The initial state has the invariant.
LEMMA InitSnake == Init => SnakeInv
<1> SUFFICES ASSUME Init PROVE SnakeInv
  OBVIOUS
<1> USE SnakeAssumption
<1>1. Right \in Units /\ Right \in [cx : -1..1, cy : -1..1]
  BY DEF Right, Units
<1>2. body \in Seq(Cells) /\ Len(body) = 1 /\ Nodes = {Start}
  BY DEF Init, Nodes
<1>3. TypeOK
  <2>1. body \in Seq(Cells) /\ stars \in SUBSET Cells /\ food \in Cells /\ length \in 1..WIN
    BY <1>2 DEF Init
  <2>2. dir \in [cx : -1..1, cy : -1..1] /\ key \in Units /\ left \subseteq {"cx", "cy"}
    BY <1>1 DEF Init
  <2>3. ruined \in BOOLEAN /\ result \in {Killed, 0, 1, 2, 3}
    BY DEF Init
  <2> QED BY <2>1, <2>2, <2>3 DEF Init, TypeOK
<1>4. ScreenTrue
  BY <1>2 DEF Init, ScreenTrue
<1> QED BY <1>3, <1>4 DEF SnakeInv, Init

\* A step that leaves the snake alone.
LEMMA StillSnake == ASSUME SnakeInv, UNCHANGED snake,
                           result' = 0 => result = 0, TypeOK'
                    PROVE  SnakeInv'
BY DEF SnakeInv, ScreenTrue, snake, Nodes

\* What the snake steps on is on the field.
LEMMA AheadOnField == ASSUME SnakeInv, Steps  PROVE  Ahead \in Cells /\ Len(body) > 0
<1>1. body \in Seq(Cells) /\ Len(body) = length /\ length >= 1
  BY DEF SnakeInv, TypeOK, ScreenTrue, Steps, Due
<1>2. Head1 \in Cells
  BY <1>1 DEF Head1
<1>3. /\ Head1[1] \in 0..COLS - 1 /\ Head1[2] \in 2..LINES - 1
      /\ dir.cx \in -1..1 /\ dir.cy \in -1..1
  BY <1>2 DEF Cells, SnakeInv, TypeOK
<1>4. Head1[1] + dir.cx \in 0..COLS - 1
  BY <1>3, SnakeAssumption DEF Steps, AtWall
<1>5. Head1[2] + dir.cy \in 2..LINES - 1
  BY <1>3, SnakeAssumption DEF Steps, AtWall
<1> QED BY <1>1, <1>4, <1>5 DEF Ahead, Cells

\* The nodes after a step: those there were and the new head.
LEMMA Grown == ASSUME NEW s \in Seq(Cells), NEW c \in Cells
               PROVE  /\ <<c>> \o s \in Seq(Cells)
                      /\ Len(<<c>> \o s) = Len(s) + 1
                      /\ (<<c>> \o s)[1] = c
                      /\ \A k \in 1..Len(s) : (<<c>> \o s)[k + 1] = s[k]
OBVIOUS

\* The game ends, and the list with it.
LEMMA OverSnake == ASSUME SnakeInv, NEW n \in 1..3, Over(n), stars' = Shown,
                          UNCHANGED <<food, dir, keys, ruined>>, length' \in 1..WIN
                   PROVE  SnakeInv'
<1>1. TypeOK'
  BY DEF SnakeInv, TypeOK, Over, SetTicker, Shown, keys, Killed
<1>2. ScreenTrue'
  BY DEF Over, ScreenTrue
<1> QED BY <1>1, <1>2 DEF SnakeInv, Over

\* It grows: the screen gets the cell that the list gets.
LEMMA EatSnake == ASSUME SnakeInv, Eat  PROVE  SnakeInv'
<1>1. Ahead \in Cells /\ body \in Seq(Cells) /\ length \in 1..WIN
  BY AheadOnField DEF Eat, SnakeInv, TypeOK
<1>2. CASE length + 1 >= WIN
  <2>1. length' \in 1..WIN
    BY <1>1, SnakeAssumption DEF Eat, Steps, Due, SnakeInv
  <2> QED BY <1>2, <2>1, OverSnake DEF Eat
<1>3. CASE ~(length + 1 >= WIN)
  <2> DEFINE grown == <<Ahead>> \o body
  <2>1. /\ body' = grown /\ stars' = Shown \cup {Ahead} /\ food' \in Cells
        /\ length' = length + 1 /\ result' = result /\ result = 0
    BY <1>3 DEF Eat, Steps, Due
  <2>2. /\ grown \in Seq(Cells) /\ Len(grown) = Len(body) + 1 /\ grown[1] = Ahead
        /\ \A k \in 1..Len(body) : grown[k + 1] = body[k]
    BY <1>1, Grown
  <2>3. stars \subseteq Nodes /\ Nodes \subseteq Cells /\ Len(body) = length
    BY <2>1 DEF SnakeInv, ScreenTrue
  <2> HIDE DEF grown
  <2>4. \A c \in stars : \E k \in DOMAIN grown : grown[k] = c
    <3> SUFFICES ASSUME NEW c \in stars PROVE \E k \in DOMAIN grown : grown[k] = c
      OBVIOUS
    <3>1. PICK k \in DOMAIN body : body[k] = c
      BY <2>3 DEF Nodes
    <3>2. k \in 1..Len(body) /\ k + 1 \in DOMAIN grown
      BY <1>1, <2>2, <3>1
    <3> QED BY <2>2, <3>1, <3>2
  <2>5. Ahead \in Nodes' /\ Shown \subseteq Nodes'
    BY <1>1, <2>1, <2>2, <2>4 DEF Nodes, Shown
  <2>6. Nodes' \subseteq Cells
    BY <2>1, <2>2 DEF Nodes
  <2>7. length' \in 1..WIN
    BY <1>1, <1>3, <2>1, SnakeAssumption
  <2>8. stars' \in SUBSET Cells
    BY <1>1, <2>1 DEF SnakeInv, TypeOK, Shown
  <2>9. timer' \in {"periodic", "once", "off"}
    BY <1>3 DEF Eat, Expired, SnakeInv, TypeOK
  <2>10. TypeOK'
    BY <1>3, <2>1, <2>2, <2>7, <2>8, <2>9 DEF Eat, SnakeInv, TypeOK, keys
  <2>11. ScreenTrue'
    BY <1>1, <2>1, <2>2, <2>3, <2>5, <2>6 DEF ScreenTrue
  <2> QED BY <1>1, <1>3, <2>1, <2>10, <2>11, SnakeAssumption DEF SnakeInv
<1> QED BY <1>2, <1>3

\* It creeps: the node that goes takes its cell off the screen.
LEMMA CreepSnake == ASSUME SnakeInv, Creep  PROVE  SnakeInv'
<1> DEFINE grown == <<Ahead>> \o body
           rest  == SubSeq(grown, 1, Len(grown) - 1)
<1>1. Ahead \in Cells /\ body \in Seq(Cells) /\ Len(body) > 0
  BY AheadOnField DEF Creep, SnakeInv, TypeOK
<1>2. /\ body' = rest /\ stars' = (Shown \ {grown[Len(grown)]}) \cup {Ahead}
      /\ length' = length /\ result' = result /\ result = 0
  BY DEF Creep, Steps, Due
<1>3. /\ grown \in Seq(Cells) /\ Len(grown) = Len(body) + 1 /\ grown[1] = Ahead
      /\ \A k \in 1..Len(body) : grown[k + 1] = body[k]
  BY <1>1, Grown
<1> HIDE DEF grown
<1>4. /\ rest \in Seq(Cells) /\ Len(rest) = Len(body)
      /\ \A k \in 1..Len(body) : rest[k] = grown[k]
  BY <1>1, <1>3
<1>5. stars \subseteq Nodes /\ Len(body) = length
  BY <1>2 DEF SnakeInv, ScreenTrue
<1> HIDE DEF rest
<1>6. ASSUME NEW c \in Shown \ {grown[Len(grown)]} PROVE \E k \in DOMAIN rest : rest[k] = c
  <2>1. PICK k \in DOMAIN body : body[k] = c
    BY <1>5 DEF Shown, Nodes
  <2>2. k \in 1..Len(body) /\ grown[k + 1] = c
    BY <1>1, <1>3, <2>1
  <2>3. k # Len(body)
    BY <1>3, <1>6, <2>2
  <2>4. k + 1 \in 1..Len(body)
    BY <1>1, <2>2, <2>3
  <2> QED BY <1>4, <2>2, <2>4
<1>7. \E k \in DOMAIN rest : rest[k] = Ahead
  <2>1. 1 \in DOMAIN rest /\ 1 \in 1..Len(body)
    BY <1>1, <1>4
  <2> QED BY <1>3, <1>4, <2>1
<1>8. stars' \subseteq Nodes'
  BY <1>2, <1>6, <1>7 DEF Nodes
<1>9. Nodes' \subseteq Cells
  BY <1>2, <1>4 DEF Nodes
<1>10. stars' \in SUBSET Cells
  BY <1>8, <1>9
<1>11. timer' \in {"periodic", "once", "off"}
  BY DEF Creep, Expired, SnakeInv, TypeOK
<1>12. TypeOK'
  BY <1>2, <1>4, <1>10, <1>11 DEF Creep, SnakeInv, TypeOK, keys
<1>13. ScreenTrue'
  BY <1>2, <1>4, <1>5, <1>8, <1>9 DEF ScreenTrue
<1> QED BY <1>2, <1>12, <1>13 DEF SnakeInv

\* main() leaves the snake alone.
LEMMA MainSnake == ASSUME SnakeInv, Press \/ GetOrder  PROVE  SnakeInv'
<1> USE DEF SnakeInv, TypeOK
<1>1. CASE InstallHandler
  BY <1>1, StillSnake DEF InstallHandler, snake
<1>2. ASSUME NEW k \in Units, PressArrow(k) PROVE SnakeInv'
  BY <1>2, StillSnake DEF PressArrow, snake
<1>3. CASE PressOther
  BY <1>3, StillSnake DEF PressOther, snake
<1>4. ASSUME NEW f \in left, Store(f) PROVE SnakeInv'
  <2>1. f \in {"cx", "cy"} /\ key[f] \in -1..1
    BY DEF Units
  <2>2. dir' \in [cx : -1..1, cy : -1..1]
    BY <1>4, <2>1 DEF Store
  <2> QED BY <1>4, <2>2, StillSnake DEF Store, snake
<1>5. CASE Rearm
  BY <1>5, StillSnake DEF Rearm, SetTicker, snake
<1> QED BY <1>1, <1>2, <1>3, <1>4, <1>5 DEF Press, GetOrder

\* The handler.
LEMMA TickSnake == ASSUME SnakeInv, Tick  PROVE  SnakeInv'
<1>1. CASE KilledByAlarm
  BY <1>1, StillSnake DEF KilledByAlarm, SnakeInv, TypeOK, snake, keys, Killed
<1>2. CASE ShowInformation
  BY <1>2, StillSnake DEF ShowInformation, Expired, SnakeInv, TypeOK, snake, keys
<1>3. CASE HitWall
  BY <1>3, OverSnake DEF HitWall, SnakeInv, TypeOK
<1>4. CASE BiteItself
  BY <1>4, OverSnake DEF BiteItself, SnakeInv, TypeOK
<1>5. CASE WalkFreed
  BY <1>5, StillSnake DEF WalkFreed, Expired, SnakeInv, TypeOK, snake, keys
<1> QED BY <1>1, <1>2, <1>3, <1>4, <1>5, EatSnake, CreepSnake DEF Tick, ShowSnake

\* The invariant is inductive.
LEMMA NextSnake == SnakeInv /\ [Next]_vars => SnakeInv'
<1>1. ASSUME SnakeInv, UNCHANGED vars PROVE SnakeInv'
  BY <1>1 DEF vars, snake, keys, SnakeInv, TypeOK, ScreenTrue, Nodes
<1> QED BY <1>1, MainSnake, TickSnake DEF Next

(***************************************************************************)
(* On any screen the types are kept, the snake stays on the field, and     *)
(* what the screen shows as snake is snake, whichever halves of dir the    *)
(* handler meets.                                                          *)
(***************************************************************************)
THEOREM ScreenInvariance == Spec => [](TypeOK /\ ScreenTrue)
<1>1. SnakeInv => TypeOK /\ ScreenTrue
  BY DEF SnakeInv
<1> QED BY <1>1, InitSnake, NextSnake, PTL DEF Spec
-----------------------------------------------------------------------------
(***************************************************************************)
(* OneCellMoves: unless a direction is stored by half, dir is one of the   *)
(* four arrows.                                                            *)
(***************************************************************************)
DirInv == /\ Whole => dir \in Units
          /\ main # "store" => left = {}
          /\ \A f, g \in {"cx", "cy"} : f # g /\ left = {f} => dir[g] = key[g]

\* dir has the key's fields, but for the one that is left.
LEMMA StoreDir == ASSUME TypeOK, DirInv, NEW f \in left, Store(f)  PROVE  DirInv'
<1>1. /\ f \in {"cx", "cy"} /\ left \subseteq {"cx", "cy"} /\ key \in Units /\ key' = key
      /\ dir \in [cx : -1..1, cy : -1..1]
      /\ dir' = [dir EXCEPT ![f] = key[f]] /\ left' = left \ {f}
  BY DEF TypeOK, Store
<1>2. CASE left = {f}
  <2>1. PICK g \in {"cx", "cy"} : g # f
    BY <1>1
  <2>2. dir[g] = key[g]
    BY <1>1, <1>2, <2>1 DEF DirInv
  <2>3. dir'.cx = key.cx /\ dir'.cy = key.cy /\ dir' \in [cx : -1..1, cy : -1..1]
    BY <1>1, <2>1, <2>2 DEF Units
  <2>4. dir' \in Units
    BY <1>1, <2>3 DEF Units
  <2> QED BY <1>1, <1>2, <2>4 DEF DirInv, Whole
<1>3. CASE left # {f}
  <2>1. left = {"cx", "cy"}
    BY <1>1, <1>3
  <2>2. dir'[f] = key[f]
    BY <1>1
  <2>3. left' # {} /\ (left' = {"cx"} \/ left' = {"cy"}) /\ f \notin left' /\ main' = "store"
    BY <1>1, <1>3, <2>1 DEF Store
  <2> QED BY <1>1, <2>2, <2>3 DEF DirInv, Whole
<1> QED BY <1>2, <1>3

LEMMA NextDir == TypeOK /\ DirInv /\ [Next]_vars => DirInv'
<1> SUFFICES ASSUME TypeOK, DirInv, [Next]_vars PROVE DirInv'
  OBVIOUS
<1>1. ASSUME UNCHANGED <<dir, key, left>>, main = main' \/ left = {} PROVE DirInv'
  BY <1>1 DEF DirInv, Whole
<1>2. ASSUME NEW k \in Units, PressArrow(k) PROVE DirInv'
  <2>1. Whole /\ dir \in Units
    BY <1>2 DEF PressArrow, DirInv, Whole
  <2>2. dir' = dir /\ left' = {"cx", "cy"} /\ main' = "store"
    BY <1>2 DEF PressArrow
  <2>3. \A f : left' # {f}
    BY <2>2
  <2> QED BY <2>1, <2>2, <2>3 DEF DirInv
<1>3. CASE PressOther \/ InstallHandler \/ Rearm
  BY <1>1, <1>3 DEF PressOther, InstallHandler, Rearm, DirInv
<1>4. CASE Tick
  BY <1>1, <1>4 DEF Tick, KilledByAlarm, ShowInformation, ShowSnake, HitWall, BiteItself, Eat,
                    Creep, WalkFreed, keys
<1>5. CASE UNCHANGED vars
  BY <1>1, <1>5 DEF vars, keys
<1> QED BY <1>2, <1>3, <1>4, <1>5, StoreDir DEF Next, Press, GetOrder

LEMMA DirInvariance == Spec => [](SnakeInv /\ DirInv)
<1>1. Init => DirInv
  BY DEF Init, DirInv, Whole, Right, Units
<1>2. SnakeInv => TypeOK
  BY DEF SnakeInv
<1> QED BY <1>1, <1>2, InitSnake, NextSnake, NextDir, PTL DEF Spec

\* With a whole direction the cell ahead is not the one the head is on.
LEMMA AheadElsewhere == ASSUME SnakeInv, DirInv, Steps \/ BiteItself, Len(body) = 1, Whole
                        PROVE  Ahead # body[1] /\ stars \subseteq {body[1]}
<1>1. body \in Seq(Cells) /\ Nodes = {body[1]} /\ stars \subseteq Nodes
  BY DEF SnakeInv, TypeOK, ScreenTrue, Nodes, Steps, BiteItself, Due
<1>2. dir \in Units
  BY DEF DirInv
<1>3. body[1] \in Cells
  BY <1>1
<1>4. body[1][1] \in Int /\ body[1][2] \in Int
  BY <1>3, SnakeAssumption DEF Cells
<1>5. Ahead[1] # body[1][1] \/ Ahead[2] # body[1][2]
  BY <1>2, <1>4 DEF Ahead, Head1, Units
<1> QED BY <1>1, <1>5

(***************************************************************************)
(* On any screen, a snake of one cell cannot bite itself, and each step    *)
(* takes its head elsewhere, unless the handler finds dir stored by half.  *)
(***************************************************************************)
THEOREM OneCell == Spec => OneCellMoves
<1> DEFINE Good == Len(body) = 1 /\ Whole =>
                     /\ result = 0 => result' # 2
                     /\ body' \notin {body, <<>>} => body'[1] # body[1]
<1>1. ASSUME SnakeInv, DirInv, [Next]_vars PROVE Good
  <2> SUFFICES ASSUME Len(body) = 1, Whole
               PROVE  /\ result = 0 => result' # 2
                      /\ body' \notin {body, <<>>} => body'[1] # body[1]
    OBVIOUS
  <2>1. CASE UNCHANGED <<body, result>>
    BY <2>1
  <2>2. CASE HitWall
    BY <2>2 DEF HitWall, Over
  <2>3. CASE BiteItself
    BY <1>1, <2>3, AheadElsewhere DEF BiteItself, Shown
  <2>4. CASE Eat
    <3>1. body \in Seq(Cells) /\ Ahead # body[1] /\ Ahead \in Cells /\ Steps
      BY <1>1, <2>4, AheadElsewhere, AheadOnField DEF Eat, SnakeInv, TypeOK
    <3>2. (<<Ahead>> \o body)[1] = Ahead
      BY <3>1, Grown
    <3> QED BY <2>4, <3>1, <3>2 DEF Eat, Over
  <2>5. CASE Creep
    <3> DEFINE grown == <<Ahead>> \o body
    <3>1. body \in Seq(Cells) /\ Ahead # body[1] /\ Ahead \in Cells /\ result' = result
      BY <1>1, <2>5, AheadElsewhere, AheadOnField DEF Creep, SnakeInv, TypeOK
    <3>2. grown \in Seq(Cells) /\ Len(grown) = 2 /\ grown[1] = Ahead
      <4>1. Len(body) = 1
        OBVIOUS
      <4>2. Len(grown) = Len(body) + 1 /\ grown \in Seq(Cells) /\ grown[1] = Ahead
        BY <3>1, Grown
      <4> QED BY <4>1, <4>2
    <3>3. body' = SubSeq(grown, 1, Len(grown) - 1)
      BY <2>5 DEF Creep
    <3> HIDE DEF grown
    <3>4. body'[1] = Ahead
      BY <3>2, <3>3
    <3> QED BY <3>1, <3>4
  <2>6. CASE KilledByAlarm
    BY <2>6 DEF KilledByAlarm, snake, Killed
  <2>7. CASE ShowInformation \/ WalkFreed \/ Press \/ GetOrder
    BY <2>1, <2>7 DEF ShowInformation, WalkFreed, Press, PressArrow, PressOther, GetOrder,
                      InstallHandler, Store, Rearm, snake
  <2>8. CASE UNCHANGED vars
    BY <2>1, <2>8 DEF vars, snake
  <2> QED BY <1>1, <2>2, <2>3, <2>4, <2>5, <2>6, <2>7, <2>8 DEF Next, Tick, ShowSnake
<1>2. Spec => [][Good]_vars
  BY <1>1, DirInvariance, PTL DEF Spec
<1> QED BY <1>2 DEF OneCellMoves
-----------------------------------------------------------------------------
\* What grows is crossed where it was, and at the new head if that is on the body.
LEMMA CrossGrown ==
    ASSUME NEW s \in Seq(Cells), NEW c \in Cells, NEW j \in 1..Len(s) + 1,
           NEW k \in 1..Len(s) + 1, j # k, (<<c>> \o s)[j] = (<<c>> \o s)[k]
    PROVE  \/ (<<c>> \o s)[j] = c /\ \E n \in 1..Len(s) : s[n] = c
           \/ \E n, m \in 1..Len(s) : n # m /\ s[n] = s[m] /\ s[n] = (<<c>> \o s)[j]
<1> DEFINE grown == <<c>> \o s
<1>1. /\ Len(s) \in Nat /\ grown[1] = c
      /\ \A n \in 1..Len(s) : grown[n + 1] = s[n]
  BY Grown
<1> HIDE DEF grown
<1>2. \A n \in 1..Len(s) + 1 : n # 1 => n - 1 \in 1..Len(s) /\ grown[n] = s[n - 1]
  BY <1>1
<1>3. CASE j = 1
  <2>1. k - 1 \in 1..Len(s) /\ s[k - 1] = c
    BY <1>1, <1>2, <1>3 DEF grown
  <2> QED BY <1>1, <1>3, <2>1 DEF grown
<1>4. CASE j # 1 /\ k = 1
  <2>1. j - 1 \in 1..Len(s) /\ s[j - 1] = c /\ grown[j] = c
    BY <1>1, <1>2, <1>4 DEF grown
  <2> QED BY <2>1 DEF grown
<1>5. CASE j # 1 /\ k # 1
  <2>1. /\ j - 1 \in 1..Len(s) /\ k - 1 \in 1..Len(s) /\ j - 1 # k - 1
        /\ grown[j] = s[j - 1] /\ grown[k] = s[k - 1]
    BY <1>1, <1>2, <1>5
  <2> QED BY <2>1 DEF grown
<1> QED BY <1>3, <1>4, <1>5

Unseen == /\ Crossed' \ Crossed \subseteq Hidden
          /\ Hidden' \ Hidden \subseteq {food'} \cup Crossed

\* The cells of the body that show no '*' once the food is printed.
LEMMA HiddenShown == Hidden = Nodes \ Shown
  BY DEF Hidden, Shown

\* Whether it grows or creeps, the list after the step is a part of the grown one.
LEMMA StepCrosses ==
    ASSUME SnakeInv, Steps, body' \in Seq(Cells), Len(body') <= Len(body) + 1,
           \A k \in 1..Len(body') : body'[k] = (<<Ahead>> \o body)[k]
    PROVE  /\ Crossed' \ Crossed \subseteq Hidden
           /\ Nodes' \subseteq Nodes \cup {Ahead}
<1> DEFINE grown == <<Ahead>> \o body
<1>1. Ahead \in Cells /\ body \in Seq(Cells) /\ Len(body) \in Nat /\ Len(body') \in Nat
  BY AheadOnField DEF SnakeInv, TypeOK
<1>2. DOMAIN body = 1..Len(body) /\ DOMAIN body' = 1..Len(body')
  BY <1>1
<1>3. ASSUME NEW c \in Crossed' \ Crossed PROVE c \in Hidden
  <2>1. PICK j \in 1..Len(body') : body'[j] = c /\ \E m \in 1..Len(body') : m # j /\ body'[m] = body'[j]
    BY <1>2, <1>3 DEF Crossed
  <2>2. PICK k \in 1..Len(body') : k # j /\ body'[k] = body'[j]
    BY <2>1
  <2>3. j \in 1..Len(body) + 1 /\ k \in 1..Len(body) + 1 /\ grown[j] = c /\ grown[k] = c
    BY <1>1, <2>1, <2>2
  <2>4. \A n, m \in 1..Len(body) : n # m /\ body[n] = body[m] => body[n] # c
    BY <1>2, <1>3 DEF Crossed
  <2>5. c = Ahead /\ \E n \in 1..Len(body) : body[n] = c
    BY <1>1, <2>2, <2>3, <2>4, CrossGrown
  <2>6. c \in Nodes /\ c \notin Shown
    BY <1>2, <2>5 DEF Nodes, Steps
  <2> QED BY <2>6, HiddenShown
<1>4. ASSUME NEW c \in Nodes' PROVE c \in Nodes \cup {Ahead}
  <2>1. PICK k \in 1..Len(body') : body'[k] = c
    BY <1>2, <1>4 DEF Nodes
  <2>2. k \in 1..Len(body) + 1 /\ grown[k] = c
    BY <1>1, <2>1
  <2>3. CASE k = 1
    BY <1>1, <2>2, <2>3, Grown
  <2>4. CASE k # 1
    <3>1. k - 1 \in 1..Len(body) /\ (k - 1) + 1 = k
      BY <1>1, <2>2, <2>4
    <3>2. body[k - 1] = c
      BY <1>1, <2>2, <3>1, Grown
    <3> QED BY <1>2, <3>1, <3>2 DEF Nodes
  <2> QED BY <2>3, <2>4
<1> QED BY <1>3, <1>4

LEMMA EatUnseen == ASSUME SnakeInv, Eat, result' = 0  PROVE  Unseen
<1>1. /\ Steps /\ body' = <<Ahead>> \o body /\ stars' = Shown \cup {Ahead}
  BY SnakeAssumption DEF Eat, Over
<1>2. Ahead \in Cells /\ body \in Seq(Cells)
  BY <1>1, AheadOnField DEF SnakeInv, TypeOK
<1>3. body' \in Seq(Cells) /\ Len(body') = Len(body) + 1
  BY <1>1, <1>2, Grown
<1>4. Crossed' \ Crossed \subseteq Hidden /\ Nodes' \subseteq Nodes \cup {Ahead}
  BY <1>1, <1>3, StepCrosses
<1>5. Hidden' = Nodes' \ (stars' \ {food'})
  BY DEF Hidden
<1>6. Hidden' \ Hidden \subseteq {food'}
  BY <1>1, <1>4, <1>5, HiddenShown
<1> QED BY <1>4, <1>6 DEF Unseen

\* The cell that goes blank is that of the last node; another node there is crossed
\* with it.
LEMMA CreepUnseen == ASSUME SnakeInv, Creep  PROVE  Unseen
<1> DEFINE grown == <<Ahead>> \o body
           n == Len(body)
<1>1. /\ Steps /\ body' = SubSeq(grown, 1, Len(grown) - 1) /\ food' = food
      /\ stars' = (Shown \ {grown[Len(grown)]}) \cup {Ahead}
  BY DEF Creep
<1>2. Ahead \in Cells /\ body \in Seq(Cells) /\ n \in Nat /\ n > 0
  BY <1>1, AheadOnField DEF SnakeInv, TypeOK
<1>3. /\ grown \in Seq(Cells) /\ Len(grown) = n + 1 /\ grown[1] = Ahead
      /\ \A k \in 1..n : grown[k + 1] = body[k]
  BY <1>2, Grown
<1> HIDE DEF grown
<1>4. /\ body' \in Seq(Cells) /\ Len(body') = n
      /\ \A k \in 1..n : body'[k] = grown[k]
  BY <1>1, <1>2, <1>3
<1>5. Crossed' \ Crossed \subseteq Hidden /\ Nodes' \subseteq Nodes \cup {Ahead}
  BY <1>1, <1>2, <1>4, StepCrosses DEF grown
<1>6. ASSUME NEW c \in Hidden' \ Hidden PROVE c \in {food'} \cup Crossed
  <2> SUFFICES ASSUME c # food PROVE c \in Crossed
    BY <1>1
  <2>1. c \in Nodes' /\ c \notin stars'
    BY <1>1, <1>6 DEF Hidden
  <2>2. c # Ahead /\ c \in Shown
    BY <1>1, <1>5, <1>6, <2>1, HiddenShown
  <2>3. c = grown[n + 1] /\ c = body[n]
    BY <1>1, <1>2, <1>3, <2>1, <2>2
  <2>4. PICK k \in 1..n : body'[k] = c
    BY <1>4, <2>1 DEF Nodes
  <2>5. k # 1
    BY <1>3, <1>4, <2>2, <2>4
  <2>6. k - 1 \in 1..n /\ k - 1 # n /\ (k - 1) + 1 = k
    BY <1>2, <2>4, <2>5
  <2>7. body[k - 1] = c
    BY <1>3, <1>4, <2>4, <2>6
  <2>8. n \in 1..n /\ DOMAIN body = 1..n
    BY <1>2
  <2> QED BY <2>3, <2>6, <2>7, <2>8 DEF Crossed
<1> QED BY <1>5, <1>6 DEF Unseen

(***************************************************************************)
(* On any screen the snake gets onto a cell of its own only where the      *)
(* lookup on the screen cannot see the body, and a cell of the body gets   *)
(* out of sight only under new food or where two nodes already lie on one  *)
(* another (snake.c:163-203).                                              *)
(***************************************************************************)
THEOREM Unnoticed == Spec => CrossesUnseen
<1>1. ASSUME SnakeInv, [Next]_vars, result' = 0 PROVE Unseen
  <2>1. CASE UNCHANGED snake
    BY <2>1 DEF snake, Unseen, Crossed, Hidden, Nodes
  <2>2. CASE Tick
    <3>1. ~HitWall /\ ~BiteItself /\ ~KilledByAlarm
      BY <1>1 DEF HitWall, BiteItself, Over, KilledByAlarm, Killed
    <3> QED BY <1>1, <2>1, <2>2, <3>1, EatUnseen, CreepUnseen
            DEF Tick, ShowSnake, ShowInformation, WalkFreed
  <2>3. CASE Press \/ GetOrder \/ UNCHANGED vars
    <3>1. UNCHANGED snake
      BY <2>3 DEF Press, PressArrow, PressOther, GetOrder, InstallHandler, Store, Rearm, vars
    <3> QED BY <2>1, <3>1
  <2> QED BY <1>1, <2>2, <2>3 DEF Next
<1>2. Spec => [][result' = 0 => Unseen]_vars
  <2>1. Spec => []SnakeInv
    BY InitSnake, NextSnake, PTL DEF Spec
  <2> QED BY <1>1, <2>1, PTL DEF Spec
<1> QED BY <1>2 DEF CrossesUnseen, Unseen
=============================================================================
