---------------------------- MODULE ProcessProofs -----------------------------
(***************************************************************************)
(* The processes of notes 15 and 14, for any number of them: those of      *)
(* ProcessChat share memory without a lock, those of SemaphoreExercise a   *)
(* System V semaphore.                                                     *)
(*                                                                         *)
(* ProcessChat: nobody blocks, and what is heard through the unlocked      *)
(* segments is what Announcements promises.  The invariant says what a     *)
(* segment may hold at any moment, also between memset and recv, and whose *)
(* indices are in a socket pair.                                           *)
(***************************************************************************)
EXTENDS ProcessChat, SemaphoreExercise, FiniteSetTheorems, TLAPS

\* A segment is blank or holds what was received last, and nobody is ahead of it.
SegmentsTrue == \A j \in Slots : /\ taken[j] <= said[j]
                                 /\ share_mem[j] # Blank => share_mem[j] = taken[j]
                                 /\ \A k \in Slots : heard[k][j] <= taken[j]

\* No child is sent its own index.
NoEcho == \A k \in Slots : \A m \in 1..Len(down[k]) : down[k][m] # k

\* users[] is filled from the first place on.
Unused == \A k \in Slots : k >= user_count => child[k] = "none" /\ peer[k] = "none"

ProcInv == TypeOK /\ NeverBlocked /\ SegmentsTrue /\ NoEcho

LEMMA SlotsAreNumbers == Slots \subseteq Nat /\ Listen \notin Slots
BY ProcessAssumption DEF Slots, Listen

\* The initial state has the invariant.
LEMMA InitProc == Init => ProcInv
<1> SUFFICES ASSUME Init PROVE ProcInv
  OBVIOUS
<1>1. TypeOK
  <2>1. heard \in [Slots -> [Slots -> Nat]] /\ before \in [Slots -> [Slots -> Nat]]
    BY DEF Init
  <2>2. share_mem \in [Slots -> {Blank} \cup (Nat \ {0})]
    BY DEF Init
  <2>3. /\ down \in [Slots -> Seq(Slots)]
        /\ up \in [Slots -> Nat] /\ said \in [Slots -> Nat] /\ taken \in [Slots -> Nat]
    BY DEF Init
  <2>4. user_count \in 0..USER_LIMIT /\ backlog \in 0..MaxBacklog
    BY ProcessAssumption DEF Init
  <2> QED BY <2>1, <2>2, <2>3, <2>4 DEF Init, TypeOK
<1>2. NeverBlocked
  BY DEF Init, NeverBlocked
<1>3. SegmentsTrue
  BY DEF Init, SegmentsTrue
<1>4. NoEcho
  <2>1. \A k \in Slots : Len(down[k]) = 0
    BY DEF Init
  <2> QED BY <2>1 DEF NoEcho
<1> QED BY <1>1, <1>2, <1>3, <1>4 DEF ProcInv

\* What the invariant says of one segment, with the types.
LEMMA SegmentOf == ASSUME ProcInv, NEW j \in Slots
                   PROVE  /\ taken[j] \in Nat /\ said[j] \in Nat /\ taken[j] <= said[j]
                          /\ share_mem[j] # Blank => share_mem[j] = taken[j]
                          /\ \A k \in Slots : heard[k][j] \in Nat /\ heard[k][j] <= taken[j]
BY DEF ProcInv, TypeOK, SegmentsTrue
-----------------------------------------------------------------------------
(***************************************************************************)
(* The clients.                                                            *)
(***************************************************************************)
LEMMA ConnectProc == ASSUME ProcInv, Connect  PROVE  ProcInv'
<1>1. TypeOK'
  BY ProcessAssumption DEF Connect, ProcInv, TypeOK, pipeVars, childVars, clientVars
<1>2. NeverBlocked'
  BY DEF Connect, ProcInv, TypeOK, NeverBlocked, pipeVars, childVars, clientVars
<1>3. (SegmentsTrue /\ NoEcho)'
  BY DEF Connect, ProcInv, SegmentsTrue, NoEcho, pipeVars, childVars, clientVars
<1> QED BY <1>1, <1>2, <1>3 DEF ProcInv

LEMMA SayProc == ASSUME ProcInv, NEW k \in Slots, Say(k)  PROVE  ProcInv'
<1> USE DEF parentVars, pipeVars, childVars
<1>1. TypeOK'
  <2>1. said' \in [Slots -> Nat] /\ conn_edge' \in [Slots -> BOOLEAN]
    BY DEF Say, ProcInv, TypeOK
  <2>2. UNCHANGED <<user_count, todo, backlog, listen_edge, up, up_edge, down, down_edge, child,
                    batch, stop_child, share_mem, peer, taken, heard, before>>
    BY DEF Say
  <2> QED BY <2>1, <2>2 DEF ProcInv, TypeOK
<1>2. NeverBlocked'
  BY DEF Say, ProcInv, TypeOK, NeverBlocked
<1>3. SegmentsTrue'
  <2>1. /\ said' = [said EXCEPT ![k] = said[k] + 1] /\ said \in [Slots -> Nat]
        /\ taken' = taken /\ share_mem' = share_mem /\ heard' = heard
    BY DEF Say, ProcInv, TypeOK
  <2>2. \A j \in Slots : said'[j] >= said[j]
    BY <2>1
  <2> QED BY <2>1, <2>2, SegmentOf DEF SegmentsTrue
<1>4. NoEcho'
  BY DEF Say, ProcInv, NoEcho
<1> QED BY <1>1, <1>2, <1>3, <1>4 DEF ProcInv

LEMMA LeaveProc == ASSUME ProcInv, NEW k \in Slots, Leave(k)  PROVE  ProcInv'
<1> USE DEF parentVars, pipeVars, childVars
<1>1. TypeOK'
  BY DEF Leave, ProcInv, TypeOK
<1>2. NeverBlocked'
  BY DEF Leave, ProcInv, TypeOK, NeverBlocked
<1>3. (SegmentsTrue /\ NoEcho)'
  BY DEF Leave, ProcInv, SegmentsTrue, NoEcho
<1> QED BY <1>1, <1>2, <1>3 DEF ProcInv
-----------------------------------------------------------------------------
(***************************************************************************)
(* RunChild.                                                               *)
(***************************************************************************)
LEMMA WaitProc == ASSUME ProcInv, NEW k \in Slots, ChildWait(k)  PROVE  ProcInv'
<1> USE DEF parentVars
<1>1. TypeOK'
  <2>1. Readable(k) \in SUBSET {"conn", "pipe"}
    BY DEF Readable
  <2> QED BY <2>1 DEF ChildWait, ProcInv, TypeOK
<1>2. NeverBlocked'
  <2>1. /\ "pipe" \in Readable(k) => down[k] # <<>>
        /\ "conn" \in Readable(k) => said[k] > taken[k] \/ peer[k] = "left"
    BY DEF Readable
  <2> QED BY <2>1 DEF ChildWait, ProcInv, TypeOK, NeverBlocked
<1>3. (SegmentsTrue /\ NoEcho)'
  BY DEF ChildWait, ProcInv, SegmentsTrue, NoEcho
<1> QED BY <1>1, <1>2, <1>3 DEF ProcInv

\* From memset on the segment is blank.
LEMMA ClearProc == ASSUME ProcInv, NEW k \in Slots, Clear(k)  PROVE  ProcInv'
<1> USE DEF parentVars, pipeVars, clientVars
<1>1. TypeOK'
  BY DEF Clear, ProcInv, TypeOK
<1>2. NeverBlocked'
  BY DEF Clear, ProcInv, TypeOK, NeverBlocked
<1>3. SegmentsTrue'
  BY DEF Clear, ProcInv, TypeOK, SegmentsTrue
<1>4. NoEcho'
  BY DEF Clear, ProcInv, NoEcho
<1> QED BY <1>1, <1>2, <1>3, <1>4 DEF ProcInv

\* From recv() on it holds what was received, which is more than before.
LEMMA FillProc == ASSUME ProcInv, NEW k \in Slots, Fill(k)  PROVE  ProcInv'
<1> PICK m \in (taken[k] + 1)..said[k] : Received(k, m, batch[k] \ {"conn"})
  BY DEF Fill
<1>n. /\ taken[k] \in Nat /\ said[k] \in Nat /\ m \in Nat \ {0} /\ taken[k] < m /\ m <= said[k]
  BY DEF ProcInv, TypeOK
<1> USE DEF parentVars
<1>1. TypeOK'
  <2>2. /\ share_mem' \in [Slots -> {Blank} \cup (Nat \ {0})]
        /\ taken' \in [Slots -> Nat] /\ up' \in [Slots -> Nat]
    BY <1>n DEF Received, ProcInv, TypeOK
  <2>3. /\ child' \in [Slots -> {"none", "run", "fill", "ended"}]
        /\ batch' \in [Slots -> SUBSET {"conn", "pipe"}]
        /\ up_edge' \in [Slots -> BOOLEAN]
    BY DEF Received, ProcInv, TypeOK
  <2> QED BY <2>2, <2>3 DEF Received, ProcInv, TypeOK
<1>2. NeverBlocked'
  <2>1. /\ peer' = peer /\ down' = down /\ said' = said /\ todo' = todo /\ backlog' = backlog
        /\ taken' = [taken EXCEPT ![k] = m]
        /\ batch' = [batch EXCEPT ![k] = batch[k] \ {"conn"}]
        /\ child' = [child EXCEPT ![k] = "run"] /\ child[k] = "fill"
        /\ up' = [up EXCEPT ![k] = up[k] + 1]
    BY DEF Received
  <2>2. \A n \in Slots : /\ "pipe" \in batch'[n] => down'[n] # <<>>
                         /\ "conn" \in batch'[n] => said'[n] > taken'[n] \/ peer'[n] = "left"
    <3> SUFFICES ASSUME NEW n \in Slots
                 PROVE  /\ "pipe" \in batch'[n] => down'[n] # <<>>
                        /\ "conn" \in batch'[n] => said'[n] > taken'[n] \/ peer'[n] = "left"
      OBVIOUS
    <3>1. /\ "pipe" \in batch[n] => down[n] # <<>>
          /\ "conn" \in batch[n] => said[n] > taken[n] \/ peer[n] = "left"
      BY DEF ProcInv, NeverBlocked
    <3>2. batch \in [Slots -> SUBSET {"conn", "pipe"}] /\ taken \in [Slots -> Nat]
      BY DEF ProcInv, TypeOK
    <3>3. CASE n = k
      BY <2>1, <3>1, <3>2, <3>3
    <3>4. CASE n # k
      BY <2>1, <3>1, <3>2, <3>4
    <3> QED BY <3>3, <3>4
  <2>3. \A n \in Slots : n \in todo' => up'[n] > 0 \/ child'[n] = "ended"
    <3>1. up \in [Slots -> Nat] /\ child \in [Slots -> {"none", "run", "fill", "ended"}]
      BY DEF ProcInv, TypeOK
    <3>2. \A n \in Slots : n \in todo => up[n] > 0 \/ child[n] = "ended"
      BY DEF ProcInv, NeverBlocked
    <3> QED BY <2>1, <3>1, <3>2
  <2> QED BY <2>1, <2>2, <2>3 DEF ProcInv, NeverBlocked
<1>3. SegmentsTrue'
  <2> SUFFICES ASSUME NEW j \in Slots
               PROVE  /\ taken'[j] <= said'[j]
                      /\ share_mem'[j] # Blank => share_mem'[j] = taken'[j]
                      /\ \A n \in Slots : heard'[n][j] <= taken'[j]
    BY DEF SegmentsTrue
  <2>1. /\ said' = said /\ heard' = heard
        /\ taken' = [taken EXCEPT ![k] = m] /\ k \in DOMAIN taken
        /\ share_mem' = [share_mem EXCEPT ![k] = m] /\ k \in DOMAIN share_mem
    BY DEF Received, ProcInv, TypeOK
  <2>2. CASE j = k
    <3>1. taken'[j] = m /\ share_mem'[j] = m /\ taken[j] < m /\ m <= said[j]
      BY <1>n, <2>1, <2>2
    <3> QED BY <2>1, <3>1, SegmentOf
  <2>3. CASE j # k
    <3>1. taken'[j] = taken[j] /\ share_mem'[j] = share_mem[j]
      BY <2>1, <2>3
    <3> QED BY <2>1, <3>1, SegmentOf
  <2> QED BY <2>2, <2>3
<1>4. NoEcho'
  BY DEF Received, ProcInv, NoEcho
<1> QED BY <1>1, <1>2, <1>3, <1>4 DEF ProcInv

LEMMA FillNothingProc == ASSUME ProcInv, NEW k \in Slots, FillNothing(k)  PROVE  ProcInv'
<1> USE DEF parentVars, pipeVars, clientVars
<1>1. TypeOK'
  BY DEF FillNothing, ProcInv, TypeOK
<1>2. NeverBlocked'
  BY DEF FillNothing, ProcInv, TypeOK, NeverBlocked
<1>3. (SegmentsTrue /\ NoEcho)'
  BY DEF FillNothing, ProcInv, SegmentsTrue, NoEcho
<1> QED BY <1>1, <1>2, <1>3 DEF ProcInv
\* One entry of a table of tables is replaced.
LEMMA ReplaceEntry ==
    ASSUME NEW f \in [Slots -> [Slots -> Nat]], NEW k \in Slots, NEW j \in Slots, NEW v \in Nat,
           NEW g, g = [f EXCEPT ![k][j] = v]
    PROVE  /\ g \in [Slots -> [Slots -> Nat]]
           /\ \A n, s \in Slots : g[n][s] = IF n = k /\ s = j THEN v ELSE f[n][s]
<1> DEFINE row == [f[k] EXCEPT ![j] = v]
<1>1. row \in [Slots -> Nat] /\ \A s \in Slots : row[s] = IF s = j THEN v ELSE f[k][s]
  OBVIOUS
<1>2. g = [f EXCEPT ![k] = row]
  OBVIOUS
<1> HIDE DEF row
<1>3. g \in [Slots -> [Slots -> Nat]] /\ \A n \in Slots : g[n] = IF n = k THEN row ELSE f[n]
  BY <1>1, <1>2
<1>4. \A n, s \in Slots : g[n][s] = IF n = k /\ s = j THEN v ELSE f[n][s]
  BY <1>1, <1>3
<1> QED BY <1>3, <1>4

\* What is heard is what the segment holds: it was said, and by another.
LEMMA TellProc == ASSUME ProcInv, NEW k \in Slots, Tell(k)  PROVE  ProcInv'
<1> USE DEF parentVars
<1> DEFINE j == Head(down[k])
<1>1. /\ down[k] \in Seq(Slots) /\ down[k] # <<>> /\ j \in Slots
      /\ j = down[k][1] /\ Len(down[k]) > 0
      /\ Tail(down[k]) \in Seq(Slots) /\ Len(Tail(down[k])) = Len(down[k]) - 1
      /\ \A m \in 1..Len(Tail(down[k])) : Tail(down[k])[m] = down[k][m + 1]
  <2>1. down[k] \in Seq(Slots) /\ down[k] # <<>>
    BY DEF Tell, ProcInv, TypeOK, NeverBlocked
  <2> QED BY <2>1
<1> HIDE DEF j
<1>2. \/ heard' = heard
      \/ share_mem[j] # Blank /\ heard' = [heard EXCEPT ![k][j] = share_mem[j]]
  <2>1. heard' = IF peer[k] = "open" /\ share_mem[j] # Blank
                   THEN [heard EXCEPT ![k][j] = share_mem[j]] ELSE heard
    BY DEF Tell, j
  <2> QED BY <2>1
<1>3. /\ down' = [down EXCEPT ![k] = Tail(down[k])]
      /\ batch' = [batch EXCEPT ![k] = batch[k] \ {"pipe"}]
      /\ conn_edge' = [conn_edge EXCEPT ![k] = conn_edge[k] \/ peer[k] = "left"]
      /\ UNCHANGED <<user_count, todo, backlog, listen_edge, up, up_edge, down_edge, child,
                     stop_child, share_mem, peer, said, taken, before>>
  BY DEF Tell
<1>4. share_mem[j] # Blank => share_mem[j] \in Nat /\ share_mem[j] = taken[j]
  BY <1>1, SegmentOf
<1>5. /\ heard' \in [Slots -> [Slots -> Nat]]
      /\ \A n, s \in Slots : heard'[n][s] = heard[n][s] \/ heard'[n][s] = taken[s]
  <2>1. heard \in [Slots -> [Slots -> Nat]]
    BY DEF ProcInv, TypeOK
  <2>2. CASE heard' = heard
    BY <2>1, <2>2
  <2>3. CASE share_mem[j] # Blank /\ heard' = [heard EXCEPT ![k][j] = share_mem[j]]
    <3> DEFINE v == share_mem[j]
    <3>1. v \in Nat /\ v = taken[j]
      BY <1>4, <2>3
    <3> HIDE DEF v
    <3>2. heard' = [heard EXCEPT ![k][j] = v]
      BY <2>3 DEF v
    <3>3. j \in Slots /\ v \in Nat
      BY <1>1, <3>1
    <3>4. /\ heard' \in [Slots -> [Slots -> Nat]]
          /\ \A n, s \in Slots : heard'[n][s] = IF n = k /\ s = j THEN v ELSE heard[n][s]
      BY <2>1, <3>2, <3>3, ReplaceEntry, ZenonT(60)
    <3> QED BY <3>1, <3>4
  <2> QED BY <1>2, <2>2, <2>3
<1>6. TypeOK'
  <2>2. down' \in [Slots -> Seq(Slots)]
    BY <1>1, <1>3 DEF ProcInv, TypeOK
  <2>3. batch' \in [Slots -> SUBSET {"conn", "pipe"}]
    BY <1>3 DEF ProcInv, TypeOK
  <2>4. conn_edge' \in [Slots -> BOOLEAN]
    <3>1. conn_edge \in [Slots -> BOOLEAN] /\ (conn_edge[k] \/ peer[k] = "left") \in BOOLEAN
      BY DEF ProcInv, TypeOK
    <3> QED BY <1>3, <3>1
  <2> QED BY <1>3, <1>5, <2>2, <2>3, <2>4 DEF ProcInv, TypeOK
<1>7. NeverBlocked'
  <2>1. batch \in [Slots -> SUBSET {"conn", "pipe"}] /\ down \in [Slots -> Seq(Slots)]
    BY DEF ProcInv, TypeOK
  <2> QED BY <1>3, <2>1 DEF ProcInv, NeverBlocked
<1>8. SegmentsTrue'
  <2>1. \A n, s \in Slots : heard'[n][s] <= taken[s]
    BY <1>5, SegmentOf
  <2> QED BY <1>3, <2>1, SegmentOf DEF SegmentsTrue
<1>9. NoEcho'
  <2> SUFFICES ASSUME NEW n \in Slots, NEW m \in 1..Len(down'[n]) PROVE down'[n][m] # n
    BY DEF NoEcho
  <2>1. down \in [Slots -> Seq(Slots)] /\ \A d \in 1..Len(down[n]) : down[n][d] # n
    BY DEF ProcInv, TypeOK, NoEcho
  <2>2. CASE n = k
    <3>1. down'[n] = Tail(down[k])
      BY <1>3, <2>1, <2>2
    <3>2. m + 1 \in 1..Len(down[k]) /\ down'[n][m] = down[k][m + 1]
      BY <1>1, <3>1
    <3> QED BY <2>1, <2>2, <3>2
  <2>3. CASE n # k
    BY <1>3, <2>1, <2>3
  <2> QED BY <2>2, <2>3
<1> QED BY <1>6, <1>7, <1>8, <1>9 DEF ProcInv

LEMMA EndProc == ASSUME ProcInv, NEW k \in Slots, ChildEnd(k)  PROVE  ProcInv'
<1> USE DEF parentVars, clientVars
<1>1. TypeOK'
  BY DEF ChildEnd, ProcInv, TypeOK
<1>2. NeverBlocked'
  BY DEF ChildEnd, ProcInv, TypeOK, NeverBlocked
<1>3. (SegmentsTrue /\ NoEcho)'
  BY DEF ChildEnd, ProcInv, SegmentsTrue, NoEcho
<1> QED BY <1>1, <1>2, <1>3 DEF ProcInv

LEMMA ChildProc == ASSUME ProcInv, NEW k \in Slots, Child(k)  PROVE  ProcInv'
BY WaitProc, ClearProc, FillProc, FillNothingProc, TellProc, EndProc DEF Child
-----------------------------------------------------------------------------
(***************************************************************************)
(* The parent.                                                             *)
(***************************************************************************)
LEMMA ReportProc == ASSUME ProcInv, Wait  PROVE  ProcInv'
<1> USE DEF childVars, clientVars
<1>1. TypeOK'
  <2>1. Reported \subseteq Slots \cup {Listen}
    BY DEF Reported
  <2>2. todo' = Reported /\ up_edge' \in [Slots -> BOOLEAN] /\ listen_edge' \in BOOLEAN
    BY DEF Wait, ProcInv, TypeOK
  <2> QED BY <2>1, <2>2 DEF Wait, ProcInv, TypeOK
<1>2. NeverBlocked'
  <2>1. /\ \A k \in Slots : k \in Reported => up[k] > 0 \/ child[k] = "ended"
        /\ Listen \in Reported => backlog > 0
    BY SlotsAreNumbers DEF Reported
  <2> QED BY <2>1 DEF Wait, ProcInv, NeverBlocked
<1>3. (SegmentsTrue /\ NoEcho)'
  BY DEF Wait, ProcInv, SegmentsTrue, NoEcho
<1> QED BY <1>1, <1>2, <1>3 DEF ProcInv

\* Who is accepted gets a place of users[] that nobody had; who is not, none.
LEMMA AcceptProc == ASSUME ProcInv, Unused, Accept \/ ForkFails \/ Refuse  PROVE  ProcInv'
<1> USE DEF pipeVars
<1>1. /\ Listen \in todo /\ backlog \in 0..MaxBacklog /\ backlog > 0 /\ MaxBacklog \in Nat
      /\ todo' = todo \ {Listen} /\ backlog' = backlog - 1
      /\ UNCHANGED <<listen_edge, up, up_edge, down, down_edge, batch, stop_child, share_mem,
                     conn_edge, said, taken, heard>>
  BY ProcessAssumption
     DEF Accept, Accepted, ForkFails, Refuse, ProcInv, TypeOK, NeverBlocked, childVars, clientVars
<1>2. /\ user_count' \in 0..USER_LIMIT
      /\ child' \in [Slots -> {"none", "run", "fill", "ended"}]
      /\ peer' \in [Slots -> {"none", "open", "left"}]
      /\ before' \in [Slots -> [Slots -> Nat]]
      /\ \A k \in Slots : /\ child[k] = "ended" => child'[k] = "ended"
                          /\ peer[k] = "left" => peer'[k] = "left"
  <2>1. CASE Accept
    <3>1. user_count \in 0..USER_LIMIT /\ user_count < USER_LIMIT /\ user_count \in Slots
      BY <2>1, ProcessAssumption DEF Accept, ProcInv, TypeOK, Slots
    <3>2. /\ user_count' = user_count + 1
          /\ child' = [child EXCEPT ![user_count] = "run"]
          /\ peer' = [peer EXCEPT ![user_count] = "open"]
          /\ before' = [before EXCEPT ![user_count] = taken]
      BY <2>1 DEF Accept, Accepted
    <3>3. child[user_count] = "none" /\ peer[user_count] = "none"
      BY <3>1 DEF Unused
    <3>4. user_count' \in 0..USER_LIMIT
      BY <3>1, <3>2, ProcessAssumption
    <3> QED BY <3>1, <3>2, <3>3, <3>4 DEF ProcInv, TypeOK
  <2>2. CASE ForkFails \/ Refuse
    BY <2>2 DEF ForkFails, Refuse, ProcInv, TypeOK, childVars, clientVars
  <2> QED BY <2>1, <2>2
<1>3. TypeOK'
  <2>1. backlog' \in 0..MaxBacklog
    BY <1>1
  <2> QED BY <1>1, <1>2, <2>1 DEF ProcInv, TypeOK
<1>4. NeverBlocked'
  BY <1>1, <1>2 DEF ProcInv, NeverBlocked
<1>5. (SegmentsTrue /\ NoEcho)'
  BY <1>1 DEF ProcInv, SegmentsTrue, NoEcho
<1> QED BY <1>3, <1>4, <1>5 DEF ProcInv

\* An index goes to all but its child.
LEMMA RelayProc == ASSUME ProcInv, NEW k \in Slots, Relay(k)  PROVE  ProcInv'
<1> USE DEF childVars, clientVars
<1>1. /\ k \in todo /\ up[k] > 0
      /\ todo' = todo \ {k} /\ up' = [up EXCEPT ![k] = up[k] - 1]
      /\ down' = [n \in Slots |-> IF n \in Alive \ {k} THEN Append(down[n], k) ELSE down[n]]
      /\ down_edge' = [n \in Slots |-> down_edge[n] \/ n \in Alive \ {k}]
      /\ UNCHANGED <<user_count, backlog, listen_edge, up_edge, child, batch, stop_child,
                     share_mem, peer, conn_edge, said, taken, heard, before>>
  BY DEF Relay, PassOn
<1>2. up \in [Slots -> Nat] /\ down \in [Slots -> Seq(Slots)]
  BY DEF ProcInv, TypeOK
<1>3. TypeOK'
  <2>1. up' \in [Slots -> Nat] /\ down' \in [Slots -> Seq(Slots)]
    BY <1>1, <1>2
  <2>2. down_edge' \in [Slots -> BOOLEAN]
    BY <1>1 DEF ProcInv, TypeOK
  <2> QED BY <1>1, <2>1, <2>2 DEF ProcInv, TypeOK
<1>4. NeverBlocked'
  <2>1. ASSUME NEW n \in Slots, down[n] # <<>> PROVE down'[n] # <<>>
    <3>1. Len(down[n]) > 0 /\ Len(Append(down[n], k)) > 0
      BY <1>2, <2>1
    <3>2. down'[n] \in {down[n], Append(down[n], k)}
      BY <1>1
    <3> QED BY <3>1, <3>2
  <2>2. \A n \in Slots : n \in todo' => up'[n] = up[n]
    BY <1>1, <1>2
  <2> QED BY <1>1, <2>1, <2>2 DEF ProcInv, NeverBlocked
<1>5. SegmentsTrue'
  BY <1>1 DEF ProcInv, SegmentsTrue
<1>6. NoEcho'
  <2> SUFFICES ASSUME NEW n \in Slots, NEW m \in 1..Len(down'[n]) PROVE down'[n][m] # n
    BY DEF NoEcho
  <2>1. \A d \in 1..Len(down[n]) : down[n][d] # n
    BY DEF ProcInv, NoEcho
  <2>2. CASE n \in Alive \ {k}
    <3>1. down'[n] = Append(down[n], k) /\ n # k
      BY <1>1, <2>2
    <3>2. CASE m = Len(down[n]) + 1
      BY <1>2, <3>1, <3>2
    <3>3. CASE m # Len(down[n]) + 1
      BY <1>2, <2>1, <3>1, <3>3
    <3> QED BY <3>2, <3>3
  <2>3. CASE n \notin Alive \ {k}
    BY <1>1, <2>1, <2>3
  <2> QED BY <2>2, <2>3
<1> QED BY <1>3, <1>4, <1>5, <1>6 DEF ProcInv

LEMMA RelayNothingProc == ASSUME ProcInv, NEW k \in Slots, RelayNothing(k)  PROVE  ProcInv'
<1> USE DEF pipeVars, childVars, clientVars
<1>1. TypeOK'
  BY DEF RelayNothing, ProcInv, TypeOK
<1>2. NeverBlocked'
  BY SlotsAreNumbers DEF RelayNothing, ProcInv, NeverBlocked
<1>3. (SegmentsTrue /\ NoEcho)'
  BY DEF RelayNothing, ProcInv, SegmentsTrue, NoEcho
<1> QED BY <1>1, <1>2, <1>3 DEF ProcInv
-----------------------------------------------------------------------------
\* A place that was not given away yet stays as it is.
LEMMA NextUnused == ASSUME TypeOK, Unused, [Next]_vars  PROVE  Unused'
<1>1. user_count \in Nat /\ child \in [Slots -> {"none", "run", "fill", "ended"}]
      /\ peer \in [Slots -> {"none", "open", "left"}] /\ Slots \subseteq Nat
  BY ProcessAssumption, SlotsAreNumbers DEF TypeOK
<1>2. CASE Accept
  BY <1>1, <1>2 DEF Accept, Accepted, Unused
<1>3. CASE UNCHANGED <<user_count, child, peer>>
  BY <1>3 DEF Unused
<1>4. ASSUME NEW k \in Slots, k < user_count, user_count' = user_count,
             \A n \in Slots \ {k} : child'[n] = child[n] /\ peer'[n] = peer[n]
      PROVE  Unused'
  BY <1>1, <1>4 DEF Unused
<1>5. ASSUME NEW k \in Slots, Say(k) \/ Leave(k) \/ Child(k)
      PROVE  Unused'
  <2>1. k < user_count \/ UNCHANGED <<user_count, child, peer>>
    BY <1>1, <1>5
       DEF Say, Leave, Child, ChildWait, Clear, Fill, Received, FillNothing, Tell, ChildEnd,
           parentVars, childVars, clientVars, Unused
  <2>2. /\ user_count' = user_count
        /\ \A n \in Slots \ {k} : child'[n] = child[n] /\ peer'[n] = peer[n]
    BY <1>1, <1>5
       DEF Say, Leave, Child, ChildWait, Clear, Fill, Received, FillNothing, Tell, ChildEnd,
           parentVars, childVars, clientVars
  <2> QED BY <1>3, <1>4, <2>1, <2>2
<1>6. CASE Wait \/ ForkFails \/ Refuse \/ (\E k \in Slots : Relay(k) \/ RelayNothing(k))
           \/ Connect \/ UNCHANGED vars
  BY <1>3, <1>6 DEF Wait, ForkFails, Refuse, Relay, PassOn, RelayNothing, Connect, vars,
                    parentVars, childVars, clientVars
<1> QED BY <1>2, <1>5, <1>6 DEF Next, Parent, Client

LEMMA NextProc == ASSUME ProcInv, Unused, [Next]_vars  PROVE  ProcInv'
<1>1. CASE UNCHANGED vars
  BY <1>1 DEF vars, parentVars, pipeVars, childVars, clientVars, ProcInv, TypeOK, NeverBlocked,
              SegmentsTrue, NoEcho
<1> QED BY <1>1, ConnectProc, SayProc, LeaveProc, ChildProc, ReportProc, AcceptProc, RelayProc,
           RelayNothingProc DEF Next, Parent, Client

(***************************************************************************)
(* For any number of clients, however they speak and leave, and however    *)
(* edges are lost: no process of note 15 calls a blocking recv() that does *)
(* not return (main.cpp:45, 94-136, 290-340).                              *)
(***************************************************************************)
THEOREM ProcInvariance == Spec => [](ProcInv /\ Unused)
<1>1. Init => ProcInv /\ Unused
  BY InitProc DEF Init, Unused
<1>2. ProcInv /\ Unused /\ [Next]_vars => (ProcInv /\ Unused)'
  BY NextProc, NextUnused DEF ProcInv
<1> QED BY <1>1, <1>2, PTL DEF Spec

\* The types of the parent, its children and the segments are kept.
THEOREM TypeInvariance == Spec => []TypeOK
BY ProcInvariance, PTL DEF ProcInv

\* What was said of blocking is a part of ProcInv.
THEOREM NeverBlockedInvariance == Spec => []NeverBlocked
BY ProcInvariance, PTL DEF ProcInv
-----------------------------------------------------------------------------
\* What Tell does to heard: nothing, or one client hears something newer of another.
LEMMA TellHears == ASSUME ProcInv, NEW k \in Slots, Tell(k)
                   PROVE  heard' = heard \/ \E j \in Slots : Abstract!Hear(k, j)
<1> DEFINE j == Head(down[k])
<1>1. down[k] \in Seq(Slots) /\ down[k] # <<>>
  BY DEF Tell, ProcInv, TypeOK, NeverBlocked
<1>2. j \in Slots /\ j = down[k][1] /\ 1 \in 1..Len(down[k])
  BY <1>1
<1>3. j # k
  BY <1>2 DEF ProcInv, NoEcho
<1>4. /\ said' = said
      /\ heard' = IF peer[k] = "open" /\ share_mem[j] # Blank
                    THEN [heard EXCEPT ![k][j] = share_mem[j]] ELSE heard
  BY DEF Tell
<1> HIDE DEF j
<1>5. CASE share_mem[j] # Blank /\ heard' = [heard EXCEPT ![k][j] = share_mem[j]]
  <2>1. /\ share_mem[j] = taken[j] /\ taken[j] <= said[j] /\ taken[j] \in Nat /\ said[j] \in Nat
        /\ heard[k][j] \in Nat /\ heard[k][j] <= taken[j]
    BY <1>2, <1>5, SegmentOf
  <2>2. CASE heard[k][j] = share_mem[j]
    <3>1. heard \in [Slots -> [Slots -> Nat]]
      BY DEF ProcInv, TypeOK
    <3>2. [heard[k] EXCEPT ![j] = share_mem[j]] = heard[k]
      BY <1>2, <2>2, <3>1
    <3>3. heard' = [heard EXCEPT ![k] = [heard[k] EXCEPT ![j] = share_mem[j]]]
      BY <1>5
    <3> QED BY <3>1, <3>2, <3>3
  <2>3. CASE heard[k][j] # share_mem[j]
    <3>1. share_mem[j] \in (heard[k][j] + 1)..said[j]
      BY <2>1, <2>3
    <3> QED BY <1>2, <1>3, <1>4, <1>5, <3>1 DEF Abstract!Hear
  <2> QED BY <2>2, <2>3
<1> QED BY <1>4, <1>5

(***************************************************************************)
(* For any number of clients: through segments that are cleared and filled *)
(* without a lock, while others read them, and over indices that are lost  *)
(* or come late, each client hears only what another has said, and nothing *)
(* older than what he has heard (main.cpp:94-136, 329-347).                *)
(***************************************************************************)
THEOREM ImplementsAnnouncements == Spec => AnnouncementsSpec
<1>1. Init => Abstract!Init
  BY DEF Init, Abstract!Init
<1>2. ProcInv /\ [Next]_vars => [Abstract!Next]_<<said, heard>>
  <2> SUFFICES ASSUME ProcInv, [Next]_vars
               PROVE  Abstract!Next \/ UNCHANGED <<said, heard>>
    OBVIOUS
  <2>1. ASSUME NEW k \in Slots, Say(k) PROVE Abstract!Next
    BY <2>1 DEF Say, Abstract!Next, Abstract!Say
  <2>2. ASSUME NEW k \in Slots, Tell(k) PROVE Abstract!Next \/ UNCHANGED <<said, heard>>
    <3>1. said' = said
      BY <2>2 DEF Tell
    <3> QED BY <2>2, <3>1, TellHears DEF Abstract!Next
  <2>3. ASSUME NEW k \in Slots,
               \/ Leave(k) \/ ChildWait(k) \/ Clear(k) \/ Fill(k) \/ FillNothing(k) \/ ChildEnd(k)
               \/ Relay(k) \/ RelayNothing(k)
        PROVE  UNCHANGED <<said, heard>>
    BY <2>3 DEF Leave, ChildWait, Clear, Fill, Received, FillNothing, ChildEnd, Relay, PassOn,
                RelayNothing, clientVars
  <2>4. CASE Connect \/ Wait \/ Accept \/ ForkFails \/ Refuse \/ UNCHANGED vars
    BY <2>4 DEF Connect, Wait, Accept, Accepted, ForkFails, Refuse, vars, clientVars
  <2> QED BY <2>1, <2>2, <2>3, <2>4 DEF Next, Parent, Client, Child
<1> QED BY <1>1, <1>2, ProcInvariance, PTL DEF Spec, AnnouncementsSpec, Abstract!Spec
-----------------------------------------------------------------------------
(***************************************************************************)
(* SemaphoreExercise: Exclusion is not inductive: that P lets nobody in    *)
(* beside another depends on where the permit is.  While nobody was        *)
(* disturbed, it is either in val or in the adjustment of the one process  *)
(* inside.  PermitKept is a sum that every step keeps or raises.           *)
(***************************************************************************)
\* Whoever is inside has a turn of the loop left.
LoopShape == \A p \in Procs : Inside(p) => i[p] < LOOPS

\* An adjustment follows the half of the loop that its process is in, disturbed or not.
AdjShape == \A p \in Procs : adj[p] \in IF Inside(p) THEN {0, 1} ELSE {-1, 0}

\* Where the permit is.
PermitPlace == /\ val \in {0, 1}
               /\ \A p \in Procs : IF Inside(p) THEN Valid(p) /\ adj[p] = 1 /\ val = 0
                                                ELSE adj[p] = 0

Alone == \A p, q \in Procs : Inside(p) /\ Inside(q) => p = q

SemInv == SemTypeOK /\ LoopShape /\ AdjShape /\ (~disturbed => PermitPlace /\ Alone)

\* The initial state has the invariant.
LEMMA InitSem == SemInit => SemInv
<1> SUFFICES ASSUME SemInit PROVE SemInv
  OBVIOUS
<1>1. SemTypeOK
  <2>1. adj \in [Procs -> {-1, 0, 1}]
    BY DEF SemInit
  <2>2. /\ pc \in [Procs -> {"out", "set", "P", "print", "again", "leave", "remove"}]
        /\ first \in [Procs -> BOOLEAN]
    BY DEF SemInit
  <2>3. sem_id \in [Procs -> 0..created] /\ i \in [Procs -> 0..LOOPS]
    BY SemaphoreAssumption DEF SemInit
  <2>4. starts \in 0..MaxStarts /\ sem \in 0..created /\ val \in Nat /\ created \in Nat
    BY SemaphoreAssumption DEF SemInit
  <2>5. isSet \in BOOLEAN /\ disturbed \in BOOLEAN
    BY DEF SemInit
  <2> QED BY <2>1, <2>2, <2>3, <2>4, <2>5 DEF SemTypeOK
<1>2. \A p \in Procs : ~Inside(p) /\ adj[p] = 0
  BY DEF SemInit, Inside
<1>3. val = 0
  BY DEF SemInit
<1> QED BY <1>1, <1>2, <1>3 DEF SemInv, LoopShape, AdjShape, PermitPlace, Alone

\* A process that is started finds or makes the semaphore; it has no adjustment.
LEMMA StartSem == ASSUME SemInv, NEW p \in Procs, NEW arg \in BOOLEAN, Start(p, arg)
                  PROVE  SemInv'
<1> USE DEF SemInv, Inside
<1>1. SemTypeOK'
  BY SemaphoreAssumption DEF Start, Goes, SemTypeOK
<1>2. \A q \in Procs : Inside(q)' = Inside(q)
  BY DEF Start, Goes, SemTypeOK
<1>3. LoopShape' /\ AdjShape'
  BY <1>2 DEF Start, Goes, SemTypeOK, LoopShape, AdjShape
<1>4. ASSUME ~disturbed' PROVE PermitPlace' /\ Alone'
  <2>1. PermitPlace /\ Alone
    BY <1>4 DEF Start
  <2>2. val' \in {0, 1}
    BY <2>1 DEF Start, PermitPlace
  <2>3. ASSUME NEW q \in Procs, Inside(q) PROVE Valid(q)' /\ adj'[q] = 1 /\ val' = 0
    BY <2>1, <2>3 DEF Start, Goes, PermitPlace, Valid, SemTypeOK
  <2>4. ASSUME NEW q \in Procs, ~Inside(q) PROVE adj'[q] = 0
    BY <2>1, <2>4 DEF Start, PermitPlace
  <2> QED BY <1>2, <2>1, <2>2, <2>3, <2>4 DEF PermitPlace, Alone
<1> QED BY <1>1, <1>3, <1>4

\* Setting it clears all adjustments; undisturbed, nobody is inside.
LEMMA SetValSem == ASSUME SemInv, NEW p \in Procs, SetVal(p)  PROVE  SemInv'
<1> USE DEF SemInv, Inside
<1>1. SemTypeOK'
  BY DEF SetVal, Goes, SemTypeOK
<1>2. \A q \in Procs : Inside(q)' = Inside(q)
  BY DEF SetVal, Goes, SemTypeOK
<1>3. LoopShape' /\ AdjShape'
  BY <1>2 DEF SetVal, LoopShape, AdjShape
<1>4. ASSUME ~disturbed' PROVE PermitPlace' /\ Alone'
  <2>1. \A q \in Procs : ~Inside(q)
    BY <1>4 DEF SetVal, Others, Goes
  <2> QED BY <1>2, <2>1 DEF SetVal, PermitPlace, Alone
<1> QED BY <1>1, <1>3, <1>4

\* P goes through only where the permit is in val, so that nobody is inside.
LEMMA PSem == ASSUME SemInv, NEW p \in Procs, P(p)  PROVE  SemInv'
<1> USE DEF SemInv, Inside
<1>1. ~Inside(p) /\ Inside(p)' /\ \A q \in Procs \ {p} : Inside(q)' = Inside(q)
  BY DEF P, Goes, SemTypeOK
<1>2. /\ adj[p] \in {-1, 0} /\ adj'[p] = adj[p] + 1
      /\ \A q \in Procs \ {p} : adj'[q] = adj[q]
  BY <1>1 DEF P, SemTypeOK, AdjShape
<1>3. SemTypeOK'
  BY <1>2 DEF P, Goes, SemTypeOK
<1>4. LoopShape' /\ AdjShape'
  BY <1>1, <1>2 DEF P, LoopShape, AdjShape
<1>5. ASSUME ~disturbed' PROVE PermitPlace' /\ Alone'
  <2>1. PermitPlace /\ val = 1
    BY <1>5 DEF P, PermitPlace
  <2>2. \A q \in Procs : ~Inside(q) /\ adj[q] = 0
    BY <2>1 DEF PermitPlace
  <2>3. Valid(p)' /\ val' = 0
    BY <2>1 DEF P, Valid
  <2> QED BY <1>1, <1>2, <2>2, <2>3 DEF PermitPlace, Alone
<1> QED BY <1>3, <1>4, <1>5

\* V gives back what P took.
LEMMA VSem == ASSUME SemInv, NEW p \in Procs, V(p)  PROVE  SemInv'
<1> USE DEF SemInv, Inside
<1>1. Inside(p) /\ ~Inside(p)' /\ \A q \in Procs \ {p} : Inside(q)' = Inside(q)
  BY DEF V, Goes, SemTypeOK
<1>2. /\ adj[p] \in {0, 1} /\ adj'[p] = adj[p] - 1
      /\ \A q \in Procs \ {p} : adj'[q] = adj[q]
  BY <1>1 DEF V, SemTypeOK, AdjShape
<1>3. SemTypeOK'
  <2>1. i[p] < LOOPS
    BY <1>1 DEF LoopShape
  <2>2. i' \in [Procs -> 0..LOOPS]
    BY <2>1, SemaphoreAssumption DEF V, SemTypeOK
  <2> QED BY <1>2, <2>2 DEF V, Goes, SemTypeOK
<1>4. LoopShape' /\ AdjShape'
  BY <1>1, <1>2 DEF V, SemTypeOK, LoopShape, AdjShape
<1>5. ASSUME ~disturbed' PROVE PermitPlace' /\ Alone'
  <2>1. PermitPlace /\ Alone
    BY <1>5 DEF V
  <2>2. /\ val = 0 /\ adj[p] = 1
        /\ \A q \in Procs \ {p} : ~Inside(q) /\ adj[q] = 0
    BY <1>1, <2>1 DEF PermitPlace, Alone
  <2>3. val' = 1
    BY <2>2 DEF V
  <2> QED BY <1>1, <1>2, <2>2, <2>3 DEF PermitPlace, Alone
<1> QED BY <1>3, <1>4, <1>5

\* The end of a process adds its adjustment: the permit, if it was inside.
LEMMA EndsSem == ASSUME SemInv, NEW p \in Procs, Ends(p), disturbed' = disturbed
                 PROVE  SemInv'
<1> USE DEF SemInv, Inside
<1>1. ~Inside(p)' /\ \A q \in Procs \ {p} : Inside(q)' = Inside(q)
  BY DEF Ends, SemTypeOK
<1>2. adj'[p] = 0 /\ \A q \in Procs \ {p} : adj'[q] = adj[q]
  BY DEF Ends, SemTypeOK
<1>3. SemTypeOK'
  BY DEF Ends, SemTypeOK
<1>4. LoopShape' /\ AdjShape'
  BY <1>1, <1>2 DEF Ends, LoopShape, AdjShape
<1>5. ASSUME ~disturbed' PROVE PermitPlace' /\ Alone'
  <2>1. PermitPlace /\ Alone
    BY <1>5
  <2>2. CASE Inside(p)
    <3>1. /\ val = 0 /\ adj[p] = 1
          /\ \A q \in Procs \ {p} : ~Inside(q) /\ adj[q] = 0
      BY <2>1, <2>2 DEF PermitPlace, Alone
    <3>2. val' = 1
      BY <3>1 DEF Ends
    <3> QED BY <1>1, <1>2, <3>1, <3>2 DEF PermitPlace, Alone
  <2>3. CASE ~Inside(p)
    <3>1. val' = val
      BY <2>1, <2>3 DEF Ends, PermitPlace
    <3>2. \A q \in Procs : Valid(q)' = Valid(q)
      BY DEF Ends, Valid
    <3> QED BY <1>1, <1>2, <2>1, <2>3, <3>1, <3>2 DEF PermitPlace, Alone
  <2> QED BY <2>2, <2>3
<1> QED BY <1>3, <1>4, <1>5

\* Removing it: undisturbed, nobody is inside.
LEMMA RemoveSem == ASSUME SemInv, NEW p \in Procs, Remove(p)  PROVE  SemInv'
<1> USE DEF SemInv, Inside
<1>1. SemTypeOK'
  <2>1. sem' \in 0..created' /\ val' \in Nat /\ created' \in Nat
    BY DEF Remove, SemTypeOK
  <2>2. adj' \in [Procs -> {-1, 0, 1}]
    BY DEF Remove
  <2>3. disturbed' \in BOOLEAN /\ isSet' \in BOOLEAN
    BY DEF Remove
  <2> QED BY <2>1, <2>2, <2>3 DEF Remove, Goes, SemTypeOK
<1>2. \A q \in Procs : Inside(q)' = Inside(q)
  BY DEF Remove, Goes, SemTypeOK
<1>3. LoopShape' /\ AdjShape'
  BY <1>2 DEF Remove, LoopShape, AdjShape
<1>4. ASSUME ~disturbed' PROVE PermitPlace' /\ Alone'
  <2>1. \A q \in Procs : ~Inside(q)
    BY <1>4 DEF Remove, Others, Goes
  <2> QED BY <1>2, <2>1 DEF Remove, PermitPlace, Alone
<1> QED BY <1>1, <1>3, <1>4

\* A step that only moves p between places on the same side of the semaphore.
LEMMA MoveSem == ASSUME SemInv, NEW p \in Procs,
                        UNCHANGED <<kernel, sem_id, first, i, starts, isSet, disturbed>>,
                        pc' \in [Procs -> {"out", "set", "P", "print", "again", "leave", "remove"}],
                        \A q \in Procs : Inside(q)' = Inside(q)
                 PROVE  SemInv'
<1> USE DEF SemInv, kernel
<1>1. SemTypeOK'
  BY DEF SemTypeOK
<1>2. LoopShape' /\ AdjShape'
  BY DEF LoopShape, AdjShape
<1>3. ASSUME ~disturbed' PROVE PermitPlace' /\ Alone'
  BY <1>3 DEF PermitPlace, Alone, Valid
<1> QED BY <1>1, <1>2, <1>3

\* Printing stays inside, and the way to the removal outside.
LEMMA PrintSem == ASSUME SemInv, NEW p \in Procs, Letter(p)  PROVE  SemInv'
<1>1. /\ pc' \in [Procs -> {"out", "set", "P", "print", "again", "leave", "remove"}]
      /\ \A q \in Procs : Inside(q)' = Inside(q)
  BY DEF SemInv, SemTypeOK, Letter, Goes, Inside
<1> QED BY <1>1, MoveSem DEF Letter

LEMMA DoneSem == ASSUME SemInv, NEW p \in Procs, Done(p)  PROVE  SemInv'
<1>1. CASE ~first[p]
  BY <1>1, EndsSem DEF Done
<1>2. CASE first[p]
  <2>1. /\ pc' \in [Procs -> {"out", "set", "P", "print", "again", "leave", "remove"}]
        /\ \A q \in Procs : Inside(q)' = Inside(q)
    BY <1>2 DEF SemInv, SemTypeOK, Done, Goes, Inside
  <2> QED BY <1>2, <2>1, MoveSem DEF Done
<1> QED BY <1>1, <1>2

\* The invariant is inductive.
LEMMA NextSem == SemInv /\ [SemNext]_semVars => SemInv'
<1> SUFFICES ASSUME SemInv, [SemNext]_semVars PROVE SemInv'
  OBVIOUS
<1>1. CASE UNCHANGED semVars
  BY <1>1 DEF semVars, kernel, local, SemInv, SemTypeOK, LoopShape, AdjShape, PermitPlace, Alone, Inside, Valid
<1>2. ASSUME NEW p \in Procs, NEW arg \in BOOLEAN, Start(p, arg) PROVE SemInv'
  BY <1>2, StartSem
<1>3. ASSUME NEW p \in Procs, Run(p) PROVE SemInv'
  <2>1. CASE Fails(p)
    BY <2>1, EndsSem DEF Fails
  <2> QED BY <1>3, <2>1, SetValSem, PSem, PrintSem, VSem, DoneSem, RemoveSem DEF Run
<1>4. ASSUME NEW p \in Procs, Kill(p) PROVE SemInv'
  BY <1>4, EndsSem DEF Kill
<1> QED BY <1>1, <1>2, <1>3, <1>4 DEF SemNext

(***************************************************************************)
(* The types are kept, and one process at a time prints its pair as long   *)
(* as nobody sets or removes the semaphore over the head of one that       *)
(* prints, for any number of processes, starts and kills.                  *)
(***************************************************************************)
THEOREM SemInvariance == SemSpec => []SemInv
<1> QED BY InitSem, NextSem, PTL DEF SemSpec

\* The types and Exclusion, as parts of SemInv.
THEOREM ExclusionInvariance == SemSpec => [](SemTypeOK /\ Exclusion)
<1>1. SemInv => SemTypeOK /\ Exclusion
  BY DEF SemInv, Exclusion, Alone
<1> QED BY <1>1, SemInvariance, PTL
-----------------------------------------------------------------------------
\* One process counted apart from the others.
LEMMA CountApart ==
    ASSUME NEW S \in SUBSET Procs, NEW p \in Procs
    PROVE  /\ Cardinality(S \ {p}) \in Nat
           /\ Cardinality(S) = Cardinality(S \ {p}) + IF p \in S THEN 1 ELSE 0
<1>1. IsFiniteSet(S)
  BY SemaphoreAssumption, FS_Subset
<1>2. Cardinality(S) \in Nat
  BY <1>1, FS_CardinalityType
<1>3. CASE p \in S
  <2>1. Cardinality(S \ {p}) = Cardinality(S) - 1 /\ IsFiniteSet(S \ {p})
    BY <1>1, <1>3, FS_RemoveElement
  <2>2. Cardinality(S \ {p}) \in Nat
    BY <2>1, FS_CardinalityType
  <2> QED BY <1>2, <1>3, <2>1, <2>2
<1>4. CASE p \notin S
  <2>1. S \ {p} = S
    BY <1>4
  <2> QED BY <1>2, <1>4, <2>1
<1> QED BY <1>3, <1>4

Balance == Cardinality(Adjusted(1)) - Cardinality(Adjusted(-1))

\* What one adjustment changes by, the balance changes by.
LEMMA BalanceStep ==
    ASSUME SemTypeOK, SemTypeOK', NEW p \in Procs, \A q \in Procs \ {p} : adj'[q] = adj[q]
    PROVE  /\ Balance \in Int /\ Balance' \in Int
           /\ Balance' = Balance + adj'[p] - adj[p]
<1>1. adj[p] \in {-1, 0, 1} /\ adj'[p] \in {-1, 0, 1}
  BY DEF SemTypeOK
<1>2. ASSUME NEW by \in {-1, 1}
      PROVE  \E n \in Nat : /\ Cardinality(Adjusted(by)) = n + IF adj[p] = by THEN 1 ELSE 0
                            /\ Cardinality(Adjusted(by)') = n + IF adj'[p] = by THEN 1 ELSE 0
  <2> DEFINE S == Adjusted(by)
             T == Adjusted(by)'
  <2>1. S \in SUBSET Procs /\ T \in SUBSET Procs /\ T \ {p} = S \ {p}
    BY DEF Adjusted
  <2>2. /\ p \in S <=> adj[p] = by
        /\ p \in T <=> adj'[p] = by
    BY DEF Adjusted
  <2> HIDE DEF S, T
  <2>3. /\ Cardinality(S \ {p}) \in Nat
        /\ Cardinality(S) = Cardinality(S \ {p}) + IF p \in S THEN 1 ELSE 0
        /\ Cardinality(T) = Cardinality(T \ {p}) + IF p \in T THEN 1 ELSE 0
    BY <2>1, CountApart
  <2> QED BY <2>1, <2>2, <2>3 DEF S, T
<1>3. PICK n \in Nat : /\ Cardinality(Adjusted(1)) = n + IF adj[p] = 1 THEN 1 ELSE 0
                       /\ Cardinality(Adjusted(1)') = n + IF adj'[p] = 1 THEN 1 ELSE 0
  BY <1>2
<1>4. PICK m \in Nat : /\ Cardinality(Adjusted(-1)) = m + IF adj[p] = -1 THEN 1 ELSE 0
                       /\ Cardinality(Adjusted(-1)') = m + IF adj'[p] = -1 THEN 1 ELSE 0
  BY <1>2
<1> QED BY <1>1, <1>3, <1>4 DEF Balance

\* The value and the adjustments together.
PermitInv == SemInv /\ (isSet => val + Balance >= 1)

\* A step that leaves what is in the value and the adjustments together alone.
LEMMA SamePermit ==
    ASSUME PermitInv, SemInv', isSet' => isSet, NEW p \in Procs,
           \A q \in Procs \ {p} : adj'[q] = adj[q],
           val' + adj'[p] >= val + adj[p]
    PROVE  PermitInv'
<1>1. SemTypeOK /\ SemTypeOK'
  BY DEF PermitInv, SemInv
<1>2. /\ Balance \in Int /\ Balance' \in Int
      /\ Balance' = Balance + adj'[p] - adj[p]
  BY <1>1, BalanceStep
<1>3. val \in Int /\ val' \in Int /\ adj[p] \in Int /\ adj'[p] \in Int
  BY <1>1 DEF SemTypeOK
<1> QED BY <1>2, <1>3 DEF PermitInv

LEMMA EndsPermit ==
    ASSUME PermitInv, SemInv', NEW p \in Procs, Ends(p)  PROVE  PermitInv'
<1>1. SemTypeOK
  BY DEF PermitInv, SemInv
<1>2. adj'[p] = 0 /\ \A q \in Procs \ {p} : adj'[q] = adj[q]
  BY <1>1 DEF Ends, SemTypeOK
<1>3. val' + adj'[p] >= val + adj[p]
  BY <1>1, <1>2 DEF Ends, SemTypeOK
<1> QED BY <1>2, <1>3, SamePermit DEF Ends

LEMMA NextPermit == PermitInv /\ [SemNext]_semVars => PermitInv'
<1> SUFFICES ASSUME PermitInv, [SemNext]_semVars PROVE PermitInv'
  OBVIOUS
<1>1. SemInv' /\ SemTypeOK
  BY NextSem DEF PermitInv, SemInv
<1>2. CASE UNCHANGED semVars
  BY <1>1, <1>2 DEF semVars, kernel, PermitInv, Balance, Adjusted
<1>3. ASSUME NEW p \in Procs, NEW arg \in BOOLEAN, Start(p, arg) PROVE PermitInv'
  <2>1. CASE sem = 0
    BY <1>1, <1>3, <2>1 DEF Start, PermitInv
  <2>2. CASE sem # 0
    <3>1. val' = val /\ adj' = adj /\ isSet' = isSet
      BY <1>1, <1>3, <2>2 DEF Start, SemTypeOK
    <3> QED BY <1>1, <3>1 DEF PermitInv, Balance, Adjusted
  <2> QED BY <2>1, <2>2
<1>4. ASSUME NEW p \in Procs, SetVal(p) PROVE PermitInv'
  <2>1. Adjusted(1)' = {} /\ Adjusted(-1)' = {}
    BY <1>4 DEF SetVal, Adjusted
  <2>2. Balance' = 0
    BY <2>1, FS_EmptySet DEF Balance
  <2> QED BY <1>1, <1>4, <2>2 DEF SetVal, PermitInv
<1>5. ASSUME NEW p \in Procs, P(p) PROVE PermitInv'
  <2>1. /\ adj'[p] = adj[p] + 1 /\ \A q \in Procs \ {p} : adj'[q] = adj[q]
        /\ val' = val - 1 /\ isSet' = isSet
    BY <1>1, <1>5 DEF P, SemTypeOK
  <2>2. val' + adj'[p] >= val + adj[p]
    BY <1>1, <2>1 DEF SemTypeOK
  <2> QED BY <1>1, <2>1, <2>2, SamePermit
<1>6. ASSUME NEW p \in Procs, V(p) PROVE PermitInv'
  <2>1. /\ adj'[p] = adj[p] - 1 /\ \A q \in Procs \ {p} : adj'[q] = adj[q]
        /\ val' = val + 1 /\ isSet' = isSet
    BY <1>1, <1>6 DEF V, SemTypeOK
  <2>2. val' + adj'[p] >= val + adj[p]
    BY <1>1, <2>1 DEF SemTypeOK
  <2> QED BY <1>1, <2>1, <2>2, SamePermit
<1>7. ASSUME NEW p \in Procs, Letter(p) \/ (Done(p) /\ first[p]) PROVE PermitInv'
  <2>1. val' = val /\ adj' = adj /\ isSet' = isSet
    BY <1>7 DEF Letter, Done, kernel
  <2> QED BY <1>1, <2>1 DEF PermitInv, Balance, Adjusted
<1>8. ASSUME NEW p \in Procs, Fails(p) \/ (Done(p) /\ ~first[p]) \/ Kill(p)
      PROVE  PermitInv'
  BY <1>1, <1>8, EndsPermit DEF Fails, Done, Kill
<1>9. ASSUME NEW p \in Procs, Remove(p) PROVE PermitInv'
  BY <1>1, <1>9 DEF Remove, PermitInv
<1> QED BY <1>2, <1>3, <1>4, <1>5, <1>6, <1>7, <1>8, <1>9 DEF SemNext, Run

(***************************************************************************)
(* The permit that SETVAL made is never lost, whoever is killed where, and *)
(* whoever sets the semaphore again or removes it over the heads of the    *)
(* others: SEM_UNDO keeps in the adjustments what is not in the value      *)
(* (main.cpp:19-30, 46, 84), for any number of processes.                  *)
(***************************************************************************)
THEOREM PermitInvariance == SemSpec => []PermitKept
<1>1. SemInit => PermitInv
  BY InitSem DEF SemInit, PermitInv
<1>2. PermitInv => PermitKept
  <2> SUFFICES ASSUME PermitInv, isSet PROVE val + Cardinality(Adjusted(1)) > Cardinality(Adjusted(-1))
    BY DEF PermitKept
  <2>1. IsFiniteSet(Adjusted(1)) /\ IsFiniteSet(Adjusted(-1))
    BY SemaphoreAssumption, FS_Subset DEF Adjusted
  <2>2. Cardinality(Adjusted(1)) \in Nat /\ Cardinality(Adjusted(-1)) \in Nat
    BY <2>1, FS_CardinalityType
  <2> QED BY <2>2 DEF PermitInv, SemInv, SemTypeOK, Balance
<1> QED BY <1>1, <1>2, NextPermit, PTL DEF SemSpec
=============================================================================
