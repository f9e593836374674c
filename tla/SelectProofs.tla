---------------------------- MODULE SelectProofs ----------------------------
(***************************************************************************)
(* MembersExact of SelectServer, for any number of clients, names and      *)
(* requests on the way, and with it EveryoneHears: who is online once gets *)
(* one copy.  With a client waiting wherever the listening socket is       *)
(* readable, MembersExact is inductive.                                    *)
(***************************************************************************)
EXTENDS SelectServer, FiniteSetTheorems, TLAPS

SelectInv == MembersExact /\ (Listen \in testfds => backlog # <<>>)

Tables == <<users, online_users, joined>>

\* The initial state has the invariant.
LEMMA InitSelect == Init => SelectInv
BY DEF Init, SelectInv, MembersExact, TypeOK, OnlineOnce, NamesOnce

\* A step that leaves the tables alone.
LEMMA StillTables == ASSUME SelectInv, UNCHANGED Tables, TypeOK', (Listen \in testfds => backlog # <<>>)'
                     PROVE  SelectInv'
BY DEF SelectInv, MembersExact, OnlineOnce, NamesOnce, Tables

LEMMA ClientStep == ASSUME SelectInv, People  PROVE  SelectInv'
<1>1. TypeOK /\ (Listen \in testfds => backlog # <<>>)
  BY DEF SelectInv, MembersExact
<1>2. ASSUME NEW c \in Clients, Connect(c) PROVE SelectInv'
  <2>1. backlog' = Append(backlog, c) /\ backlog \in Seq(Clients)
    BY <1>1, <1>2 DEF Connect, TypeOK
  <2>2. backlog' \in Seq(Clients) /\ backlog' # <<>>
    BY <2>1
  <2>3. TypeOK'
    BY <1>1, <1>2, <2>2 DEF Connect, TypeOK, server
  <2> QED BY <1>2, <2>2, <2>3, StillTables DEF Connect, server, Tables
<1>3. ASSUME NEW c \in Clients, NEW r \in Requests, Ask(c, r) PROVE SelectInv'
  <2>1. rx' \in [Clients -> Seq(Requests)]
    BY <1>1, <1>3 DEF Ask, TypeOK
  <2>2. TypeOK' /\ (Listen \in testfds => backlog # <<>>)'
    BY <1>1, <1>3, <2>1 DEF Ask, TypeOK, server
  <2> QED BY <1>3, <2>2, StillTables DEF Ask, server, Tables
<1>4. ASSUME NEW c \in Clients, NEW how \in Ends, Leave(c, how) PROVE SelectInv'
  <2>1. TypeOK' /\ (Listen \in testfds => backlog # <<>>)'
    BY <1>1, <1>4, SelectAssumption DEF Leave, TypeOK, server
  <2> QED BY <1>4, <2>1, StillTables DEF Leave, server, Tables
<1> QED BY <1>2, <1>3, <1>4 DEF People

LEMMA SelectStep == ASSUME SelectInv, Select  PROVE  SelectInv'
<1>1. TypeOK
  BY DEF SelectInv, MembersExact
<1>2. Ready \subseteq Clients \cup {Listen} /\ (Listen \in Ready => backlog # <<>>)
  BY <1>1, SelectAssumption DEF Ready, TypeOK
<1>3. TypeOK' /\ (Listen \in testfds => backlog # <<>>)'
  BY <1>1, <1>2 DEF Select, TypeOK, network
<1> QED BY <1>3, StillTables DEF Select, Tables

LEMMA AcceptStep == ASSUME SelectInv, Accept  PROVE  SelectInv'
<1>1. TypeOK /\ backlog # <<>> /\ Listen \notin testfds'
  BY DEF SelectInv, MembersExact, Accept, Turn, First
<1>2. readfds' \in Seq(Clients) /\ backlog' \in Seq(Clients)
  BY <1>1 DEF Accept, TypeOK
<1>3. TypeOK'
  BY <1>1, <1>2 DEF Accept, Turn, TypeOK
<1> QED BY <1>1, <1>3, StillTables DEF Accept, Tables

\* What every answer to a request leaves right.
LEMMA ServeKinds ==
    ASSUME SelectInv, NEW c \in Clients, NEW op, Serve(c, op), NEW msgs, Send(msgs)
    PROVE  /\ readfds' \in Seq(Clients) /\ testfds' \subseteq Clients \cup {Listen}
           /\ backlog' \in Seq(Clients)
           /\ fate' \in {"running", "hung", "blocked", "killed", "ruined"}
           /\ peer' \in [Clients -> {"none", "open", "ended", "reset", "gone", "broken"}]
           /\ rx' \in [Clients -> Seq(Requests)]
           /\ (Listen \in testfds => backlog # <<>>)'
<1>1. TypeOK /\ (Listen \in testfds => backlog # <<>>)
  BY DEF SelectInv, MembersExact
<1>2. rx' \in [Clients -> Seq(Requests)]
  BY <1>1 DEF Serve, ReadAll, TypeOK
<1>3. /\ readfds' \in Seq(Clients) /\ backlog' \in Seq(Clients)
      /\ testfds' \subseteq Clients \cup {Listen}
      /\ (Listen \in testfds => backlog # <<>>)'
  BY <1>1 DEF Serve, ReadAll, Turn, TypeOK
<1>4. peer' \in [Clients -> {"none", "open", "ended", "reset", "gone", "broken"}]
  BY <1>1 DEF Send, TypeOK
<1>5. fate' \in {"running", "hung", "blocked", "killed", "ruined"}
  BY <1>1 DEF Send, TypeOK
<1> QED BY <1>2, <1>3, <1>4, <1>5

\* An answer that enters nothing into a table.
LEMMA AnswerOnly ==
    ASSUME SelectInv, NEW c \in Clients, NEW op, Serve(c, op), NEW msgs, Send(msgs),
           UNCHANGED Tables
    PROVE  SelectInv'
<1>1. TypeOK'
  BY ServeKinds DEF SelectInv, MembersExact, TypeOK, Tables
<1> QED BY <1>1, ServeKinds, StillTables

\* What the request is taken for, by what has come first.
LEMMA RequestKind == ASSUME TypeOK, NEW c \in Clients, rx[c] # <<>>
                     PROVE  /\ Request(c).op = "login" <=> Head(rx[c]).op = "login"
                            /\ Request(c).op = "say" <=> Head(rx[c]).op \in {"say", "start"}
                            /\ Request(c).op = "other" <=> Head(rx[c]).op = "other"
                            /\ Head(rx[c]).op \in {"login", "say", "other", "start", "rest", "long"}
<1>1. rx[c] \in Seq(Requests) /\ Head(rx[c]) \in Requests
  BY DEF TypeOK
<1>2. Head(rx[c]).op \in {"login"} \cup Texts
  BY <1>1 DEF Requests
<1>3. ASSUME Head(rx[c]).op = "login"
      PROVE  [Head(rx[c]) EXCEPT !.password = Merged].op = "login"
  <2>1. Head(rx[c]) \in [op : {"login"}, name : Names, password : Passwords]
    BY <1>1, <1>3, SelectAssumption DEF Requests
  <2> QED BY <2>1
<1> QED BY <1>2, <1>3, SelectAssumption DEF Request

\* What was typed makes an account.
LEMMA TypedAccount ==
    ASSUME TypeOK, NEW c \in Clients, rx[c] # <<>>, Request(c).op = "login",
           NEW t \in NameTails, NEW u \in PasswordTails
    PROVE  Typed(Request(c), t, u) \in Account
<1>1. Head(rx[c]) \in Requests
  BY DEF TypeOK
<1>2. Head(rx[c]) \in [op : {"login"}, name : Names, password : Passwords]
  BY <1>1, RequestKind, SelectAssumption DEF Requests
<1>3. Request(c).name \in Names /\ Request(c).password \in Passwords \cup {Merged}
  BY <1>2 DEF Request
<1> QED BY <1>3 DEF Typed, Account

LEMMA CreateStep ==
    ASSUME SelectInv, NEW c \in Clients, Serve(c, "login"),
           NEW typed \in Account, AccountCreate(c, typed)
    PROVE  SelectInv'
<1>1. users \in Seq(Account) /\ NamesOnce
  BY DEF SelectInv, MembersExact, TypeOK
<1>2. /\ users' = Append(users, typed)
      /\ \A k \in DOMAIN users : users[k].username # typed.username
      /\ UNCHANGED <<online_users, joined>>
  BY DEF AccountCreate, Matches
<1>3. /\ users' \in Seq(Account) /\ DOMAIN users' = 1..Len(users) + 1
      /\ DOMAIN users = 1..Len(users)
      /\ \A k \in DOMAIN users : users'[k] = users[k]
      /\ users'[Len(users) + 1] = typed
  BY <1>1, <1>2
<1>4. NamesOnce'
  BY <1>1, <1>2, <1>3 DEF NamesOnce
<1>5. TypeOK'
  BY <1>2, <1>3, ServeKinds DEF AccountCreate, SelectInv, MembersExact, TypeOK
<1>6. \A k \in DOMAIN online_users' : online_users'[k].account \in DOMAIN users'
  BY <1>2, <1>3 DEF SelectInv, MembersExact
<1> QED BY <1>2, <1>4, <1>5, <1>6, ServeKinds
        DEF AccountCreate, SelectInv, MembersExact, OnlineOnce

LEMMA LoginStep ==
    ASSUME SelectInv, NEW c \in Clients, Serve(c, "login"),
           NEW typed \in Account, LoginSuccess(c, typed)
    PROVE  SelectInv'
<1> DEFINE entry == [sockfd |-> c, account |-> AccountOf(typed)]
           row == [sockfd : Clients, account : Nat \ {0}]
<1>1. /\ users \in Seq(Account) /\ online_users \in Seq(row)
      /\ OnlineOnce /\ joined \in SUBSET Clients
      /\ {online_users[k].sockfd : k \in DOMAIN online_users} = joined
      /\ \A k \in DOMAIN online_users : online_users[k].account \in DOMAIN users
  BY DEF SelectInv, MembersExact, TypeOK
<1>2. /\ online_users' = Append(online_users, entry)
      /\ \A k \in DOMAIN online_users : online_users[k].sockfd # c
      /\ joined' = joined \cup {c} /\ users' = users
      /\ Matches(typed) # {}
  BY DEF LoginSuccess, IsOnline
<1>3. AccountOf(typed) \in DOMAIN users
  <2>1. Matches(typed) \subseteq 1..Len(users)
    BY <1>1 DEF Matches
  <2>2. \A k, m \in Matches(typed) : k <= m
    BY <2>1 DEF Matches, SelectInv, MembersExact, NamesOnce
  <2> QED BY <1>1, <1>2, <2>1, <2>2 DEF AccountOf
<1>4. entry \in row
  BY <1>1, <1>3
<1> HIDE DEF row
<1>5. /\ online_users' \in Seq(row) /\ DOMAIN online_users' = 1..Len(online_users) + 1
      /\ DOMAIN online_users = 1..Len(online_users)
      /\ \A k \in DOMAIN online_users : online_users'[k] = online_users[k]
      /\ online_users'[Len(online_users) + 1] = entry
  BY <1>1, <1>2, <1>4
<1>6. OnlineOnce'
  BY <1>1, <1>2, <1>5 DEF OnlineOnce
<1>7. {online_users'[k].sockfd : k \in DOMAIN online_users'} = joined'
  BY <1>1, <1>2, <1>5
<1>8. \A k \in DOMAIN online_users' : online_users'[k].account \in DOMAIN users'
  BY <1>1, <1>2, <1>3, <1>5
<1>9. TypeOK'
  BY <1>1, <1>2, <1>5, ServeKinds DEF LoginSuccess, TypeOK, row
<1> QED BY <1>2, <1>6, <1>7, <1>8, <1>9, ServeKinds
        DEF LoginSuccess, SelectInv, MembersExact, NamesOnce

LEMMA ServeStep == ASSUME SelectInv, NEW c \in Clients, AccountProcess(c) \/ DistributeMessage(c)
                   PROVE  SelectInv'
<1>1. CASE AccountProcess(c)
  <2>1. Serve(c, "login") /\ rx[c] # <<>> /\ Request(c).op = "login" /\ TypeOK
    BY <1>1 DEF AccountProcess, Serve, ReadAll, SelectInv, MembersExact
  <2>2. PICK t \in NameTails, u \in PasswordTails :
          LET typed == Typed(Request(c), t, u)
          IN  \/ AccountCreate(c, typed) \/ PasswordWrong(c, typed)
              \/ LoginAgain(c, typed)    \/ LoginSuccess(c, typed)
    BY <1>1 DEF AccountProcess
  <2> DEFINE typed == Typed(Request(c), t, u)
  <2>3. typed \in Account
    BY <2>1, TypedAccount
  <2> HIDE DEF typed
  <2>4. CASE AccountCreate(c, typed)
    BY <2>1, <2>3, <2>4, CreateStep
  <2>5. CASE PasswordWrong(c, typed)
    BY <2>1, <2>5, AnswerOnly DEF PasswordWrong, Tables
  <2>6. CASE LoginAgain(c, typed)
    BY <2>1, <2>6, AnswerOnly DEF LoginAgain, Tables
  <2>7. CASE LoginSuccess(c, typed)
    BY <2>1, <2>3, <2>7, LoginStep
  <2> QED BY <2>2, <2>4, <2>5, <2>6, <2>7 DEF typed
<1>2. CASE DistributeMessage(c)
  BY <1>2, AnswerOnly DEF DistributeMessage, Tables
<1> QED BY <1>1, <1>2

LEMMA NextSelect == SelectInv /\ [Next]_vars => SelectInv'
<1> SUFFICES ASSUME SelectInv, [Next]_vars PROVE SelectInv'
  OBVIOUS
<1>1. ASSUME NEW c \in Clients, ServeLeft(c) PROVE SelectInv'
  <2>1. TypeOK' /\ (Listen \in testfds => backlog # <<>>)'
    BY <1>1 DEF ServeLeft, Turn, SelectInv, MembersExact, TypeOK, network
  <2> QED BY <1>1, <2>1, StillTables DEF ServeLeft, Tables
<1>3. ASSUME NEW c \in Clients, Ignore(c) PROVE SelectInv'
  <2>1. TypeOK /\ (Listen \in testfds => backlog # <<>>)
    BY DEF SelectInv, MembersExact
  <2>2. rx' \in [Clients -> Seq(Requests)]
    BY <1>3, <2>1 DEF Ignore, ReadAll, TypeOK
  <2>3. TypeOK' /\ (Listen \in testfds => backlog # <<>>)'
    BY <1>3, <2>1, <2>2 DEF Ignore, ReadAll, Turn, TypeOK
  <2> QED BY <1>3, <2>3, StillTables DEF Ignore, Tables
<1>4. CASE DescriptorsGone
  <2>1. TypeOK' /\ (Listen \in testfds => backlog # <<>>)'
    BY <1>4 DEF DescriptorsGone, Turn, SelectInv, MembersExact, TypeOK, network
  <2> QED BY <1>4, <2>1, StillTables DEF DescriptorsGone, Tables
<1>2. CASE UNCHANGED vars
  <2>1. TypeOK' /\ (Listen \in testfds => backlog # <<>>)'
    BY <1>2 DEF vars, server, network, SelectInv, MembersExact, TypeOK
  <2> QED BY <1>2, <2>1, StillTables DEF vars, server, Tables
<1> QED BY <1>1, <1>2, <1>3, <1>4, ClientStep, SelectStep, AcceptStep, ServeStep
        DEF Next, Server

(***************************************************************************)
(* For any number of clients and accounts, whatever lies behind the typed  *)
(* strings on the stack, however requests are cut or run together, and     *)
(* whoever leaves or does not read, the tables users and                   *)
(* online_users agree with what people were told (accountProcess,          *)
(* accountLogin, accountCreate).                                           *)
(***************************************************************************)
THEOREM MembersInvariance == Spec => []MembersExact
<1>1. SelectInv => MembersExact
  BY DEF SelectInv
<1> QED BY <1>1, InitSelect, NextSelect, PTL DEF Spec
-----------------------------------------------------------------------------
\* Who is online is so in one place, and gets one copy.
LEMMA OneCopy == ASSUME MembersExact, NEW c, NEW d, c # d
                 PROVE  Copies(c, d) = IF d \in joined THEN 1 ELSE 0
<1> DEFINE places == {k \in DOMAIN online_users : online_users[k].sockfd = d /\ d # c}
<1>1. CASE d \in joined
  <2>1. PICK k \in DOMAIN online_users : online_users[k].sockfd = d
    BY <1>1 DEF MembersExact
  <2>2. places = {k}
    BY <2>1 DEF MembersExact, OnlineOnce
  <2> QED BY <1>1, <2>2, FS_Singleton DEF Copies
<1>2. CASE d \notin joined
  <2>1. places = {}
    BY <1>2 DEF MembersExact
  <2> QED BY <1>2, <2>1, FS_EmptySet DEF Copies
<1> QED BY <1>1, <1>2

\* Only what the server does with c empties what has come from c.
LEMMA ReadsIsTurn == ASSUME SelectInv, [Next]_vars, NEW c \in Clients, Reads(c)
                     PROVE  Ignore(c) \/ AccountProcess(c) \/ DistributeMessage(c)
<1>1. rx \in [Clients -> Seq(Requests)] /\ rx[c] # <<>> /\ rx'[c] = <<>>
  BY DEF SelectInv, MembersExact, TypeOK, Reads
<1>2. ASSUME NEW d \in Clients, ReadAll(d) PROVE d = c
  BY <1>1, <1>2 DEF ReadAll
<1>3. ASSUME NEW d \in Clients, NEW r, Ask(d, r) PROVE FALSE
  BY <1>1, <1>3 DEF Ask
<1>4. ASSUME rx' = rx PROVE FALSE
  BY <1>1, <1>4
<1>5. ASSUME NEW d \in Clients, ServeLeft(d) PROVE rx' = rx
  BY <1>5 DEF ServeLeft, network
<1>6. Select \/ Accept \/ DescriptorsGone \/ UNCHANGED vars => rx' = rx
  BY DEF Select, Accept, DescriptorsGone, vars, network
<1>7. ASSUME NEW d \in Clients, Connect(d) \/ (\E how \in Ends : Leave(d, how)) PROVE rx' = rx
  BY <1>7 DEF Connect, Leave
<1>8. ASSUME NEW d \in Clients, Ignore(d) \/ AccountProcess(d) \/ DistributeMessage(d) PROVE d = c
  BY <1>2, <1>8 DEF Ignore, AccountProcess, DistributeMessage, Serve
<1> QED BY <1>3, <1>4, <1>5, <1>6, <1>7, <1>8 DEF Next, Server, People

(***************************************************************************)
(* For any number of clients, whatever they send and however it is cut or  *)
(* runs together: what the server reads as a text reaches everybody who is *)
(* logged in once, and nobody else; what it does not take for a request    *)
(* reaches nobody (distributeMessage, processMessage).                     *)
(***************************************************************************)
THEOREM TextsHeard == Spec => EveryoneHears
<1> DEFINE Heard == \A c \in Clients : Reads(c) =>
              /\ IsText(rx[c]) => sent' = Members(c)
              /\ ~IsText(rx[c]) => \A d \in Clients \ {c} : sent'[d] = <<>>
              /\ sent'[c] = <<>> <=> ~IsText(rx[c]) /\ ~IsLogin(rx[c])
<1>1. ASSUME SelectInv, [Next]_vars PROVE Heard
  <2> SUFFICES ASSUME NEW c \in Clients, Reads(c)
               PROVE  /\ IsText(rx[c]) => sent' = Members(c)
                      /\ ~IsText(rx[c]) => \A d \in Clients \ {c} : sent'[d] = <<>>
                      /\ sent'[c] = <<>> <=> ~IsText(rx[c]) /\ ~IsLogin(rx[c])
    OBVIOUS
  <2>0. TypeOK /\ MembersExact /\ rx[c] # <<>>
    BY <1>1 DEF SelectInv, MembersExact, Reads
  <2>1. CASE DistributeMessage(c)
    <3>1. IsText(rx[c])
      BY <2>0, <2>1, RequestKind DEF DistributeMessage, Serve, IsText
    <3>2. sent' = [d \in Clients |-> [k \in 1..Copies(c, d) |-> "text"]
                                     \o (IF d = c THEN <<"ok">> ELSE <<>>)]
      BY <2>1 DEF DistributeMessage, Send
    <3>3. Copies(c, c) = 0
      BY FS_EmptySet DEF Copies
    <3>4. [k \in 1..1 |-> "text"] \o <<>> = <<"text">>
      OBVIOUS
    <3>5. [k \in 1..0 |-> "text"] \o <<>> = <<>>
      OBVIOUS
    <3>6. [k \in 1..0 |-> "text"] \o <<"ok">> = <<"ok">>
      OBVIOUS
    <3>7. ASSUME NEW d \in Clients
          PROVE  ([k \in 1..Copies(c, d) |-> "text"] \o (IF d = c THEN <<"ok">> ELSE <<>>))
                   = IF d = c THEN <<"ok">> ELSE IF d \in joined THEN <<"text">> ELSE <<>>
      <4>1. CASE d = c
        BY <3>3, <3>6, <4>1
      <4>2. CASE d # c
        <5>1. Copies(c, d) = IF d \in joined THEN 1 ELSE 0
          BY <2>0, <4>2, OneCopy
        <5> QED BY <3>4, <3>5, <4>2, <5>1
      <4> QED BY <4>1, <4>2
    <3>8. sent' = Members(c)
      BY <3>2, <3>7 DEF Members
    <3>9. sent'[c] = <<"ok">>
      BY <3>8 DEF Members
    <3> QED BY <3>1, <3>8, <3>9
  <2>2. CASE AccountProcess(c)
    <3>1. IsLogin(rx[c]) /\ ~IsText(rx[c])
      BY <2>0, <2>2, RequestKind DEF AccountProcess, Serve, IsText, IsLogin
    <3>2. \E msg : sent' = Only(c, msg)
      BY <2>2 DEF AccountProcess, AccountCreate, PasswordWrong, LoginAgain, LoginSuccess, Send
    <3>3. PICK msg : sent' = [d \in Clients |-> IF d = c THEN <<msg>> ELSE <<>>]
      BY <3>2 DEF Only
    <3>4. sent'[c] # <<>> /\ \A d \in Clients \ {c} : sent'[d] = <<>>
      BY <3>3
    <3> QED BY <3>1, <3>4
  <2>3. CASE Ignore(c)
    <3>1. ~IsText(rx[c]) /\ ~IsLogin(rx[c])
      BY <2>0, <2>3, RequestKind DEF Ignore, IsText, IsLogin
    <3>2. \A d \in Clients : sent'[d] = <<>>
      BY <2>3 DEF Ignore, Quiet
    <3> QED BY <3>1, <3>2
  <2> QED BY <1>1, <2>1, <2>2, <2>3, ReadsIsTurn
<1>2. Spec => []SelectInv
  BY InitSelect, NextSelect, PTL DEF Spec
<1>3. Spec => [][Heard]_vars
  BY <1>1, <1>2, PTL DEF Spec
<1> QED BY <1>3 DEF EveryoneHears
=============================================================================
