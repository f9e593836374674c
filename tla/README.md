# TLA+ models of the servers in cpp_internet_programming

The repository collects network programs in C and C++: a small socket library
(`src/lib`), sample applications (`src/app`) and, as its largest part, seventeen
numbered notes on high-performance servers
(`src/docs/Notes-HighPerformanceLinuxServerProgramming-master/`, called *note n*
below).  The notes with state worth verifying are servers: event loops on epoll
or poll, threads, forked processes, timers and signals, a table of clients that
changes while it is scanned.  This directory holds TLA+ models of them,
TLC configurations, and proofs for TLAPS.

## 1. Inventory

| Component | State | Operations | What is hard | Correct means | Modelled |
|---|---|---|---|---|---|
| HTTP server, note 17: `main.cpp`, `httpconnection.*` | `users[]` (buffers, indices, `sockfd_`), `user_count_`, epoll interest | accept, Read, Write, Process, CloseConn, Init | connections without a lock, handed between event loop and workers by EPOLLONESHOT; keep-alive reuses buffers; resets at any time | one holder per connection, replies belong to requests, exact counter, no lost connection | `HttpServer`, `ConnLifecycle` |
| HTTP thread pool, note 17: `threadpool.*`, `locker.h` | queue, semaphore, mutex | Append, Run | permit taken before the mutex; push without the mutex | permits match tasks, nobody pops from an empty queue | `ThreadPool` |
| HTTP request parser, note 17 | `read_buff_`, `checked_idx_`, `start_line_`, states | Read, ProcessRead, ParseLine, Parse* | a request may be cut anywhere; the length of a body is an `int` | the answer depends on bytes, not on cuts; no body is answered short | `RequestParser`, `Parsers` |
| HTTP parser, note 9 | the same, one connection | recv, parse_line, parse_content | the same | the same; agreement with note 17 | `ReadHttp`, `Parsers` |
| Timer list, note 12: `lst_timer.cpp` | doubly linked list, head, tail | add, adjust, delete, tick | pointer updates | sorted, doubly linked, exact | `TimerList` |
| Idle-connection server, note 12: `main.cpp` | users, timers, signal pipe, alarm | accept, receive, hang up, sweep, signals | edge-triggered reports; alarm, data and hang-up in one batch | exactly the overdue connections are closed, the alarm chain never breaks | `IdleServer`, `IdleConnections` |
| Chat room, note 11 | dense `fds[]`, `users[fd]` with pointers into each other's buffers | accept, read, write, remove | entries move inside the loop; buffers are shared, not copied | exact table; nobody hears what was never said; leavers go | `ChatServer`, `ChatRoom` |
| Guessing game, note 13: server and client | `fds[]`, desks, `desk_sub`, client state machine | join, guess, win, leave | client and server keep a state each; players leave in the middle; people type when they like, and what they like | the table is exact, seats and users agree; server and clients agree where people wait for answers; a turn is not lost | `GuessGame` |
| Process chat, note 15: `main.cpp` | `users[]`, socket pairs, shared segments | accept + fork, relay, receive, tell | processes share memory without locks; edges | nobody hears old, own or foreign words; no `recv()` blocks (a `send()` may) | `ProcessChat`, `Announcements` |
| Snake, note 7 | linked-list snake, direction, timer | keys, SIGALRM handler | handler interrupts two-store updates | the screen shows only snake; a snake crosses itself only unseen, and one of one cell bites itself only by a torn direction; the game ends | `Snake` |
| Account chat on select, note 8 | `users[]`, `online_users[]`, descriptor set | log in, broadcast, leave | one read for whatever has come, whole or not; a blocking read after a failed splice, blocking sends, pipes never closed; strings without an end | tables agree with what people were told; who is online hears once what is read as a text; everybody is read until the server stops | `SelectServer` |
| Semaphore exercise, note 14 | one System V semaphore with its undo adjustments | P, V, set, remove | a restart or a kill between P and V | mutual exclusion, no lost permit, no starved set semaphore | `SemaphoreExercise` |
| epoll/select listings, note 10 | an event loop | echo | LT against ET | all data is read | no |
| Locker, note 16 | semaphore, mutex, condition | wrappers | — | same text as note 17's `locker.h`; `Cond` has no caller | no |
| Notes 1–6, socket library, `src/app` samples | a descriptor or two | straight line, one system call each | — | — | no (pure I/O) |

The servers do not interact with one another; inside one, the parts interact
through calls (`main` → `HttpConnection`), through a queue (event loop →
workers), through epoll (workers → event loop), through signals and pipes
(note 12), and through shared memory and socket pairs (note 15).  The kernel's
part (descriptors, readiness, edges, what a reset discards) and the clients are
modelled from how the programs use them and are marked external in
`PROJECT.json`, which also lists the hazards of each program at its line and the
properties that cover them.

## 2. Modules

### HTTP server (note 17)

* **`ThreadPool`**: `Append` in three steps (call, push, post) and `Run` in
  three (`Wait` for a permit, `Lock`, `Pop`), then `Finish`.  `Append` does not
  take the mutex; when its push meets a worker that is inside the queue the
  behaviour is undefined and the model stops (`Race`, `ruined`).
* **`HttpServer`** EXTENDS `ThreadPool`: `main`'s loop is `EpollWait`, one action
  per branch (`AcceptConn`, `AcceptNone`, `HandleHup`, `HandleRead`,
  `HandleReadFails`, `HandleWrite`) and `EndOfBatch`; `Write` is a loop of its
  own (`WriteSome`, `WriteFull`, `WriteFails`, `WriteLinger`, `WriteClose`),
  because clients act between two `send()` calls.  `Process` is a worker's whole
  call: between its first and last line nobody else may touch the connection —
  which is what `OneHolder` states.  Bytes are segments of a request (`part`,
  `last`, `stuck`) and units of reply; `Codes` is what the parser may return.
  `Init()` clears `full_file_` (200 bytes) with 2048 bytes and so writes into
  the next element of `users[]`; if that one is open the model stops (`ruined`).
  The descent of `write_idx_` in `Write` after an error is followed to
  `-Descent`.  `AddHeaders` (`httpconnection.cpp`) runs off its end without a
  `return`, which is undefined although nobody uses its result; a build without
  optimisation, in which it returns, is assumed.
* **`ConnLifecycle`** is the abstract specification: a connection is with the
  kernel, the loop, the queue or a worker, moves only along the allowed edges,
  and what is queued is taken and served.

### Idle connections (note 12)

* **`TimerList`**: `sort_timer_lst`'s functions as operators on a record of
  pointers, assignment by assignment.  Following a null or freed pointer gives
  `"ruined"`, a loop that does not end `"hung"`.  Two defects are part of it:
  inserting a timer whose expiry equals the head's follows `head->prev`
  (ruined), and a middle node moved to the tail keeps its `next` (a cycle).
  The latter needs three timers.
* **`IdleServer`**: the epoll loop, with the signal socket pair, the alarm, and
  edges that `epoll_wait` has not reported yet.  Time is relative (`expire`
  counts seconds left).  `recv()` is called only on a reported descriptor, so
  EAGAIN does not occur and has no action.
* **`IdleConnections`** is the promise: one that is received from may stay
  `Idle` seconds, and a sweep closes all that are overdue and no other.

### Chat room (note 11)

* **`ChatServer`**: `Poll` fills `revents`, one action per branch in the code's
  order (POLLERR, POLLRDHUP, POLLIN, POLLOUT); `Remove` moves the last entry
  into the leaver's place and copies `users[last]`, pointer included.
  `send()` always returns in the model (section 5 says why).
* **`ChatRoom`** is the promise: a member hears the latest words said to it, and
  nothing that was never said, except of a speaker who left.

### Guessing game (note 13)

* **`GuessGame`** composes `server.cpp` and `client.cpp` by two message queues
  per client.  People type whenever they like (`Type`): a line that is typed
  before the answer to the last one is read counts in the history variable
  `haste`, on which only the guards of the model (`MaxHaste`) and two properties
  depend.  `Skip` is the client's `&`, which sets its status one further and
  sends nothing.  A desk is any number below `MAX_DESK`; the number `MAX_DESK`
  itself stands for every character that is no desk and with which
  `server.cpp:273` leaves `desks[]` (`AddNowhere`).  The other accesses outside
  of arrays (`users[-1]`, `desks[-1]`, the third seat) and SIGPIPE set `ruined`
  as well.  The search of `AddToDesk` for somebody who sits already goes through
  the desk with the number of the message (`server.cpp:277`), so that he gets a
  second seat (`Reseated`).  `MsgProcessCenter` looks at the first of the
  messages that one `recv()` took; the others are forgotten (`Read`).

### Parsers (notes 9 and 17)

* **`RequestParser`** and **`ReadHttp`** translate the two incremental parsers;
  a step is one turn of the loop.  A byte is a symbol: CR, LF, the zeros the
  parser writes over them, a request line, a header that matters, anything
  else.  Indices start at 1.  A Content-Length is any integer, and becomes an
  `int` of `2 * Half` values as `atol` into `content_length_` makes it
  (`ToInt`).  With a negative one `ParseContent` may write in front of the text,
  and with a large one its sum overflows (`ruined`).
* **`Parsers`** composes them: the same message arrives at both in the same
  pieces.  Its `Answer` is a reference definition of what the bytes mean,
  written without any state.

### Process chat (note 15)

* **`ProcessChat`**: the parent's loop and `RunChild` per client.  `Clear` and
  `Fill` are the `memset` and the `recv` into the shared segment, between which
  siblings may read it.  An edge is remembered until `epoll_wait` reports it,
  and one `recv` is made per report.  What a client says comes in
  pieces, of which a `recv` of `BUFFER_SIZE - 1` bytes takes one or more; the
  rest stays in the socket without an edge.  `SetNonblock` passes the flags as the
  command, so descriptors are blocking.  `sig_pipe` is never created and
  `pid == waitpid()` would not reap: no child is ever removed from `users[]`,
  so `user_count` only grows.  A client speaks only once it is accepted.
* **`Announcements`** is the promise: members hear others, never themselves,
  nothing that was not said and nothing older than what they have heard.

  `fork()` may fail (`ForkFails`): the place stays free.

### Snake (note 7)

* **`Snake`**: `main()` (`InstallHandler`, `PressArrow`, `PressOther`, `Store`,
  `Rearm`) and the SIGALRM handler (`HitWall`, `BiteItself`, `Eat`, `Creep`,
  `ShowInformation`, `WalkFreed`), which runs between any two steps of `main()`
  and is never interrupted by it.  `getOrder` stores `dir.cx` and `dir.cy` one
  by one, in whichever order the compiler likes, so the handler may meet a
  direction that nobody asked for.  `body` is the linked list, `stars` what the
  screen shows of it; the game looks for a bite on the screen.  A SIGALRM before
  `signal()` ends the process (`KilledByAlarm`).  `over()` frees the list and
  arms the timer once more, and reading the freed list sets `ruined`.  Which of
  the ticks moves the snake (`tTime`, `level`) is open.

### Semaphore exercise (note 14)

* **`SemaphoreExercise`**: one process per element of `Procs`, started with or
  without an argument any number of times up to `MaxStarts`, killed anywhere.
  The kernel's part is the value, one SEM_UNDO adjustment per process, which the
  end of the process gives back, and SETVAL, which clears all adjustments.  The
  two letters of a pair are two steps.  `disturbed` remembers that the semaphore
  was set or removed while another process was inside: `main.cpp` does so by
  design, whenever a second process is started with an argument.

### Chat with accounts (note 8)

* **`SelectServer`**: `Select` fills `testfds`, then the descriptors are served
  in the order of their numbers.  The pipe takes all that has come, and what
  fits `BUFFER_SIZE - 1` bytes of it is one request: `processMessage` heeds it if
  it begins and ends like one (`Heeded`), and otherwise drops it without a word
  (`Ignore`) — a text that is cut (`"start"`, `"rest"`), too long (`"long"`), or
  followed by half of the next, and a well-formed request with another number
  (`"other"`).  Two whole ones are one, and what is behind a log-in belongs to its
  password (`Merged`).  Names and passwords lie on the stack and are not ended by
  a zero, so what is compared is what was typed and a *tail* of whatever lies
  behind (`NameTails`, `PasswordTails`).  There are four ways for the only thread
  to stop, kept in `fate`: `"hung"` in the `read()` behind a `splice()` that put
  nothing into the pipe (`ServeLeft`, whoever it is that leaves); `"blocked"` in
  a `send()` to somebody who does not read; `"killed"` by the SIGPIPE of the
  second `send()` after a reset; `"ruined"` when `pipe()` or `accept()` fails,
  which it will: each request leaves two descriptors open (`DescriptorsGone`,
  possible at any time, since they are not counted).

`MC*` modules instantiate each composition for TLC (symmetry, or constants that
a `.cfg` cannot spell).  Operators whose comment says *defective variant*,
*mutant* or *the code as a slip could have it* are slips of the code that a
property must catch; no specification uses them.

## 3. Runs

| Run | Instance | States | Shows |
|---|---|---|---|
| `http_safety` | 2 connections, 2 workers, read buffer of 3 segments, 1 unread segment | 2.1 M | `OneHolder`, `PermitPerTask`, `UserCountExact`, `ReplyMatchesRequest`, `OnlyLoopCloses` |
| `http_live` | 2 connections, 2 workers, whole requests | 185 k | every reported event is handled (`EventHandled`); `LifecycleSpec` |
| `http_queue_race` | as above | — | violation: a push meets a worker that holds the queue's mutex |
| `idle_two` | 2 timers, TIMESLOT 1 | 69 k | list exact and sorted, alarm chain intact, `IdleSpec`, `Stops` |
| `idle_three` | 3 timers | — | violation: the list becomes a cycle |
| `chat` | 3 clients, 2 places | 215 k | table exact under removal in the loop, leavers removed, words served, `RoomSpec` |
| `guess` | 3 clients, 1 desk, one line typed too early, all ways to leave | 937 k | `TableExact`, `SeatsKept`, `GameAgreed`, `TurnHandedOn` |
| `snake` | a field of 3 × 3 cells, won with 4 cells | 653 k | `ScreenTrue`, `CrossesUnseen`, `OneCellMoves`, and the timer stops (`Unsteered`) |
| `semaphore` | 3 processes, 2 pairs each, 4 starts | 327 k | `Exclusion`, `PermitKept`, `WaitersServed` |
| `select` | 2 clients, 1 name, texts whole, cut and too long, 2 unread requests | 1.06 M | `MembersExact`, `EveryoneHears`, `Answered` |
| `parsers` | a grammar of good and broken messages, cut in every way; an `int` of 6 bits | 59 k | `SplitFree`, `BodyComplete`, `AgreesWithNote9`, `CRNeverPassed`, `Settles` |
| `process_chat` | 2 clients, 2 waiting; one says two texts or one of two pieces, the other one | 461 k | `AnnouncementsSpec`, `LastWordsHeard`, `NeverBlocked` |

**Bounds.** Two connections and two workers let every pair of threads meet: a
worker against the loop, two workers at the queue, two events in one batch. Two
descriptors that are neighbours are the worst case for `Init()`; the theorems
below need no bound. One unread segment per connection (`MaxRx`) and one waiting
client (`MaxBacklog`) suffice because what waits there is refilled at any
moment. A read buffer of three segments fits an unfinished request, its end and
one more, and overflows with the next. The timer list is checked with two nodes
because the defect shown by `idle_three` makes every larger list fail: with two,
all positions (head, tail, only) occur, and section 4 proves for any number that
nothing else breaks it. TIMESLOT 1 gives an idle time of three seconds, so that
a sweep finds timers in each state. Three clients for two places make entries
move, places be reused, and somebody be refused. One desk seats two of three
clients, so that desks are left and taken again, and one line too early
(`MaxHaste`) is enough to seat somebody twice; a number is right, too high or
out of range with `MAX_NUM` = 1, which makes 0 the answer. With one unread line
(`MaxTyped`) no line is forgotten behind another. A second desk multiplies
states, and section 4 proves all four properties for any number of desks, lines
and hasty people; with two desks a game may begin in which it is nobody's turn
(see the remarks below). The longest messages of `parsers` hold a request line,
two headers and a body of three symbols; every cut between symbols is tried,
including those inside CR LF; with an `int` of 6 bits (`Short`) there are
lengths that fit, that wrap to 0 and to 3, that are negative, and that fit but
overflow with the index of the body added. In `process_chat` one client says two
texts, enough to overwrite a segment before it was read and to put two indices
under one edge, and one `recv` may leave the second for later or for ever; two
waiting clients come under one edge of the listening socket. On the field of
`snake` a snake of three cells can turn back, cross itself and have food put on
it; a direction stored by half is met in each of the nine cells. Three processes
and four starts let one be killed inside, one wait and one set the semaphore
anew, and the killed one come back; two pairs make `V` lead to another `P`. In
`select` two unread requests make one out of two, whole or not, or one that
nobody heeds; a request with another number (`"other"`) takes the branch of a
text that is cut, and a connection that ends in another way than by a reset that
of one which is reset. The run has one tail, so that a name is one account; the
tails are left to the theorem of section 4, which holds for any of them.

The type invariant of a module with a table is the first conjunct of that
table's invariant (`ListExact`, `TableExact`, `MembersExact`); those of `Snake`
and `SemaphoreExercise` (`SemTypeOK`) are part of the invariants proved in section 4.

`CHECK_DEADLOCK FALSE` is given because the clients of every model may all have
left, because a `ruined`, hung or killed model stops, and because the processes
of note 14 end.

**Fairness.** Weak fairness of `Main` and each `Worker` (HTTP), of the one
server thread (notes 8, 11, 12), of parent and children (note 15), of each
process (note 14), of the two parser calls, and of time: in note 7 the timer
expires, and among its ticks there are always some that move the snake; the
operating system runs threads that can run, and seconds pass. No client action
is fair: clients may stop at any time. No strong fairness is used, and `Main`
and `Server` are fair as a whole, not branch by branch.

**Reading the properties.** Where the code's undefined behaviour sets `ruined`
(or `fate`), a property says nothing of what follows; the violation runs show
that the point is reached. `EventHandled` excepts the spinning `Write`. `Served`
excepts a client that keeps talking, since POLLIN is looked at before POLLOUT.
`LastWordsHeard` is about what was received, since the rest that a `recv` leaves
in the speaker's socket has no edge, and excepts an index that is left in a
socket pair: two that come under one edge are one `recv`. `NeverBlocked` is
about `recv()`; a `send()` to a client that does not read blocks its process.
`Answered` ends in any of the four ways in which the server of note 8 stops for
good, and it may go one of them at any request: what it says is that nobody else
is kept waiting by the order of service. `EveryoneHears` tells what is heeded
from what is only read. `MembersExact` compares names as `strcmp` does, tails
included. `GameAgreed` and `TurnHandedOn` end with the first line that is typed
too early, and `SeatsKept` excepts the one step that seats somebody twice: from
there on desks and users differ. `AgreesWithNote9` says exactly where the two
parsers differ: note 9 answers a malformed line, note 17 never does, so that
such a client waits for ever. A body that arrives in a later read than its
headers is never answered either; `BodyComplete` states the part that does hold,
that no body is answered short, for the lengths that an `int` can hold.

### Findings

1. `threadpool.h:18` (note 17): the push to the queue is outside of the mutex
   that `threadpool.h:32` calls the lock that protects it (`http_queue_race`).
2. `lst_timer.cpp:102` (note 12): a middle timer that becomes the last keeps its
   old `next` (`idle_three`).

Remarks, met while modelling, that have no run of their own because the model
stops there or a property excepts them:

* `httpconnection.cpp:157` (note 17): an error other than EAGAIN keeps the only
  event loop in the "non-blocking" `Write` (excepted by `EventHandled`).
* `httpconnection.cpp:200`: `memset` with the wrong size destroys the next
  connection (`ruined`).
* `httpconnection.cpp:407`: `atol()` into an `int`; a request with a body of
  4294967299 bytes is answered once three are there, and one of 4294967296 at
  once (excepted by `BodyComplete`).
* `server.cpp:273` and 292 (note 13): any character is an index of `desks[]`
  (`AddNowhere`, `ruined`).
* `server.cpp:277`: the client is looked for at the wrong desk, and so may be
  seated twice, at one desk or at two (`Reseated`, excepted by `SeatsKept`).
* `client.cpp:94` (note 13): `can_guess_num` outlives its game; with two desks
  and more than two clients the winners of two games can meet, and `client.cpp:90`
  tells both to wait for the other.  `TurnHandedOn` says that a turn is not lost,
  and not that a game begins with one.
* `server.c:96` (note 8): the first client who leaves hangs the server
  (`ServeLeft`, excepted by `Answered`).
* `server.c:89` and 245 (note 8): each request leaves two descriptors open, and a
  `send()` to somebody who does not read does not return (`DescriptorsGone` and
  `Send`, excepted by `Answered`).
* `server.c:127` (note 8): what does not begin and end like a message is dropped
  without a word, and with it all that came under the same `splice()` (`Ignore`).
* `server.c:157` (note 8): a name without its closing zero may be registered again
  with what lies behind it on the stack (the tails of `Typed`).
* `main.cpp:109` (note 15): one `recv()` per edge; what does not fit it waits until
  the client says more (`Fill`, excepted by `LastWordsHeard`).
* `main.cpp:46` (note 14): starting a second process with an argument lets two
  into the critical section (`disturbed`, excepted by `Exclusion`).
* `snake.c:240` (note 7): after `over()` each key arms the timer again, and the
  handler walks a freed list (`WalkFreed`, `ruined`).

## 4. Proofs

All for every value of the constants, from the assumptions of each module alone,
and the hypotheses a theorem states.  For the HTTP server the assumptions are
`PoolAssumption` and `ServerAssumption` (finite sets, a write buffer of at least
two units, `None` no task, at most as many users as entries), for the others
`ChatAssumption`, `SelectAssumption`, `SemaphoreAssumption`, `SnakeAssumption`,
`ProcessAssumption` and `GuessAssumption` (finite sets; the values that stand for
"nobody" or "not set" are no client, process or text), `TimerAssumption` and
`IdleAssumption` (finitely many timers; the null pointer is no timer and no time;
TIMESLOT is not 0; the listening socket and the pipe are no connections),
`ParserAssumption` (a Content-Length is an integer, an `int` one of
`-Half..Half - 1`) and `MessagesAssumption`
(messages are sequences).

**`HttpServerProofs`** (note 17), in four parts:

* the pool: `PoolInvariance` — types, the owner of the mutex, and
  `PermitPerTask`: the semaphore plus the workers on their way to the queue
  equal the queued tasks, less a push not yet posted.  `WokenWorkerFindsTask`
  follows: a worker with a permit never meets an empty queue.  The
  counting steps use the cardinality facts of `FiniteSetTheorems`;
* the places of a connection: `ServerUsesPool` shows that each step of the server
  is a step of the pool or leaves it alone, so the pool's invariant carries over
  (`PermitsInServer`).  `OneHolder` is not inductive: that a worker's `Modfd`
  does not give a connection a second holder depends on where the others are.
  The inductive invariant is `HolderInv` = pool invariant, types, `LoopShape`
  (which local variables of the loop are set when) and `Exclusive`: a connection
  is open iff it is held, it is in one *place* (`OnePlace`), and once in it
  (`OncePerPlace`).  One lemma per move between places proves it;
  `TypeInvariance`, `OneHolderInvariance` and `HolderInvariance` are the results;
* the replies: on top of it `ReplyInv` says what a connection's buffers hold in
  each place; `ReplyMatches` follows, and with it that a worker's reply always
  fits, so that only the loop closes (`OnlyLoopClosing`) and the unlocked counter
  is exact (`CountExact`);
* the refinement: `ImplementsLifecycle` — every step of the server is a step
  or a stutter of `ConnLifecycle` under the mapping `Owner`: the safety half of
  `LifecycleSpec`.

**`IdleProofs`** (note 12), in three parts:

* the list.  What `After` and `Tick` compute is a recursion; the proofs replace it
  by a numbering of the nodes: `Chain(l, S, at, k)` says that from `head` to `tail`
  the pointers of `l` lead through `at[1]` .. `at[k]`, the nodes of `S`, and back,
  and that `expire` never decreases.  `AfterSteps` and `TickSteps` unfold the
  recursions, with a least counterexample instead of an induction; `LinkedIsExact`
  shows that a chain of all nodes is a `SortedDoublyLinked` list.
  `InsertedChain` and `RemovedChain` say what an insertion and a removal must do to
  the pointers, `WalkResult` where the walk of the private `add_timer` ends, and on
  these rest one lemma per function of `lst_timer.cpp`: `AddPlaces`, `AdjustPlaces`,
  `DelPlaces`, `TickPlaces`.  Each turns a chain into a chain or follows a null
  pointer; `AdjustPlaces` alone needs a condition, `~MovedToEnd`: a timer of the
  middle does not become the last one.  `MovedBreaks` shows that otherwise the list
  is broken;
* the server.  `IdleInv` = types, the list is linked unless it is ruined, its nodes
  are the open connections, and the kernel holds no data of a closed one; without
  the last part `Receive` might adjust a deleted timer.  `Misplaced` is a
  step with `MovedToEnd`.  `ListStaysExact` proves `ListExact` up to the first such
  step, `ExactUnlessMisplaced` that the two are the same: a behaviour keeps the list
  exact if and only if it never misplaces a timer.  With two timers it never does
  (`TwoTimersExact`), and the run `idle_three` has a behaviour with three that does:
  without a condition the theorem would be false.  `AlarmChain` proves
  `AlarmPending` for every behaviour; it needs only that nothing of a batch is left
  when `epoll_wait` is called (`AlarmInv`);
* the refinement: `KeepsPromise` and `TwoTimersPromise` — every step of the server
  is a step or a stutter of `IdleConnections` under the mapping `Left`: the safety
  half of `IdleSpec`, under the same condition.

**`ChatProofs`** (note 11): `TableInvariance`.  `TableExact` is inductive as it
stands.  That `accept()` finds a descriptor wherever the table has room is a
pigeonhole argument (`FreeFd`); that the loop goes on at an entry of the table
needs the least element of a set of numbers (`Least`, `GoesOn`); the heart is
`RemoveTable`, in which the last entry and the pointer to a buffer move while
the loop runs.  `ImplementsRoom` is the refinement of `ChatRoom`.  It rests on
`RoomInv` = `TableExact` and four parts: a member has one descriptor (`ConnOnce`)
and the members are who is connected (`Inside`), what a buffer holds was said by
one who has been in the room (`BufSaid`), and nobody has its own text to get
(`NoEcho`): it would change with the next thing it says.

**`ProcessProofs`** (notes 15 and 14), the programs of several processes.  For
`ProcessChat`: `ProcInvariance`, `TypeInvariance`, `NeverBlockedInvariance`, and
`ImplementsAnnouncements`, the refinement of `Announcements`.  The invariant
says that no segment is ahead of what was said, that nobody has heard what his
segment does not hold, and which indices may be in flight in a socket pair.

For `SemaphoreExercise` (note 14) the same module proves `ExclusionInvariance`.
Exclusion is not inductive: that `P` lets nobody in beside another depends on
where the permit is.  `SemInv` adds that, undisturbed, it is either the value or
the adjustment of the one process inside (`PermitPlace`), and where each process
stands in its loop; a kill gives the adjustment back.  `PermitInvariance` says,
whoever disturbs whom, that a permit is never lost: the value and the
adjustments of +1 together exceed those of -1.

**`GuessProofs`** (note 13), in four parts, for any number of clients and desks
and people who type what and when they like:

* `TableInv` — `TableInvariance`: the table of clients;
* `SitInv` — `SeatsInvariance`: every step but `Reseated` keeps the seats, their
  number and `desk_sub` in step.  The seats of a desk fill up from the first, the
  desk in `desk_sub` is one where the client sits, and who is gone has none; with
  that the numbers agree exactly if nobody sits twice (`DeskCounted`,
  `SeatsCounted`);
* `GameInv`, which speaks of the states with `haste = 0` — `AgreedInvariance`: what
  a client believes of its desk is what the server will have told it once its
  queues are empty.  It follows each message from the server's `send` to the
  client's `recv`: `Seats` relates desks and users, `Fine` says which messages may
  be in a client's queues in which of its states.  Beyond the first line that is
  typed too early the agreement is false;
* `TurnInvariance`: one lemma per action that touches a game carries the turn of a
  desk over (`TurnAt`): to the other player's queue with a miss, back to the
  player with a number out of range.  That a game *begins* with a turn is no
  theorem (see the remark on `client.cpp:94`).

**`SelectProofs`** (note 8): `MembersInvariance`, by `SelectInv` = `MembersExact`
and a waiting client wherever the listening socket was found readable; and
`TextsHeard`: a step that empties a client's socket and leaves the server running
is the turn of that client (`ReadsIsTurn`), a text that passes the check goes once
to who is online once (`OnlineOnce`, `OneCopy`), and of anything that does not,
nobody hears.

**`SnakeProofs`** (note 7): `ScreenInvariance`, by `SnakeInv` = types,
`ScreenTrue` and a length below `WIN` while the game runs; `OneCell`, by
`DirInv`, what `dir` may be with which of its fields still to be stored; and
`Unnoticed`, that a snake crosses itself only unseen.

**`ParserProofs`** (notes 17 and 9): `TypeInvariance`, `NeverPassed`,
`SplitInvariance`, `BodyInvariance` and `Agreement`, for every set of messages of
any length and every way to cut them; so all that the run `parsers` checks except `Settles`.  `LineRead`
and `LineRead9` say what one `ParseLine` of each note finds, which needs the least
element of a set of numbers.  The invariant `ParseInv` is stated on the message
and not on the buffer, part of which the parsers overwrite: `At` says that the
buffer still is the message from the start of the current line on, that nothing
before the index is malformed, and that the line does not end before it; `InHead`
that the first line was good and the head has not ended; and an answer is kept as
what was found in the message (`Refused`, `Granted`, `Broken`, `Dry`), which more
bytes do not change (`Later`).  `PrefixParts` and `WaitsRightly` carry that over to the
grammar (`Answer`), which looks only at what has arrived.  Of a body the invariant
knows nothing but where the head ends.

Only model-checked, because liveness and `ENABLED` are beyond the prover: the
fairness halves of `LifecycleSpec` and `IdleSpec`, `EventHandled`, `Stops`, `Served`,
`LeaversRemoved`, `Answered`, `WaitersServed`, `Unsteered`, `Settles` and
`LastWordsHeard`.  Every other property of the passing runs is the statement, or a part of
the statement, of a theorem.

## 5. Not modelled

Start-up, argument handling and logging of every program; failures of
`epoll_wait`, `poll`, `socketpair` and the clean-up behind them
(`main.cpp:141-144` of note 17 deletes the pool while its detached workers run);
the numbering of descriptors against `MAX_FD`; file contents, URL and header
texts and `DoRequest`'s file system; end-of-file on a client's terminal.

SIGPIPE in note 11: the first `send()` after a reset only takes the error, the
server makes one for each report of `poll()`, and the next report is the reset.
SIGPIPE in note 15, and SIGTERM sent to one child alone.

Note 7: the drawing that nobody reads back, `level` and `tTime`, the handler
interrupting curses inside `getch()` (a data race in the library, whose outcomes
the source does not show), the bytes sent to the other side for each cell, and
`server.c`, which prints them.  Note 8: the limits of the arrays (100 accounts,
names of 10 and passwords of 16 bytes), and how many descriptors there are: any
`pipe()` or `accept()` may be the one that fails.  Note 13: `&` beyond status 5
(from status 10 on the server reads the first digit of it), lines longer than the
buffers, and a message of the server cut apart by one `read()`.  Note 14: a failing
`semget()`.  Note 15: a `send()` that blocks.

The components marked *no* in section 1: the listings of note 10 are echo loops
whose state is one descriptor set; notes 1 to 6, the socket library and the
samples are straight lines of single system calls.

## 6. Plan

Done, in this order: thread pool and HTTP server with their proofs and
refinement; timer list and idle server; chat room; guessing game; the parsers;
the process chat; snake, semaphore exercise and account chat with their proofs;
the refinements of the chat room and of the process chat; the guessing game's
tables and turns; the permit of the semaphore exercise; the parsers against the
grammar; the timer list, the alarm chain and the promise of the idle server.

Left: `EchoLoops` (note 10), level- against edge-triggered, as a refinement of one
echo specification.
