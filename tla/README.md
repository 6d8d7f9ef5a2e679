# A TLA+ development for c-language-learnning

The repository is a collection of C and C++ programs. Most of them are a page
long and show one system call. This development is about the programs that have
behaviour of their own: concurrent queues and pools, timers, a database connection
pool, an asynchronous log, strings, chat servers, epoll servers, servers that fork,
web servers, programs over io_uring, copies by several processes. Each is modelled from
its code; TLC checks the models on small instances, and TLAPS proves for every value of
their constants the safety of nearly all of them: the bounded queue, the spinlock and both task pools,
the connection pool, the request thread pool, the log, the copies by processes and over io_uring, `cat`
and the echo server over io_uring, the three chat servers, the epoll servers and the forking one, tinyhttpd,
the server that closes inactive connections, the timer containers (both sorted lists, the wheel and the heap),
the connect with a time-out, the links of epollhttpd, the HTTP parser, and the memory of sds strings.

`PROJECT.json` is the machine-readable index: the components, the runs, for every
definition the lines of `src/` it stands for, for every property a change of the
code that breaks it, the hazards, the findings and the theorems.

## 1. Inventory

Paths are relative to `src/`. "External" marks what is modelled from its use.

### c-plus-plus-server/webserver

A web server in the making: the components exist, the main loop that would tie
them together does not (`webserver.h` is a declaration only).

| Part | State | Operations | What makes it correct |
|---|---|---|---|
| `log/block_queue.h` | ring buffer `m_array`, `m_front`, `m_back`, `m_size`, a condition variable | `push`, `pop`, timed `pop`, `clear`, readers | cursors and counter never drift apart, it is a FIFO, no consumer sleeps beside an item |
| `log/log.cpp` | open file, `m_count`, `m_today`, the queue | `init`, `write_log`, `flush`, the writer thread | no line is lost or doubled, files rotate per day and per `m_split_lines` |
| `CGImysql/sql_connection_pool.cpp` | `connList`, two counters, a semaphore | `GetConnection`, `ReleaseConnection`, `DestroyPool`, RAII | a connection has one user; counters and semaphore agree; a waiter is served |
| `threadpool/threadpool.h` | `m_workqueue`, `m_queuestat`, fields of each `http_conn` | `append`, `append_p`, `run` in two actor models | bound of the list, one worker per request, every accepted request handled |
| `timer/lst_timer.cpp` | sorted doubly linked list | add, adjust, delete, tick | sound links, a timer fires in the first tick at or after its time, once |
| `lock/locker.h` | semaphore, mutex, condition | wrappers | used by all of the above |

Interactions: a logging thread calls the queue and the file; the writer thread
drains the queue; the event loop (external) appends requests, workers take them
and bracket each one with a connection of the pool. The hard part is what happens
between critical sections: `full()` then `push()`, the emptiness test of
`GetConnection` outside its lock, the counting of a line and its writing under two
locks, the semaphore posted after the list is unlocked.

### network-programming/youshuang

* `timer/`: three timer containers (sorted list, wheel, heap) behind one idea. Pointer
  surgery, and arithmetic on slots and rotations.
* `13-4shm_talk_server.cpp`: a chat server with one process per client. State: the
  parent's user table and `sub_process`, pipes, shared memory segments, a signal pipe.
  Hard: children exit while the parent reaps and renumbers, edge-triggered events.
* `9-7mytalk_server.cpp`: a chat server with one thread and `poll`. Hard: rows of the
  table move inside the loop over the table.
* `9-3mtlt.cpp`, `9-8multi_port.cpp`: event loops, see below.
* `9-4oneshot.cpp`: an event loop that starts a thread for each report of a connection. Hard: the
  one-shot registration has to be armed again; the thread's argument is a variable of the loop.
* `10-1unievent.cpp`, `timer/11-3nonactive_conn.cpp`: signals as bytes in a socket pair. State: the
  alarm, the pipe, the edges, the timer list. Hard: the alarm is a chain that must not break, and
  events, ends and ticks reach a connection in any order.
* `8-3httpparser.cpp`: a parser that is fed pieces. Hard: a piece may end anywhere.
* `9-5unblockconnect.cpp`, `11-1connect_timeout.cpp`: a connect with a time-out. Hard: the answer comes before,
  during or after the wait, and a set of descriptors is used that was never cleared.

### system-programming/threadpool

A pool over a spinlocked queue (`spinlock-version`) and a pool over two doubly linked
lists (`version1`, `version2`: the same code under other names), each with a test program.
Hard: lost wake-ups, quitting while tasks are posted, marking workers that free themselves.
`spinlock.h` has three builds of the lock; two of them are loops over one word.

### Servers over epoll

`c-plus-plus-server/server-30` (one echo server moved into classes day by day),
`network-programming/deeper-understanding-epoll`, `network-programming/yinshengyu`.
State: the descriptors, the events returned and not yet handled, one buffer. Hard:
an edge is reported once, the world goes on between `epoll_wait` and `recv`.

### The rest

* `redis-learnning/sds`: strings with five header widths. State: type, length, capacity, text. Hard: a
  string moves between widths as it grows and shrinks; quoting and splitting must be inverse.
* `network-programming/http/tinyhttpd`: a thread per client, a child and two pipes per CGI request. Hard:
  every child inherits the descriptors of all threads, and a pipe ends when the last copy is closed.
* `liburing-learnning`: a copy with several reads and writes in the ring (partial completions, any order),
  a `cat` over bare rings (cursors, masks), and an echo server whose buffers belong to descriptor numbers.
* `network-programming/yinshengyu/chat_server.c`: a thread per client over one table. State: `client_socks`,
  `client_count`, a mutex, and main's `client_sock`, whose address is the argument of every thread. Hard: a
  thread that starts late, a removal from the middle of the table, a write to somebody who does not read.
* `network-programming/yinshengyu/echo_server.c`: a child per client. Hard: several exits are one SIGCHLD; a connection ends
  when the last copy of its descriptor is closed.
* `system-programming/mmap`: a file copied by several processes, each its block. Hard: a fork that fails, children
  that exit before the handler is there, a division with a rest.
* `network-programming/http/epollhttpd`: directory pages with escaped links. Its event loop is not there.
* A key-value store without its stores, and a few hundred exercises. Section 8 says what becomes of them.

## 2. Modules and the code they stand for

Module and source use the same names. A critical section of a mutex or spinlock is one
action; what lies between two sections, a semaphore operation, an atomic access and a system
call are actions of their own. A `pc` (or `wat`, `lat`, `stage`) per thread is its position in the code.

| Module | Code | State and actions |
|---|---|---|
| `BoundedFifo` | promise of block_queue | one sequence; enqueue, dequeue, clear |
| `BlockQueue` | `log/block_queue.h` | the ring buffer and the sleepers of `m_cond`; push, pop (sleeping, waking, spurious wake-ups), timed pop, clear |
| `AsyncLog`, `AsyncLogProof` | `log/log.cpp`, `log.h` | the steps of `write_log` in order: read the day (`ReadTime`), count and rotate (`Count`), `full()` (`Route`), `push` or `fputs`, `flush`; `WriterPop`, `WriterWrite`; `Midnight` is the clock. The queue is the abstract FIFO, which `Refinement` justifies; the proof |
| `ConnPool`, `ConnPoolProof` | `CGImysql` | `GetFindsNone/Some` is the unlocked test, `ReserveWait` the semaphore, `TakeFront`, `ReleasePush`, `ReservePost`, `DestroyPool`; the proof |
| `HttpThreadPool` | `threadpool/threadpool.h`, fields of `http_conn` | `Event` is append or append_p, `Post` the semaphore, a worker's `Wait`, `Pop`, `Read`, `Write` (which arms the connection), `Note` and `Flag` (the stores behind it), `Connect`, `Process`, `Release`; an INSTANCE of `ConnPool` whose threads are the workers |
| `TimerService` | promise of a timer container | clock, when each timer is due, what the last call fired |
| `SortTimerList`, `TimeWheel`, `TimeHeap` | `timer/lst_timer.cpp` and `11-2`, `11-5`, `11-6` | the pointers as records, one operator per assignment group; `delete` leaves `Freed` behind, so that a dangling pointer is visible |
| `TimerContainers` | callers of the containers (external) | the list in both versions, the wheel or the heap under a clock; maps each to `TimerService` |
| `SpinPool` | `spinlock-version` and its test | head, tail and next of the queue, block, quit, each worker; the test's posting loop, `Terminate` split into its three stores |
| `LLPool` | `version1`, `version2` and their test | both linked lists; creation without the mutex, `Mark` and `Follow` of thread_destroy |
| `ShmTalk` | `13-4` | parent, children, pipes, segments, edges of every epoll set, SIGCHLD and SIGTERM |
| `MyTalk` | `9-7` with `9-6` as its clients | `fds`, `users`, `write_buf`; one action per turn of the row loop |
| `EventServer` | `server-30` day03 to day06, `echo_epoll_server.c`, `9-3`, `9-8`, the two EPOLLRDHUP servers | a program is a record of what it registers and what it does with each return value, `Init` picks one; one action per system call. Descriptors run out (`AcceptFails`); peers need not read, so a write is short (`WriteBytes`) or, in a blocking socket, does not return (`WriteStalls`) |
| `Sds` | `redis-learnning/sds/sds.c`, `sds.h` | one string: type, length, capacity and the bytes of its block; one action per call that changes it. Header limits are constants |
| `SdsText` | the same, the functions on text | `sdscatrepr`, `sdssplitargs`, `sdssplitlen`, `sdsjoinsds` as functions of what somebody types |
| `HttpParser` | `8-3httpparser.cpp` | the buffer and its three cursors; one action per `recv`, which feeds the parsing functions |
| `IoUringCp` | `io_uring-cp.c` | the counters of `copy_file`, one record per `io_data`, the completion queue; the kernel completes in any order, in part, or with an error |
| `IoUringCat` | `use-io_uring-cat.c` | both rings with cursors that wrap, the vectors of each file, the blocks counted as the code does, in an `int` |
| `NonActive` | `11-3`, `10-1` | the loop's flags, the pipe, the edges, the alarm and the clock, an INSTANCE of `SortTimerList`; `timed` tells the two programs apart |
| `Tinyhttpd` | `tinyhttpd/httpd.c` | where each client's thread is, a table of who holds which end of which pipe, the bytes in the pipes, each child |
| `IoUringTcp` | `tcp_server_iouring.c` | requests prepared, taken and completed, the buffer of each descriptor; `OnAccept`, `OnRead`, `OnWrite` are the branches of the loop, `Kernel*` the other side |
| `ChatServer` | `yinshengyu/chat_server.c`, `chat_client.c` | the table as it is in memory (the word behind it included), main's variable, a thread per client with its position; one action per write of `send_message` |
| `ForkEcho` | `yinshengyu/echo_server.c`, `echo_mpclient.c` | who holds each connection, where each child is, SIGCHLD as one bit |
| `TimedConnect` | `9-5`, `11-1` | one call of each function against a handshake that ends at any time; what the stack held is an initial choice |
| `MmapCopy` | `mmap-multiprocess-copy.c`, `mmap-single-process-copy.c` | who wrote each byte, each child, the pending signal; the uninitialised `sa_flags` is an initial choice |
| `SpinLock` | `spinlock.h` | the lock word and where each thread is, one step per access to the word |
| `EpollHttpd` | `epollhttpd/epoll.c`: `encode_str`, `decode_str`, the links of `send_dir`, the path of `http_get_request` | the name of an entry; functions over character numbers |
| `OneShot` | `9-4oneshot.cpp` | epoll's registered and enabled sets, the loop's variable, what each worker serves |

The theorems and their proofs are in modules of their own:

| Module | Proves about |
|---|---|
| `RingsProof` | `BlockQueue`, `IoUringCp`, `IoUringTcp`, `IoUringCat` |
| `ConnPoolProof` | `ConnPool`; `ServersProof` uses it through an instance |
| `AsyncLogProof` | `AsyncLog` |
| `ServersProof` | `HttpThreadPool`, `SpinLock`, `SpinPool`, `LLPool`, `MmapCopy`, `ForkEcho`, `EventServer` |
| `TalkAndStringsProof` | `MyTalk`, `ShmTalk`, `TimedConnect`, `Sds`, `EpollHttpd` |
| `ClientServersProof` | `ChatServer`, `Tinyhttpd`, `NonActive`, `HttpParser` |
| `SortTimerListProof` | the operators of `SortTimerList`, in both versions; used through instances by `ClientServersProof` and `TimerContainersProof` |
| `TimerContainersProof` | `TimerContainers`, with `SortTimerList`, `TimeWheel` and `TimeHeap`, against `TimerService` |

`MC*` modules give the constants values. Each of them runs one of several independent programs, which a
variable selects; the others stand still at their beginning.

Conventions of the abstraction. A payload (a log line, a request, a message) is known by who
made it and its number. Text, formatting and logging are left out. Undefined behaviour is a
choice over its outcomes: in `LLPool` a thread that follows a freed worker goes on or crashes. A write outside of an
array ends the model (`"lost"`): the client too many of `chat_server.c`, the vectors of a file too large for `cat`, the
descriptor -1 of `11-3`.
Memory allocation succeeds, except where the code tests it and goes on.

## 3. Runs

| Run | Checks | What it shows |
|---|---|---|
| `rings_and_signals` | `CursorsAgree`, `LiveSlotsHoldItems`, `SleepOnlyWhenEmpty`, `ImplementsFifo` | the ring buffer implements the bounded FIFO through time-outs, spurious wake-ups and clear; no wake-up is lost |
| | `CopySound`, `CatPrints` | a copy that returns 0 is the file, through partial and reordered completions; cat prints the files in order, each at its full length, those read whole byte for byte, and never one whose size no `int` holds |
| | `UringSound` | one accept and one request per connection are always under way, whatever fails; nobody is sent what another peer wrote |
| | `NcSound` | exactly the open connections have timers, a silent one is closed in time, the alarm never stops |
| `log_and_pool` | `LogSound`, `EventuallyWritten` | every line is in exactly one place and gets written, unless the `full()`/`push()` race drops it; a thread alone loses nothing and its files are exact |
| | `PoolSound`, `WaiterServed` | a connection has one user and counters, list and semaphore agree; the unlocked test is harmless until DestroyPool; whoever passes the semaphore finds a connection |
| `log_split_race` (violation) | `FileWithinSplit` | a file gets more than `m_split_lines` lines |
| `conn_pool_null` (violation) | `RequestGetsConnection` | a request that comes to the open pool with all connections out gets NULL instead of waiting |
| `threads` | `SpinQueueSound`, `QuitJoins`, `LLTaskOnce`, `LLServed` | no task lost in a list or run twice, the pools end when told to |
| | `RequestsSound`, `AcceptedHandled` | the semaphore counts the requests, workers and connections never mix, in either actor model and although the next event of a connection may come before its worker has made its last store; every accepted request is handled |
| | `SpinExclusive` | the spinlock admits one thread, and is free when nobody is in, in both builds and with trylock |
| `spin_pool_wakeup` (violation) | `SleepWithoutTask` | every worker asleep beside a task |
| `client_threads` | `ChatSound`, `ChatHeard` | all clients are written the messages in one order; the count is right whoever left, so that the table overflows only when as many clients are present as it has places; the table is right while leavers leave from its end and threads start in time; what is said gets heard although everybody writes under one mutex |
| | `HttpdTidy`, `HttpdCloses` | tinyhttpd passes on all of a script's output, reaps its child and closes what it opened; no thread waits for ever on an inherited end |
| `talk_servers` | `ShmTable`, `ShmWindsUp`, `MytalkSound`, `MytalkLeaverGone` | the tables of both chat servers survive every order of arrivals, departures and resets; `13-4` drops the users whose children ended and ends on SIGTERM unless a child missed its signal |
| `shm_talk_segments` (violation) | `NoEcho` | two children share a segment, a client gets its own message back |
| `event_servers` | `EsSound`, `EsAccepted`, `EsServesOut` | a peer is sent its own bytes in order, and all of them unless a write found no room; a server stops only in the ways `EsKeepsServing` names; connections are accepted and closed where the registration allows it and a descriptor is free |
| | `ForkZombies`, `ForkAnswers` | there are never more zombies than merged signals; a client reads everything back and then the end |
| `oneshot_rearm` (violation) | `OneShotServed` | what a peer sends after its first read-out is never read |
| `small_programs` | `ContainersSound`, `ImplementsService` | all timer containers fire exactly what is due; the two list versions agree step by step |
| | `SdsSound`, `SdsSplitJoins` | no call writes behind its block, a string keeps its text through every change of header, quoting and splitting undo each other |
| | `HttpChunks` | what the parser finds does not depend on where a request was cut |
| | `ConnectHonest` | a returned socket was connected, is open and blocking, and no error is swallowed |
| | `MmapCopies` | every byte is written once; what is missing is exactly the blocks whose fork failed |
| | `LinksLeadBack` | the link of an entry leads back to it, whatever its name; one too long is cut between characters |

`LogSound`, `PoolSound`, `RequestsSound`, `MytalkSound`, `EsSound`, `EsServesOut`, `SdsSound` and `NcSound` are
conjunctions of definitions named for what they say (`LineConserved`, `ConnExclusive`, `OneHandler`, ...), each with
its own comment.

Every property has a mutant: a change of one mapped definition that a plausible slip in the
code would make (a guard dropped, a wrap forgotten, a reset left out) and that TLC then
refutes under the same configuration.

### Bounds

* `rings_and_signals`, block queue: 2 threads, 2 items, capacity 3. Both cursors wrap and the buffer is full,
  empty and cleared at every offset. The proof removes the bound.
* `rings_and_signals`, io_uring: `QD` and `BS` 2, files of 0, 3 and 5 bytes (partial last block, more blocks than places);
  blocks of 2, rings of 1 and 2 entries, cursors modulo 4 (they wrap), an `int` of 8 values, up to 3 files of 0, 2, 3,
  4 or 9 bytes: a size that becomes a negative count of blocks, and one that becomes too small a count; for the
  server 3 peers, 2 descriptors (accept fails for want of one, and a number is used again), buffers of 2 bytes,
  5 connections and bytes together. For all three, proofs remove the bounds.
* `rings_and_signals`, signals: 2 users, `TIMESLOT` 1, clock up to 4, 1 piece of data, 1 second by which the loop may be
  late: timers expire, are moved behind one another and are deleted in the middle of a batch. The clock is too short for a
  connection to reach its fourth slot while the loop is late: that last bound of `NcTimers` rests on the proof. Symmetric in
  threads and users; safety only, which is proved without the bounds.
* `log_and_pool`: 2 loggers, queue capacity 0 (synchronous) or 1, splits every 2 lines, 3 lines,
  2 days: one place in the queue is what the race needs, 3 lines cross a split. 3 threads, 2 connections: one more
  user than connections, and one free place to race for. For the safety of both, proofs remove the bounds.
* `threads`: 2 spin workers, the task that ends the pool is the second, up to 4 posts; 3 list workers, 3 tasks, so
  that a task in the middle of the list can be removed; 2 request workers, 2 client connections, 1 database
  connection, list bound 1: the list is full and the database connection contended; 3 users of the spinlock.
  Proofs remove the bounds of `SpinQueueSound`, `LLTaskOnce`, `RequestsSound` and `SpinExclusive`.
* `client_threads`: 3 chat clients and a table of 2, which can overflow, 4 connections and messages together: a leaver in the middle, a
  thread that starts after the next accept, a descriptor that comes back; tinyhttpd with 2 clients in five
  combinations of requests that reach every branch, at least one of them of a script, pipes of 1 byte, a body of
  2 bytes: every pipe is full, and a fork falls between any two steps of the other thread. `ChatSound` and
  `HttpdTidy` are proved without the bounds.
* `oneshot_rearm`: 1 peer, 2 workers, 2 bytes.
* `talk_servers`: 3 clients, 2 places, so that one is refused and a place is reused. `MytalkSound` and
  `ShmTable` are proved without the bounds.
* `event_servers`: 2 peers, a buffer of 2 bytes, 3 bytes sent, 1 datagram: a read fills the buffer and
  leaves a rest, two connections arrive under one edge. 1 or 2 free descriptors; with 1 a byte less is sent. Peers are
  alike, so that `MCEventServer` has them connect in one order (`Small`). 3 clients of the forking server, 1 message: two exits merge
  while a third child lives; `EsSound` and `ForkZombies` are proved without the bounds.
* `small_programs`, timers: 4 timers, delays 0, 2, 3, a wheel of 2 slots of 1 second (a delay of 3 needs a
  second rotation), heap capacity 1 (it grows twice), clock up to 4. Symmetric in the timers; safety only.
* `small_programs`, strings: the header limits are scaled to 2, 4, 8 and 100, the preallocation limit to 5, the static
  buffer of `sdscatvprintf` to 2, the integer range to 127, so that texts of at most 5 bytes cross every limit. Typed
  lines are at most 4 of ten keys: the zero byte, a control byte, newline, blank, both quotes, a digit, backslash, n, x.
* `small_programs`, parser: every request of at most 3 symbols and every request one edit away from a proper one, cut
  anywhere; a buffer of 12.
* `small_programs`, the rest: 5 processes as in the code, files shorter than that, divided exactly and with a rest; names
  of at most 5 of six characters (blank, percent, two hexadecimal digits, a letter that is one, a byte above 127),
  a buffer of 12, so that names are cut at every phase of an escape. (The code's sizes never cut one: a name has at most
  255 bytes, its escapes 765, the buffer 1024. What the cut does is a statement about the function alone.) `TimedConnect` has no bound.

`CHECK_DEADLOCK FALSE` is set where the system may rest: the users of the pool, the clients of the
servers owe nothing, and the test programs of the task pools come to an end.

### Fairness

* `AsyncLog`: the writer thread and a call that has begun go on (WF). A thread need not log.
* `ConnPool`: threads go on (WF); the semaphore is granted in turn (SF on `ReserveWait`); a borrower gives
  its connection back, which connectionRAII's destructor does.
* `HttpThreadPool`: workers and the event loop go on; semaphores are granted in turn (SF on `Wait`, `Connect`).
* `Tinyhttpd`: threads and scripts go on (WF); a client that has connected sends its whole request or goes. A failing
  `pipe`, `fork`, `fopen` or `accept` may happen and need not.
* `OneShot`: the loop and the threads go on (WF); peers owe nothing.
* `SpinPool`, `LLPool`: every thread goes on (WF).
* `ShmTalk`: the parent and the children go on and a pending SIGCHLD is delivered (WF); a SIGTERM between a child's test
  of `stop_child` and its `epoll_wait` may be missed, and `ShmWindsUp` excepts a server with such a child.
* `MyTalk`, `EventServer`: the server's loop goes on (WF); clients owe nothing, not even to read. A write that has stalled
  has ended the model's run (`"stalled"`), as an exit has.
* `ChatServer`: threads go on (WF), a client that is there reads what it is sent, and the host of one that is gone answers
  with a reset; nobody needs to speak or to leave. Without the second a single client could hold the mutex for ever.
* `ForkEcho`: the processes of the server and the reading process of a client go on, a pending SIGCHLD is delivered (WF).
* Everything in `rings_and_signals` and `small_programs`, and `SpinLock`: safety only. (The spinlock promises no
  thread its turn.)

A liveness property of several clients (`ChatHeard`, `EsEchoed`, ...) says that the set of those still owed something
becomes empty: the bounds make it finite, and what every single client is owed follows.

WF is what a preemptive scheduler gives a runnable thread. SF is assumed for semaphores only, where
Linux wakes a waiter for a post.

## 4. Findings

1. `log_split_race`: `write_log` counts the line under one lock and writes it under a later one
   (`log.cpp:98`, `:144`). After another thread rotated, the line lands in the new file, which the count has
   not accounted for: more lines than "日志最大行数" (`log.h:50`).
2. `conn_pool_null`: while the pool is open, `GetConnection` returns NULL when the list is empty at its first test
   (`sql_connection_pool.cpp:63`): a request that comes when every connection is out gets none, contrary to the comment at
   `:58`. Only one that passed the test while another takes the last connection waits at the semaphore (`WaiterServed`).
3. `spin_pool_wakeup`: `__get_task` (`threadpool.c:113`) waits without looking at the queue again; a task
   added and signalled between its pop and its wait leaves all workers asleep.
4. `shm_talk_segments`: the parent renumbers a user, its child keeps its old index (`13-4:308`), and the next
   child gets the same segment.
5. `oneshot_rearm`: `reset_oneshot` uses `EPOLL_CTL_ADD` for a descriptor that is registered (`9-4oneshot.cpp:46`); the
   call fails, and no later event of the connection is reported.

Each finding's `what` in `PROJECT.json` quotes the comment it disagrees with.

## 5. Proofs

**Block queue** (`RingsProof`), for every set of threads, every set of items and every capacity `MaxSize \in Nat \
{0}` (`MaxSizeAssumption`; the constructor exits on a size that is not positive), and a `NoItem` that is not
an item (`NoItemAssumption`):

| Theorem | Statement |
|---|---|
| `TypeCorrect` | `Spec => []TypeOK` |
| `CursorsCorrect` | `Spec => []CursorsAgree`: `m_back` is `m_size` slots past `m_front`, with at most one wrap |
| `LiveSlotsCorrect` | `Spec => []LiveSlotsHoldItems`: what pop reads next was written by push |
| `NoLostWakeup` | `Spec => []SleepOnlyWhenEmpty` |
| `Refinement` | `Spec => ImplementsFifo` (`Fifo!FifoSpec`) under the mapping that reads the live slots in order |

The inductive invariant is `IInv == TypeOK /\ CursorsAgree /\ LiveSlotsHoldItems`. None of its parts is
inductive alone: that a push keeps the live slots filled needs to know which slot `m_back + 1` is, which
`CursorsAgree` says, and that needs the ranges of `TypeOK`. Modular arithmetic enters only through `ModOnce`
and `NextSlotWraps` (a sum below twice the capacity wraps at most once), and `SlotFacts` (distinct offsets are
distinct slots). `PushInv` and `DequeueInv` show one kind of step each, `Inductive` collects them. The
refinement follows the same split: `PushRefines` (the sequence grows by the item), `DequeueRefines` (it loses
its head), `StutterRefines`. `AsyncLog` uses the FIFO in the queue's place on the strength of this theorem.

**Connection pool** (`ConnPoolProof`). For every finite set of threads and connections and a `NULL` that is no connection
(`ConnAssumption`), `PoolKeepsAccounts`, `Spec => []PoolSound`, and `NoEmptyFront`: as long as the pool is
open, `front()` in `GetConnection` finds an element. `PoolSound` says who has which connection and that the
list's length, `m_FreeConn`, `m_CurConn` and the semaphore agree, counting the threads past the wait that have
not yet taken theirs and those that gave one back and have not yet posted. The invariant is `PoolType /\
HeldInUse /\ PoolSound`; `HeldInUse` (who has a connection is using it) is needed because only then does a
thread that takes the front hold nothing before, so that `m_CurConn` grows with the holders. The counting
rests on one lemma, `OneChanges`: a step moves one thread, so each set of threads at a position gains or loses
at most that thread. `NoEmptyFront` is a consequence: a thread at the lock is counted against the list's
length.

**Request pool** (`ServersProof`), for finite sets of workers, requests and connections and every bound of the list
(`PoolAssumption`), in both actor models:

| Theorem | Statement |
|---|---|
| `RequestsKept` | `HttpSpec => []RequestsSound`: the semaphore and the workers at `Pop` count the list, a request has one handler, `process` has its worker's connection |
| `WorkersKeepPool` | `HttpSpec => []Pool!PoolSound`: the connection pool keeps its promises under these callers |
| `NoEmptyPop` | `HttpSpec => []WokenFinds`: the test for an empty list in `run` never succeeds |

`RequestsSound` speaks of a worker as the handler of its request from the pop to the end of `process` or `write`; a worker that has
still to store `improv` for a connection it has armed again is no handler, and the next one may be at work. (The late store
can hide from the event loop, which is external, that the next worker is not done.)
The invariant adds to the property where a request can be (`OnePlace`: armed, in the list once, or with one
worker; without it a pop could hand out what another worker has), which workers have one (`Serving`), that
`m_state` is what the loop last wrote (`Told`), that `mysql` of a request in `process` is what its worker took
(`Borrowed`), and the invariant of the connection pool. The last is not proved again: the instance `Db` of
`ConnPoolProof` brings its lemmas, and every worker's step on the pool is one of `ConnPool`'s (`DbGet` and its
like), so `PoolStep` applies.

**Log** (`AsyncLogProof`). `LinesKept`, `LogSpec => []LogSound`, for finitely many threads and every capacity,
split, number of lines and days (`LogAssumption`). The invariant replaces `LineConserved` by `Conserved`,
which says of every line whether it is due and then that it has one copy, otherwise none: that a push makes no
second copy needs to know there was none before. `SyncUnqueued` keeps the queue out of synchronous mode. What
one thread alone may rely on (`AloneInv`) needs most: that nobody filled the queue between its `full()` and
its `push` (so nothing is dropped), that the file in use is named after day and count (`Named`), that no line
is in a file opened later (`NotAfter`, so that a rotation opens an empty one), and that `m_count % SplitLines`
bounds the lines of the open file. Where a second thread has logged, this last part is what fails, and
`log_split_race` shows how. Copies are cardinalities of sets of positions; `GrowCount` and `ShiftCount` say
how these change when a sequence grows at its end or loses its head.

**Task pools** (`ServersProof`). `SpinMutex`, `LockSpec => []SpinExclusive`, for every set of threads and
both builds: the invariant is `LockType /\ SpinExclusive`; exclusion alone is not inductive, because an
exchange lets a thread in whenever the word is 0, and only the second conjunct (the word is 1 exactly when
somebody is in) excludes that somebody is. `SpinPool` takes a spinlocked section as one action on the strength
of this theorem. `TasksOnce`, `SpinSpec => []SpinQueueSound`, for finitely many workers and every `Limit` and
`MaxPosts` (`SpinAssumption`): the tasks from `head` to the last one posted are linked in order, `tail` is the
last of them or the head's own address, and a task before them was popped by one worker or has run once. To be
inductive it needs `HeldTasks` (only between pop and handler does a worker hold a task, so that a pop
overwrites none) and `RanPosted` (no task of a number still to be posted has run). `LLOnce`, `LLSpec =>
[]LLTaskOnce`, for any workers and tasks: `LLHeld` is its counterpart of `HeldTasks`, and `LLLinks` says of the
tasks owed that `tnext` leads to the next younger one owed and `tprev` back. The property collects the list by a
recursive function along `tnext`; that this function yields the owed tasks below a task is shown from its equation.

**Programs that fork** (`ServersProof`). `EveryByteOnce`, `MmSpec => []MmapCopies`, for every file length
and every number of processes (`MmapCopyAssumption`): the invariant adds to the property what each process has
written so far (`MmProgress`): a byte's writers own it, and a child that exited, or the parent past its own
block, has written its whole span. The spans are disjoint (`SpansDisjoint`) and the parent's, which takes the
rest of the division, reaches to the end (`SpansCover`); these are where a quotient of 0 or a remainder would
hurt. `ZombiesCounted`, `ForkSpec => []ForkZombies`, for finitely many clients and every number of messages
(`ForkEchoAssumption`): the bound on zombies survives the start of a child only because the client of a new
child has none yet, which is what `Waiting` says of the accept queue and of main's hands, and `Answered`
follows a child through its reads and writes.

**Connect and the poll chat server** (`TalkAndStringsProof`). `ConnectReported`, `TcSpec => []ConnectHonest`, has no constants;
its invariant says what is known at each position of the function (an error that is due is in `SO_ERROR` until it
is fetched). `TableKept`, `MySpec => []MytalkSound`, for finitely many clients and every `LIMIT` and number of
messages (`MyTalkAssumption`). The rows in use, the descriptors and the open connections are one to one
(`RowsUsed` to `OpenOwned`); moving the last row into the place of one that leaves keeps all five only
together. `StillUnread` says that rows the loop has not yet reached still have what `poll` reported, although
rows move underneath it: without it, `recv` returning 0 could not be excluded. `Least` (a set of naturals has
a least element) gives that `accept` finds a descriptor.

**Copy over io_uring** (`RingsProof`). `CopyKept`, `CpSpec => []CopySound`, for every depth `QD`, block size `BS` and file
size (`CpAssumption`). An `io_data` describes what is left of its block (`Described`), a completion belongs to
one request and what it reports has moved (`Completed`), blocks before `offset` were started, and those that
are finished are in the file (`Started`), `reads` and `writes` are the cardinalities of the sets of live
requests, and `write_left` counts the bytes whose read has not completed (`Counted`). The last is the heart:
the loop ends when `write_left` is 0, and only because it counts exactly those bytes does that mean that every
read has become a write, so that the last loop waits for all of them (`Ending`). The arithmetic of blocks
(`Apart`, `BlocksApart`, `BlockOf`, `StartsCount`) says that blocks do not overlap and every byte is in one.

**Echo server and cat over io_uring** (`RingsProof`). `UringKept`, `UtSpec => []UringSound`. The invariant `UtInv`
says that what is under way for the listening socket is one accept and for each open connection one request,
counted over what is prepared, in the kernel and completed (`OneEach`), and that bytes in a buffer are of the
connection its number now stands for, or a read is under way that will replace them (`OwnBytes`, `GotOwn`). Only the first makes
the second inductive: a number is given to the next peer when no request of the last one is left. `CatKept`,
`CatSpec => []CatPrints`, for every ring size and wrap of the cursors: one request is under way at most, and both
rings are where its stage says (`RingsRun`); the vectors cut the file into blocks, the last one shorter
(`Shaped`), and hold the file once the request is done, unless a read came back short; with that, `CatPrints` carries over to the next file.
A file whose size the `int` holds has as many blocks as the loop makes vectors (`CountsWhole`, `CastKeeps`); of any other
there are fewer counted (`CastLoses`), so that it never reaches the kernel, and `Narrowed` says that all files printed are of the
first kind. That the blocks joined are the file rests on three lemmas about `FlattenSeq`
(`JoinExists`, `JoinOne`, `FlattenStep`) and `BlocksJoin`.

**Chat server with processes** (`TalkAndStringsProof`). `UsersKept`, `ShmSpec => []ShmTable`. The invariant is the types, the
property, and `RowsUnreaped`: a row of the table has a process that was started and not yet reaped, and
`sub_process` leads back to the row. The parent moves its last row into the place of a reaped one, and several
exits may be reaped at once, so the count of the table is compared with the set of the unreaped, one removal at a time.

**Chat server with threads, tinyhttpd** (`ClientServersProof`). `ChatKept`, `ChatSpec => []ChatSound`. Of the parts of `ChatInv`,
`Queued` and `Accepted` say which clients have a thread, `OneWriter` and `InOrder` that under the mutex every client
has been written the same messages up to the one being written, and while the run is `orderly`, `OwnSocks`, `TableHolds` and
`Reached` say that each thread knows its own socket, the table has each client in one of its first `client_count` words,
and whoever was written the last message already is behind a word the writer has passed. Nothing bounds the clients by `MAX_CLIENT`:
`Overflows` says that main was lost with as many clients present as the table has places, which follows from the count. `HttpdKept`, `HttpdSpec => []HttpdTidy`: `ChildOk` follows a
client's script through the stages of its thread (what it wrote is relayed or in the pipe), `EndsOk` says which ends
of its pipes the server holds at which stage. Other threads' children hold copies too; they are no part of it.

**Epoll servers** (`ServersProof`). `EsKept`, `EsSpec => []EsSound`, for all ten programs at once: `BatchReady` says what the events
returned and not yet handled still promise (a listening socket in the batch has somebody to accept where the program
would stop for lack of one), `EchoOk` that what was echoed to a peer are bytes received of it, in ascending order (`Ordered`) and, up
to a write that was cut short, without gaps (`Whole`). The exits are what remains when these leave no other: `Exhausted` at an accept
of server-30, a reset at a read of `no-use_EPOLLRDHUP_server.c`.

**HTTP parser** (`ClientServersProof`). `ChunksParsed`, `HpSpec => []HttpChunks`, for every `MaxWire`, so every request over
the symbols, and every size of the buffer (`HttpParserAssumption`). `parse_content` is a recursive function over the place it has reached. Two things are shown of it by
the least number of turns that remain: a run from any place the parser can stop at (`Stood`: what it has put behind itself is what the whole
request says up to there) ends as the run from the start does, and what it ends with is the `Verdict` (`Right`), which reads a
request without buffer, cursors or pieces. So it does not matter where a piece ended, between a carriage return and its line feed included.

**Timer lists** (`SortTimerListProof`). What the sorted list does, for any finite set of timers (`NamesOk`) and both values
of `Returns`, which tells the version with the return in `add_timer` from the one without. A
list is described by a set of timers and a height for each: `next` leads down by one, `prev` up by one, `expire` ascends
(`Chain`, `Back`, `Linked`). `AddKeeps`, `DelKeeps`, `AdjustKeeps` and `TickKeeps` say what each call makes of such a list, over
`InsertKeeps` and `CutKeeps`. The version without the return leaves the head of a list its own `prev` at times;
`HeadBack` allows just that, and the lemmas hold all the same. The operations follow `next` by recursive functions, and the library's theorems on
recursion cannot be used. What such a function yields is shown in two steps: the intended values satisfy its
equation, so `CHOOSE` takes a function that does; and two that satisfy it agree, since there is no least height where they
differ (`Least`). `SoundAdd`, `SoundMove`, `SoundRemove` and `SoundTick` state the same without heights, for whoever uses a list.

**Inactive connections** (`ClientServersProof`). `NonActiveKept`, `NcSpec => []NcSound`. The list is the instance `Lst` of the
lemmas above. `NcInv` has the types, that an event is in the batch once and still so when
its turn comes (`Reported`), that signals in the pipe and an alarm that is due are not lost (`NcSignals`), and, where time is watched, that
the list's timers are the open connections, each due three slots after it was heard, with the alarm set before any of them is
a slot overdue (`Timing`).

**Timer containers** (`TimerContainersProof`), for any finite set of timers, number of slots, capacity, delays and bound of the
clock (`ContainersAssumption`):

| Theorem | Statement |
|---|---|
| `ContainersKept` | `Spec => []ContainersSound`: both lists fire the same and stay linked and sorted, the wheel's slots hold their own timers, linked both ways, the heap is ordered and holds nothing twice |
| `ContainersServe` | `Spec => ImplementsService`: with each container, every step of the client is a step of `TimerService` or leaves it alone |

One invariant per container joins its structure to what the client was promised (`ListsOk`, `WheelOk`, `HeapOk`), and `ClientOk`
says that the containers not in use stay as constructed. Neither theorem holds of the structure alone: `Fire` needs that the time a
timer has in its container is the time promised. On the list and the heap that is `expire`; on the wheel
it is `Time`: the turns made, the way from the current slot to the timer's (`Gap`) and its rotations times `N`.
`GapStarts` says that `add_timer` splits a delay correctly, `GapTurns` that each turn brings every timer one
nearer, the one that passes its slot included, which loses a rotation instead; these are where an
off-by-one of slot or rotation would show. The wheel is described by heights like the list, slot by slot (`Tidy`), `UnlinkTidy` and `PutTidy` are
its two operations, and `tick`, a fold over the expired timers, is a recursive function over sets (`SweepTidy`).
The heap is described by the array and the place from which it is ordered (`HeapAt`, `OrderedFrom`). `percolate_down` and the climb in `add_timer`
are paths (`Down`, `Up`) along which the timers move by one place (`Sifted`, `Risen`); `PopTimer` and `Resize` follow, `tick` is as many pops as
find the first timer due (`AllLeave`, `Ticks`), and the constructor over an array orders it from the last parent to the root
(`AllBuilt`).

**Strings** (`TalkAndStringsProof`). `SdsStays`, `SdsSpec => []SdsFits`, for every width of the headers, letters and lengths
(`SdsAssumption`). `Fits` says of a string that its length is in its recorded space, that in its block, that its
header's fields can hold both, and that its text is set and terminated; there is one lemma per call. Inside a call the
terminator may be missing (`Loose`), and between `sdsMakeRoomFor` and the new length only the space is known
(`Sized`). `FieldHolds` is where a header too small for a length would show. `sdscatfmt` keeps one byte free at each turn of its
loop (`ItemFits`); its format is folded over from the equation of the function behind `FoldLeft` (`FoldFmt`, `FoldSrc`).

**Links of epollhttpd** (`TalkAndStringsProof`). `LinksKept`, `EhSpec => []LinksLeadBack`, for every set of characters, length of
names and size of the buffer (`EpollHttpdAssumption`). `Coded` says that a text is some characters in a row, each plain or
escaped; two such texts joined are one (`CodedCat`), and `decode_str` makes exactly those characters of it, shown from the last one backwards on
the equation of its recursive function (`CodedDecodes`). The invariant is that the name escaped so far is the coded form of a beginning of the
name, of all of it while the buffer has room (`HasEncoded`), and fits; a turn of `encode_str` keeps it (`MoreFits`).

The bounds TLC needs (`MaxLines`, `MaxPosts`, ...) are arbitrary natural numbers in the proofs.

## 6. What is model-checked only

* Liveness (`EventuallyWritten`, `WaiterServed`, `QuitJoins`, ...) and anything that needs ENABLED: the prover does not do them.
* What a call makes of a text (`SdsKeepsText`, the other half of `SdsSound`): numbers that read back are an induction over
  their digits. `SdsSplitJoins` compares recursive functions of texts and needs one over the text.

## 7. Hazards

`PROJECT.json` lists, at its line, what in this code is hard to reach by a test, with the properties that
would notice. A note says where the code makes no promise a property could state. Not in that list, and of the same
kind: the deadline of the timed pop (which is not the time-out asked for), a day that goes backwards in the log, a close
hidden behind data on an edge in `13-4`, a realloc in `sds.c:165` whose failure is tested on the wrong variable.

Small disagreements met on the way that no run is about: `sdscmp` compares over the length of the longer string (left
out), `sdsupdatelen` builds a new string and drops it (left out); tinyhttpd's `cat` drops a last line
without newline, an unimplemented method is answered 501 and then served all the same, `fclose(NULL)` follows a file that
does not open; `io_uring-cp` ends with an error when the completion queue is empty for a moment, and takes a short
last write for a whole one (`CopySound` exempts what its history variable `cut` marks); in `11-3`, the static
`epollfd` that `cb_func` uses is hidden by main's, and only the close takes the descriptor out of epoll; in
`mmap-multiprocess-copy.c` the parent returns without waiting, although the comment at line 120 speaks of waiting for the
copy to end; `chat_server.c` drops the successor of whoever leaves (`ChatSound` excepts what `orderly` marks);
`tcp_server_iouring.c` sends a client its buffer again and again and never reads from it a second time; `use-io_uring-cat.c`
casts the size of a file to `int` (`:232`, `:268`), so that no file of 2^31 bytes or more is printed; `sdsIncrLen` casts its
argument to `unsigned int` inside its assertions, which a caller that cuts 2^32 bytes or more would pass; an epoll server loses what its
socket has no room for, `echo_epoll_server.c` then waits for the peer that does not read, and server-30 exits when it runs
out of descriptors; `chat_server.c` never compares `client_count` with `MAX_CLIENT`.

Failures that the code does not look at and the models leave out: in the log, an `fopen` that fails on rotation; in `13-4`, a
pid not below `PROCESS_LIMIT`; in `9-5`, a `socket` that fails; in the mmap copies, an `mmap` that fails; in `chat_server.c`, an `accept`
that fails. The cut of `sdsIncrLen` is modelled for numbers that an `unsigned int` holds.

## 8. Not modelled, and the plan

Not modelled for good: programs that show one call in a straight line (most of `system-programming`,
`yinshengyu`, `c-plus-plus-basic`), `webserver.h` and `sylar` (declarations), `kvstore` (its stores are not there),
`http-server-lingsheng-reactor.c` (breaks off after two helpers), the event loop of `epollhttpd` (nobody calls its handlers),
the libevent demos (callbacks of a library), programs that do not compile (`echo_EPLT_server.c`),
`echo_EPET_server.c` (`accept` writes a 16-byte address over an `int`, and the outcome depends on the frame's layout),
the EPOLLOUT servers (one never reads, the other counts from an uninitialised `hasSend`).

Next, in this order:

1. `http_conn`'s own parser, which shares much with `HttpParser`; the two-process exchange over mmap; the semaphore and
   lock-order exercises `13-3` and `14-1`.
2. Deeper questions about what is there: `OneShot` with two peers, larger instances of `ChatServer`.
3. Proofs: that the bytes of an sds string are what a call is to leave there (`SdsKeepsText`), for the calls without numbers.
