------------------------------ MODULE SpinPool ------------------------------
(***************************************************************************)
(* system-programming/threadpool/spinlock-version: the thread pool, its     *)
(* task queue (a singly linked list with a pointer to its last link) and    *)
(* the program of test-thread_pool.c, which posts until the pool refuses.   *)
(* A spinlock or mutex section, an atomic access and a signal are one       *)
(* action each.  A link is a task or Head, the queue's head itself.         *)
(***************************************************************************)
EXTENDS Integers, Sequences, FiniteSets

CONSTANTS SpinWorkers, Main,
          Limit,      \* the test's 1000: the task that reaches it terminates the pool
          MaxPosts    \* bound: how many tasks the test posts

ASSUME SpinAssumption == /\ IsFiniteSet(SpinWorkers) /\ Main \notin SpinWorkers
                         /\ Limit \in Nat \ {0} /\ MaxPosts \in Nat

VARIABLES head, tail, next, block, quit,
          at,        \* at[x]: where the worker or the main thread x is
          task,      \* task[w]: the task w has popped, 0 if none
          posted,    \* how many tasks were added; they are numbered from 1
          ran,       \* the tasks whose handler was called, in order
          done       \* the test's counter

Head0 == 0           \* as a value of tail: &task_queue->head; as a task: NULL
Threads == SpinWorkers \cup {Main}
queueVars == <<head, tail, next>>
spinVars == <<head, tail, next, block, quit, at, task, posted, ran, done>>

SpinInit == /\ head = Head0 /\ tail = Head0 /\ next = [k \in 1 .. MaxPosts |-> 0]
            /\ block = 1 /\ quit = 0
            /\ at = [x \in Threads |-> IF x = Main THEN "create" ELSE "unborn"]
            /\ task = [w \in SpinWorkers |-> 0]
            /\ posted = 0 /\ ran = <<>> /\ done = 0

Goto(x, step) == at' = [at EXCEPT ![x] = step]
Asleep == {w \in SpinWorkers : at[w] = "asleep"}
Unborn == {w \in SpinWorkers : at[w] = "unborn"}

-----------------------------------------------------------------------------
(* __threads_create: a worker runs as soon as it is created.  When         *)
(* pthread_create fails, those created so far are terminated and joined.   *)
CreateWorker(w) ==
    /\ at[Main] = "create" /\ w \in Unborn
    /\ at' = [at EXCEPT ![w] = "loop", ![Main] = IF Unborn = {w} THEN "post" ELSE "create"]
    /\ UNCHANGED <<queueVars, block, quit, task, posted, ran, done>>
CreateFails ==
    /\ at[Main] = "create"
    /\ Goto(Main, "quit")
    /\ UNCHANGED <<queueVars, block, quit, task, posted, ran, done>>

(* thread_pool_post: the test of quit, __add_task, and its signal, which   *)
(* is sent without the mutex.  Without memory for a task the post fails,   *)
(* and the test waits for workers that nobody has told to quit.            *)
PostCheck ==
    /\ at[Main] = "post" /\ (quit = 1 \/ posted < MaxPosts)
    /\ Goto(Main, IF quit = 1 THEN "join" ELSE "add")
    /\ UNCHANGED <<queueVars, block, quit, task, posted, ran, done>>
PostFails ==
    /\ at[Main] = "post" /\ quit = 0
    /\ Goto(Main, "join")
    /\ UNCHANGED <<queueVars, block, quit, task, posted, ran, done>>
AddTask ==
    /\ at[Main] = "add"
    /\ LET k == posted + 1 IN
         /\ IF tail = Head0 THEN head' = k /\ next' = [next EXCEPT ![k] = 0]
            ELSE head' = head /\ next' = [next EXCEPT ![k] = 0, ![tail] = k]
         /\ tail' = k /\ posted' = k
    /\ Goto(Main, "signal")
    /\ UNCHANGED <<block, quit, task, ran, done>>
Signal ==
    /\ at[Main] = "signal"
    /\ \/ Asleep = {} /\ Goto(Main, "post")
       \/ \E w \in Asleep : at' = [at EXCEPT ![w] = "pop", ![Main] = "post"]
    /\ UNCHANGED <<queueVars, block, quit, task, posted, ran, done>>

(* The pthread_join loop of thread_pool_waitdone and of __threads_terminate. *)
Join ==
    /\ at[Main] = "join" /\ \A w \in SpinWorkers : at[w] \in {"exited", "unborn"}
    /\ Goto(Main, "done")
    /\ UNCHANGED <<queueVars, block, quit, task, posted, ran, done>>

(* thread_pool_terminate and __threads_terminate: store quit, __nonblock.  *)
StoreQuit(x) ==
    /\ at[x] = "quit" /\ quit' = 1
    /\ Goto(x, "nonblock")
    /\ UNCHANGED <<queueVars, block, task, posted, ran, done>>
NonblockKeeps(x) ==                                              \* mutant
    /\ at[x] = "nonblock"
    /\ Goto(x, "broadcast")
    /\ UNCHANGED <<queueVars, block, quit, task, posted, ran, done>>
Nonblock(x) ==
    /\ at[x] = "nonblock" /\ block' = 0
    /\ Goto(x, "broadcast")
    /\ UNCHANGED <<queueVars, quit, task, posted, ran, done>>
Broadcast(x) ==
    /\ at[x] = "broadcast"
    /\ at' = [y \in Threads |-> IF y \in Asleep THEN "pop"
                               ELSE IF y = x THEN (IF x = Main THEN "join" ELSE "loop") ELSE at[y]]
    /\ UNCHANGED <<queueVars, block, quit, task, posted, ran, done>>
Terminate(x) == StoreQuit(x) \/ Nonblock(x) \/ Broadcast(x)

-----------------------------------------------------------------------------
(* __thread_pool_worker *)
WorkerLoop(w) ==
    /\ at[w] = "loop"
    /\ Goto(w, IF quit = 0 THEN "pop" ELSE "exited")
    /\ UNCHANGED <<queueVars, block, quit, task, posted, ran, done>>

PopTaskKeepsTail(w) ==                                           \* mutant
    /\ at[w] = "pop"
    /\ IF head = 0 THEN Goto(w, "lock") /\ UNCHANGED <<queueVars, task>>
       ELSE /\ task' = [task EXCEPT ![w] = head]
            /\ head' = next[head] /\ UNCHANGED <<next, tail>>
            /\ Goto(w, "run")
    /\ UNCHANGED <<block, quit, posted, ran, done>>
PopTask(w) ==
    /\ at[w] = "pop"
    /\ IF head = 0 THEN Goto(w, "lock") /\ UNCHANGED <<queueVars, task>>
       ELSE /\ task' = [task EXCEPT ![w] = head]
            /\ head' = next[head] /\ UNCHANGED next
            /\ tail' = IF head' = 0 THEN Head0 ELSE tail
            /\ Goto(w, "run")
    /\ UNCHANGED <<block, quit, posted, ran, done>>

(* __get_task found nothing: it takes the mutex, tests block and sleeps,   *)
(* without a second look at the queue.                                     *)
LockAndWait(w) ==
    /\ at[w] = "lock"
    /\ Goto(w, IF block = 0 THEN "exited" ELSE "asleep")
    /\ UNCHANGED <<queueVars, block, quit, task, posted, ran, done>>
SpuriousWakeup(w) ==
    /\ at[w] = "asleep"
    /\ Goto(w, "pop")
    /\ UNCHANGED <<queueVars, block, quit, task, posted, ran, done>>

(* The test's do_task; `done` is read again after the unlock. *)
RunTask(w) ==
    /\ at[w] = "run"
    /\ ran' = Append(ran, task[w]) /\ task' = [task EXCEPT ![w] = 0]
    /\ done' = done + 1
    /\ Goto(w, "test")
    /\ UNCHANGED <<queueVars, block, quit, posted>>
TestDone(w) ==
    /\ at[w] = "test"
    /\ Goto(w, IF done >= Limit THEN "quit" ELSE "loop")
    /\ UNCHANGED <<queueVars, block, quit, task, posted, ran, done>>

WorkerStep(w) == WorkerLoop(w) \/ PopTask(w) \/ LockAndWait(w) \/ RunTask(w) \/ TestDone(w)
MainStep == (\E w \in SpinWorkers : CreateWorker(w)) \/ PostCheck \/ AddTask \/ Signal \/ Join

SpinNext == \/ MainStep \/ CreateFails \/ PostFails
            \/ \E w \in SpinWorkers : WorkerStep(w) \/ SpuriousWakeup(w)
            \/ \E x \in Threads : Terminate(x)

(* Threads that can run are scheduled; spurious wake-ups and failures need *)
(* not come.                                                               *)
SpinFairness == /\ WF_spinVars(MainStep)
                /\ \A w \in SpinWorkers : WF_spinVars(WorkerStep(w))
                /\ \A x \in Threads : WF_spinVars(Terminate(x))
SpinSpec == SpinInit /\ [][SpinNext]_spinVars /\ SpinFairness

-----------------------------------------------------------------------------
(* The oldest task that is queued, or would be, and how often a task has   *)
(* left the queue: calls of its handler, and workers that hold it.         *)
First == IF head = 0 THEN posted + 1 ELSE head
Taken(k) == Cardinality({i \in DOMAIN ran : ran[i] = k}) + Cardinality({w \in SpinWorkers : task[w] = k})

(* In whatever order additions and pops of several workers come, the links *)
(* lead from head through the tasks in the order of posting to the last    *)
(* one, where tail points, and every task posted is in one place: queued,  *)
(* popped by one worker, or run once.                                      *)
SpinQueueSound ==
    /\ head \in 0 .. posted /\ tail = (IF head = 0 THEN Head0 ELSE posted)
    /\ \A k \in First .. posted : next[k] = IF k = posted THEN 0 ELSE k + 1
    /\ \A k \in 1 .. posted : Taken(k) = IF k < First THEN 1 ELSE 0

(* threadpool.c:103: the workers sleep when there is no task.  (While main *)
(* is about to signal, or a thread to broadcast, the sleep is about to end.)*)
SleepWithoutTask ==
    \/ head = 0 \/ Asleep # SpinWorkers
    \/ \E x \in Threads : at[x] \in {"signal", "quit", "nonblock", "broadcast"}

(* Once the pool is told to quit, every worker leaves, also one that missed *)
(* the signal of a task and one that was about to sleep, and waitdone (or   *)
(* the join of a failed creation) returns.                                  *)
QuitJoins == quit = 1 ~> at[Main] = "done"
=============================================================================
