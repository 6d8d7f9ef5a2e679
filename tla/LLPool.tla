------------------------------- MODULE LLPool -------------------------------
(***************************************************************************)
(* system-programming/threadpool/version1 (version2 is the same code under *)
(* other names): workers and tasks in doubly linked lists made by LL_ADD   *)
(* and LL_REMOVE, one mutex and condition, and the program of test.c.  A   *)
(* mutex section is one action.  thread_pool_create links a worker, and    *)
(* thread_destroy walks the workers, without the mutex.  A worker that has *)
(* freed itself is "freed"; its fields keep their values, and whoever      *)
(* still follows them may go on with those or crash.                       *)
(***************************************************************************)
EXTENDS Integers, Sequences, FiniteSets

CONSTANTS LLWorkers, Nil,
          LLTasks     \* bound: the number of tasks test.c pushes

ASSUME LLAssumption == IsFiniteSet(LLWorkers) /\ Nil \notin LLWorkers /\ LLTasks \in Nat

VARIABLES workers, wnext, termination,
          tasks, tnext, tprev,     \* tasks are numbered from 1, 0 is NULL
          lat,       \* lat[w]: where worker w is
          ltask,     \* ltask[w]: the task get_task returned to w, 0 if none
          lmain,     \* where the main thread is
          lw,        \* main's local `worker`, in creation and in thread_destroy
          pushed,    \* how many tasks were pushed
          lran       \* lran[k]: how often task k was run

listVars == <<tasks, tnext, tprev>>
mainVars == <<workers, wnext, lmain, lw, pushed>>
llVars == <<workers, wnext, termination, listVars, lat, ltask, lmain, lw, pushed, lran>>

LLInit == /\ workers = Nil /\ wnext = [w \in LLWorkers |-> Nil]
          /\ termination = [w \in LLWorkers |-> 0]
          /\ tasks = 0 /\ tnext = [k \in 1 .. LLTasks |-> 0] /\ tprev = [k \in 1 .. LLTasks |-> 0]
          /\ lat = [w \in LLWorkers |-> "unborn"] /\ ltask = [w \in LLWorkers |-> 0]
          /\ lmain = "create" /\ lw = Nil /\ pushed = 0
          /\ lran = [k \in 1 .. LLTasks |-> 0]

LLUnborn == {w \in LLWorkers : lat[w] = "unborn"}
LLAsleep == {w \in LLWorkers : lat[w] = "asleep"}
LLAlive == lmain \notin {"over", "crashed"}     \* the process: main's return ends it

-----------------------------------------------------------------------------
(* thread_pool_create: the thread runs before LL_ADD has linked its worker. *)
CreateThread(w) ==
    /\ lmain = "create" /\ w \in LLUnborn
    /\ lat' = [lat EXCEPT ![w] = "get"]
    /\ lmain' = "link" /\ lw' = w
    /\ UNCHANGED <<workers, wnext, termination, listVars, ltask, pushed, lran>>
LinkKeepsHead ==                                                 \* mutant
    /\ lmain = "link"
    /\ wnext' = [wnext EXCEPT ![lw] = workers] /\ workers' = workers
    /\ lmain' = IF LLUnborn = {} THEN "push" ELSE "create"
    /\ UNCHANGED <<termination, listVars, lat, ltask, lw, pushed, lran>>
LinkWorker ==
    /\ lmain = "link"
    /\ wnext' = [wnext EXCEPT ![lw] = workers] /\ workers' = lw
    /\ lmain' = IF LLUnborn = {} THEN "push" ELSE "create"
    /\ UNCHANGED <<termination, listVars, lat, ltask, lw, pushed, lran>>

(* Creation falls short: test.c destroys the pool and then uses it anyway. *)
CreateFallsShort ==
    /\ lmain = "create" /\ lmain' = "destroy" /\ lw' = workers
    /\ UNCHANGED <<workers, wnext, termination, listVars, lat, ltask, pushed, lran>>

(* thread_pool_push_task: LL_ADD at the head and a signal, under the mutex. *)
PushTask ==
    /\ lmain = "push" /\ pushed < LLTasks
    /\ LET k == pushed + 1 IN
         /\ tnext' = [tnext EXCEPT ![k] = tasks]
         /\ tprev' = [x \in DOMAIN tprev |-> IF x = k THEN 0 ELSE IF x = tasks THEN k ELSE tprev[x]]
         /\ tasks' = k /\ pushed' = k
    /\ \/ LLAsleep = {} /\ UNCHANGED lat
       \/ \E w \in LLAsleep : lat' = [lat EXCEPT ![w] = "get"]
    /\ UNCHANGED <<workers, wnext, termination, ltask, lmain, lw, lran>>

(* thread_destroy, called when getchar returns, if ever.  It marks a       *)
(* worker, then follows its next, by when the worker may have freed itself;*)
(* the broadcast comes under the mutex.  A freed worker is written to and  *)
(* followed as well.                                                       *)
BeginDestroy ==
    /\ lmain = "push" /\ pushed = LLTasks
    /\ lmain' = "destroy" /\ lw' = workers
    /\ UNCHANGED <<workers, wnext, termination, listVars, lat, ltask, pushed, lran>>
Mark ==
    /\ lmain = "destroy" /\ lw # Nil
    /\ \/ termination' = [termination EXCEPT ![lw] = 1] /\ lmain' = "follow"
       \/ lat[lw] = "freed" /\ lmain' = "crashed" /\ UNCHANGED termination
    /\ UNCHANGED <<workers, wnext, listVars, lat, ltask, lw, pushed, lran>>
Follow ==
    /\ lmain = "follow"
    /\ \/ lw' = wnext[lw] /\ lmain' = "destroy"
       \/ lat[lw] = "freed" /\ lmain' = "crashed" /\ UNCHANGED lw
    /\ UNCHANGED <<workers, wnext, termination, listVars, lat, ltask, pushed, lran>>
DestroyBroadcast ==
    /\ lmain = "destroy" /\ lw = Nil
    /\ lmain' = IF pushed = LLTasks THEN "over" ELSE "push"
    /\ lat' = [w \in LLWorkers |-> IF w \in LLAsleep THEN "get" ELSE lat[w]]
    /\ UNCHANGED <<workers, wnext, termination, listVars, ltask, lw, pushed, lran>>

-----------------------------------------------------------------------------
(* get_task: a worker sleeps only while no worker is linked; with workers  *)
(* and no task it goes round without changing anything.                    *)
GetSleeps(w) ==
    /\ lat[w] = "get" /\ workers = Nil /\ termination[w] = 0
    /\ lat' = [lat EXCEPT ![w] = "asleep"]
    /\ UNCHANGED <<mainVars, termination, listVars, ltask, lran>>
TerminatesInWait(w) ==                                           \* mutant
    /\ lat[w] = "get" /\ termination[w] = 1 /\ workers = Nil
    /\ lat' = [lat EXCEPT ![w] = "freed"]
    /\ UNCHANGED <<mainVars, termination, listVars, ltask, lran>>
GetTerminates(w) ==
    /\ lat[w] = "get" /\ termination[w] = 1
    /\ lat' = [lat EXCEPT ![w] = "freed"]
    /\ UNCHANGED <<mainVars, termination, listVars, ltask, lran>>
RemoveHalf(w) ==                                                 \* mutant
    /\ lat[w] = "get" /\ workers # Nil /\ termination[w] = 0 /\ tasks # 0
    /\ ltask' = [ltask EXCEPT ![w] = tasks] /\ tasks' = tnext[tasks]
    /\ tnext' = [tnext EXCEPT ![tasks] = 0]
    /\ lat' = [lat EXCEPT ![w] = "run"]
    /\ UNCHANGED <<mainVars, termination, tprev, lran>>
GetTask(w) ==
    /\ lat[w] = "get" /\ workers # Nil /\ termination[w] = 0 /\ tasks # 0
    /\ ltask' = [ltask EXCEPT ![w] = tasks] /\ tasks' = tnext[tasks]
    /\ tprev' = [x \in DOMAIN tprev |-> IF x \in {tasks, tnext[tasks]} THEN 0 ELSE tprev[x]]
    /\ tnext' = [tnext EXCEPT ![tasks] = 0]
    /\ lat' = [lat EXCEPT ![w] = "run"]
    /\ UNCHANGED <<mainVars, termination, lran>>
SpuriousGet(w) ==
    /\ lat[w] = "asleep"
    /\ lat' = [lat EXCEPT ![w] = "get"]
    /\ UNCHANGED <<mainVars, termination, listVars, ltask, lran>>

(* task->task_func(task), which frees the task. *)
LLRun(w) ==
    /\ lat[w] = "run"
    /\ lran' = [lran EXCEPT ![ltask[w]] = @ + 1] /\ ltask' = [ltask EXCEPT ![w] = 0]
    /\ lat' = [lat EXCEPT ![w] = "get"]
    /\ UNCHANGED <<mainVars, termination, listVars>>

LLMain == \/ (\E w \in LLWorkers : CreateThread(w)) \/ LinkWorker \/ PushTask
          \/ Mark \/ Follow \/ DestroyBroadcast
LLWorker(w) == LLAlive /\ (GetSleeps(w) \/ GetTerminates(w) \/ GetTask(w) \/ LLRun(w))

LLNext == \/ LLMain \/ CreateFallsShort \/ BeginDestroy
          \/ \E w \in LLWorkers : LLWorker(w) \/ (LLAlive /\ SpuriousGet(w))

(* Threads that can run are scheduled, and the mutex is granted in turn,   *)
(* although idle workers keep asking for it; the user of getchar owes      *)
(* nothing.                                                                *)
LLFairness == WF_llVars(LLMain) /\ \A w \in LLWorkers : WF_llVars(LLWorker(w))
LLSpec == LLInit /\ [][LLNext]_llVars /\ LLFairness

-----------------------------------------------------------------------------
LLQueued ==
    LET From[k \in 0 .. LLTasks] == IF k = 0 THEN {} ELSE {k} \cup From[tnext[k]]
    IN  From[tasks]

(* The list of tasks is doubly linked and holds exactly the tasks that are *)
(* pushed, not taken and not run, whichever workers took which.            *)
LLTaskOnce ==
    /\ \A k \in LLQueued : IF k = tasks THEN tprev[k] = 0 ELSE tnext[tprev[k]] = k
    /\ \A k \in 1 .. pushed :
          lran[k] + Cardinality({w \in LLWorkers : ltask[w] = k})
            + (IF k \in LLQueued THEN 1 ELSE 0) = 1

(* A pushed task is run, unless the pool is destroyed or no thread could   *)
(* be created: the worker that went to sleep before LL_ADD linked the      *)
(* first one does not keep the task.  A worker that thread_destroy has     *)
(* marked exits, asleep or busy, unless the process ends first: main       *)
(* returns, or is lost in freed memory.                                    *)
LLServed ==
    /\ \A k \in 1 .. LLTasks :
          (pushed >= k) ~> \/ lran[k] = 1
                           \/ LLUnborn = LLWorkers
                           \/ \E w \in LLWorkers : termination[w] = 1
    /\ \A w \in LLWorkers : (termination[w] = 1) ~> (lat[w] = "freed" \/ ~LLAlive)
=============================================================================
