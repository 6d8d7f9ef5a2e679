----------------------------- MODULE MCThreads -----------------------------
(***************************************************************************)
(* The model-checking instance of the pools of threads: a run is a run of  *)
(* the test program of one of the task pools, of the web server's pool of  *)
(* workers, or of threads that take and leave a spinlock.                  *)
(***************************************************************************)
EXTENDS SpinPool, LLPool, HttpThreadPool, SpinLock

VARIABLE uses
vars == <<uses, spinVars, llVars, httpVars, lockVars>>
Idle(p) == /\ p # "spin" => UNCHANGED spinVars
           /\ p # "ll" => UNCHANGED llVars
           /\ p # "http" => UNCHANGED httpVars
           /\ p # "lock" => UNCHANGED lockVars

Init == /\ uses \in {"spin", "ll", "http", "lock"} /\ SpinInit /\ LLInit
        /\ HttpInit /\ (uses # "http" => m_actor_model = 0)
        /\ LockInit /\ (uses # "lock" => build = "flag")

Next == /\ uses' = uses
        /\ \/ uses = "spin" /\ SpinNext /\ Idle("spin")
           \/ uses = "ll" /\ LLNext /\ Idle("ll")
           \/ uses = "http" /\ HttpNext /\ Idle("http")
           \/ uses = "lock" /\ LockNext /\ Idle("lock")

(* The fairness of each program, while it is the one that runs. *)
Spec == /\ Init /\ [][Next]_vars
        /\ WF_spinVars(uses = "spin" /\ MainStep)
        /\ \A w \in SpinWorkers : WF_spinVars(uses = "spin" /\ WorkerStep(w))
        /\ \A x \in Threads : WF_spinVars(uses = "spin" /\ Terminate(x))
        /\ WF_llVars(uses = "ll" /\ LLMain)
        /\ \A w \in LLWorkers : WF_llVars(uses = "ll" /\ LLWorker(w))
        /\ WF_httpVars(uses = "http" /\ Post)
        /\ \A w \in Workers : /\ WF_httpVars(uses = "http" /\ Work(w))
                              /\ SF_httpVars(uses = "http" /\ Wait(w))
                              /\ SF_httpVars(uses = "http" /\ Connect(w))
=============================================================================
