---------------------------- MODULE MCLogAndPool ----------------------------
(***************************************************************************)
(* The model-checking instance of two parts of the web server that all its *)
(* threads share: a run is a run of the log or of the database connection  *)
(* pool.                                                                   *)
(***************************************************************************)
EXTENDS AsyncLog, ConnPool

VARIABLE part
mcVars == <<part, vars, poolVars>>

MCInit == /\ part \in {"log", "pool"} /\ Init
          /\ LogInit /\ (part # "log" => max_queue_size = 0)

MCNext == /\ part' = part
          /\ \/ part = "log" /\ LogNext /\ UNCHANGED poolVars
             \/ part = "pool" /\ Next /\ UNCHANGED vars

(* The fairness of each part, while it is the one that runs. *)
MCSpec == /\ MCInit /\ [][MCNext]_mcVars
          /\ WF_vars(part = "log" /\ Writer)
          /\ \A t \in Loggers : WF_vars(part = "log" /\ Step(t) /\ logPc[t] # "idle")
          /\ \A t \in Threads : /\ WF_poolVars(part = "pool" /\ TakeFront(t))
                                /\ SF_poolVars(part = "pool" /\ ReserveWait(t))
                                /\ WF_poolVars(part = "pool" /\ ReleaseConnection(t))
=============================================================================
