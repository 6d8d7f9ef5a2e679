--------------------------- MODULE MCEventServer ---------------------------
(***************************************************************************)
(* The model-checking instance of the servers that echo or drop what their *)
(* peers send: a run is a run of one of the epoll servers, with two peers  *)
(* and a buffer of two bytes, or of the one that forks a child per client. *)
(***************************************************************************)
EXTENDS EventServer, ForkEcho

VARIABLE forks
vars == <<forks, esVars, forkVars>>

Init == /\ forks \in BOOLEAN /\ ForkInit
        /\ EsInit /\ (forks => prog = Day03 /\ limit = 1)

(* The peers are numbered in the order they first connect: they differ in  *)
(* nothing else.  Where they cannot all be served at the same time they    *)
(* send a byte less.                                                       *)
Small == /\ \A c, d \in Peers : c < d /\ conn[d] # "idle" => conn[c] # "idle"
         /\ limit < Cardinality(Peers) => traffic < MaxSent

Next == /\ forks' = forks
        /\ \/ ~forks /\ EsNext /\ Small' /\ UNCHANGED forkVars
           \/ forks /\ ForkNext /\ UNCHANGED esVars

(* The fairness of each server, while it is the one that runs. *)
Spec == /\ Init /\ [][Next]_vars
        /\ WF_esVars(~forks /\ EsServer)
        /\ WF_forkVars(forks /\ ForkMain) /\ WF_forkVars(forks /\ read_child_process)
        /\ \A c \in EchoClients : /\ WF_forkVars(forks /\ ForkKid(c))
                                   /\ WF_forkVars(forks /\ read_routine(c))
=============================================================================
