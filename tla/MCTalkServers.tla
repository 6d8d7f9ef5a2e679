--------------------------- MODULE MCTalkServers ---------------------------
(***************************************************************************)
(* The model-checking instance of the two chat servers of youshuang: a run *)
(* is a run of the one with processes or of the one with poll.             *)
(***************************************************************************)
EXTENDS ShmTalk, MyTalk

VARIABLE uses
vars == <<uses, shmVars, myVars>>

Init == uses \in {"shm", "my"} /\ ShmInit /\ MyInit

Next == /\ uses' = uses
        /\ \/ uses = "shm" /\ ShmNext /\ UNCHANGED myVars
           \/ uses = "my" /\ MyNext /\ UNCHANGED shmVars

Spec == /\ Init /\ [][Next]_vars
        /\ WF_vars(uses = "shm" /\ ShmParent /\ UNCHANGED <<uses, myVars>>)
        /\ WF_vars(uses = "shm" /\ ChldHandler /\ UNCHANGED <<uses, myVars>>)
        /\ \A p \in Pids : /\ WF_vars(uses = "shm" /\ ShmChild(p) /\ UNCHANGED <<uses, myVars>>)
                           /\ WF_vars(uses = "shm" /\ ChildSignal(p) /\ UNCHANGED <<uses, myVars>>)
        /\ WF_vars(uses = "my" /\ MyServer /\ UNCHANGED <<uses, shmVars>>)
=============================================================================
