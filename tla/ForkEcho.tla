------------------------------ MODULE ForkEcho ------------------------------
(***************************************************************************)
(* echo_server.c of yinshengyu, which forks a child for each client, with  *)
(* echo_mpclient.c as its clients: one process of a client writes what is  *)
(* typed and shuts its side down at "q", the other reads until the end.    *)
(*                                                                         *)
(* A connection ends for the client when no process of the server has its  *)
(* descriptor open any more.  SIGCHLD is one bit: the exits of several     *)
(* children before the handler runs are one signal, and the handler reaps  *)
(* one child.  Installed without SA_RESTART, it makes a waiting accept     *)
(* return -1, and main goes round.  A child is known by its client.        *)
(***************************************************************************)
EXTENDS Integers, Sequences, FiniteSets, Functions

CONSTANTS EchoClients, Nobody,
          MaxTyped          \* bound: the messages typed, at all clients together

ASSUME ForkEchoAssumption == /\ IsFiniteSet(EchoClients) /\ EchoClients \subseteq Nat /\ Nobody \notin EchoClients
                             /\ MaxTyped \in Nat

VARIABLES term,       \* term[c]: "idle", "typing", "shut" after "q", "over" after the end
          broken,     \* the connection of c is reset
          typed, returned,   \* typed[c]: messages of c; returned[c]: those c has back
          taken,      \* taken[c]: those the child has read
          queue,      \* the connections accept has not returned yet
          ppc, accepted,     \* main: "accept", "fork", "close"; client_sock
          kid,        \* kid[c]: "none", "read", "write", "zombie", "reaped"
          holders,    \* holders[c]: who has the connection open
          refused,    \* fork failed for these
          sigchld, merged    \* SIGCHLD is pending; how many exits found it pending

forkVars == <<term, broken, typed, returned, taken, queue, ppc, accepted, kid, holders, refused,
              sigchld, merged>>

ForkInit ==
    /\ term = [c \in EchoClients |-> "idle"] /\ broken = [c \in EchoClients |-> FALSE]
    /\ typed = [c \in EchoClients |-> 0] /\ returned = [c \in EchoClients |-> 0]
    /\ taken = [c \in EchoClients |-> 0]
    /\ queue = <<>> /\ ppc = "accept" /\ accepted = Nobody
    /\ kid = [c \in EchoClients |-> "none"] /\ holders = [c \in EchoClients |-> {}]
    /\ refused = {} /\ sigchld = FALSE /\ merged = 0

-----------------------------------------------------------------------------
(* echo_mpclient.c.  The clients are numbered in the order they connect. *)
serverSide == <<returned, taken, ppc, accepted, kid, holders, refused, sigchld, merged>>
MpConnect(c) ==
    /\ term[c] = "idle" /\ \A d \in EchoClients : term[d] = "idle" => c <= d
    /\ term' = [term EXCEPT ![c] = "typing"] /\ queue' = Append(queue, c)
    /\ UNCHANGED <<broken, typed, serverSide>>
write_routine(c) ==
    /\ term[c] = "typing" /\ ~broken[c] /\ FoldFunction(+, 0, typed) < MaxTyped
    /\ typed' = [typed EXCEPT ![c] = @ + 1]
    /\ UNCHANGED <<term, broken, queue, serverSide>>
TypeQ(c) ==
    /\ term[c] = "typing" /\ term' = [term EXCEPT ![c] = "shut"]
    /\ UNCHANGED <<broken, typed, queue, serverSide>>
\* the reading process sees the end: the server has let go of the connection
Released(c) == holders[c] = {} /\ (kid[c] \in {"zombie", "reaped"} \/ c \in refused)
read_routine(c) ==
    /\ term[c] \in {"typing", "shut"} /\ Released(c)
    /\ term' = [term EXCEPT ![c] = "over"]
    /\ UNCHANGED <<broken, typed, queue, serverSide>>
\* the client is killed, or its host reboots
MpAborts(c) ==
    /\ term[c] \in {"typing", "shut"} /\ ~broken[c] /\ broken' = [broken EXCEPT ![c] = TRUE]
    /\ UNCHANGED <<term, typed, queue, serverSide>>

-----------------------------------------------------------------------------
(* main *)
clientSide == <<term, broken, typed>>
ForkAccept ==
    /\ ppc = "accept" /\ queue # <<>>
    /\ accepted' = Head(queue) /\ queue' = Tail(queue) /\ ppc' = "fork"
    /\ holders' = [holders EXCEPT ![Head(queue)] = {"main"}]
    /\ UNCHANGED <<clientSide, returned, taken, kid, refused, sigchld, merged>>
ForkChild ==
    /\ ppc = "fork" /\ ppc' = "close"
    /\ \/ /\ kid' = [kid EXCEPT ![accepted] = "read"]
          /\ holders' = [holders EXCEPT ![accepted] = @ \cup {"child"}]
          /\ refused' = refused
       \/ refused' = refused \cup {accepted} /\ UNCHANGED <<kid, holders>>
    /\ UNCHANGED <<clientSide, returned, taken, queue, accepted, sigchld, merged>>
\* close(client_sock), in the parent and after a fork that failed
MainKeeps ==                                                     \* mutant
    /\ ppc = "close" /\ ppc' = "accept" /\ accepted' = Nobody
    /\ holders' = [holders EXCEPT ![accepted] = IF accepted \in refused THEN @ \ {"main"} ELSE @]
    /\ UNCHANGED <<clientSide, returned, taken, queue, kid, refused, sigchld, merged>>
MainCloses ==
    /\ ppc = "close" /\ ppc' = "accept" /\ accepted' = Nobody
    /\ holders' = [holders EXCEPT ![accepted] = @ \ {"main"}]
    /\ UNCHANGED <<clientSide, returned, taken, queue, kid, refused, sigchld, merged>>

Undead == {c \in EchoClients : kid[c] = "zombie"}
\* waitpid(-1, &status, WNOHANG), once
HandlerWaitsNot ==                                               \* mutant
    /\ sigchld /\ sigchld' = FALSE
    /\ UNCHANGED <<clientSide, returned, taken, queue, ppc, accepted, kid, holders, refused, merged>>
read_child_process ==
    /\ sigchld /\ sigchld' = FALSE
    /\ \/ \E c \in Undead : kid' = [kid EXCEPT ![c] = "reaped"]
       \/ Undead = {} /\ kid' = kid
    /\ UNCHANGED <<clientSide, returned, taken, queue, ppc, accepted, holders, refused, merged>>

-----------------------------------------------------------------------------
(* The child.  A read takes all there is; one of a reset connection fails, *)
(* a write of -1 bytes fails too, and the next read returns 0.             *)
ChildReads(c) ==
    /\ kid[c] = "read" /\ taken[c] < typed[c] /\ ~broken[c]
    /\ taken' = [taken EXCEPT ![c] = typed[c]] /\ kid' = [kid EXCEPT ![c] = "write"]
    /\ UNCHANGED <<clientSide, returned, queue, ppc, accepted, holders, refused, sigchld, merged>>
ChildWrites(c) ==
    /\ kid[c] = "write" /\ ~broken[c]
    /\ returned' = [returned EXCEPT ![c] = taken[c]] /\ kid' = [kid EXCEPT ![c] = "read"]
    /\ UNCHANGED <<clientSide, taken, queue, ppc, accepted, holders, refused, sigchld, merged>>
\* read returns 0, or SIGPIPE
ChildEnds(c) ==
    /\ \/ kid[c] = "read" /\ (broken[c] \/ (taken[c] = typed[c] /\ term[c] = "shut"))
       \/ kid[c] = "write" /\ broken[c]
    /\ kid' = [kid EXCEPT ![c] = "zombie"] /\ holders' = [holders EXCEPT ![c] = @ \ {"child"}]
    /\ sigchld' = TRUE /\ merged' = IF sigchld THEN merged + 1 ELSE merged
    /\ UNCHANGED <<clientSide, returned, taken, queue, ppc, accepted, refused>>

ForkMain == ForkAccept \/ ForkChild \/ MainCloses
ForkKid(c) == ChildReads(c) \/ ChildWrites(c) \/ ChildEnds(c)
ForkNext == \/ ForkMain \/ read_child_process
            \/ \E c \in EchoClients : \/ ForkKid(c) \/ MpConnect(c) \/ write_routine(c) \/ TypeQ(c)
                                      \/ read_routine(c) \/ MpAborts(c)

(* The processes of the server and the reading process of a client are     *)
(* scheduled and a pending signal is delivered; nobody needs to type.      *)
ForkFair == /\ WF_forkVars(ForkMain) /\ WF_forkVars(read_child_process)
            /\ \A c \in EchoClients : WF_forkVars(ForkKid(c)) /\ WF_forkVars(read_routine(c))
ForkSpec == ForkInit /\ [][ForkNext]_forkVars /\ ForkFair

-----------------------------------------------------------------------------
(* A zombie stays only for a SIGCHLD that was merged with another: there   *)
(* are never more of them than that, the one being announced left aside.   *)
(* And no message comes back that was not read, nor after the end.         *)
ForkZombies ==
    /\ Cardinality(Undead) <= merged + (IF sigchld THEN 1 ELSE 0)
    /\ \A c \in EchoClients : kid[c] \in {"zombie", "reaped"} /\ ~broken[c] => returned[c] = typed[c]

(* Clients that have typed "q" read all their messages back and then the   *)
(* end, which one sees only when main's copy of the descriptor is closed   *)
(* as well: unless the fork failed or the connection broke.                *)
ForkAnswers ==
    LET Owed == \E c \in EchoClients : /\ term[c] = "shut" \/ (term[c] = "over" /\ returned[c] # typed[c])
                                      /\ c \notin refused /\ ~broken[c]
    IN Owed ~> ~Owed
=============================================================================
