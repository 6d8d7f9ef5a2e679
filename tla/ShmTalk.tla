------------------------------ MODULE ShmTalk ------------------------------
(***************************************************************************)
(* 13-4shm_talk_server.cpp: a chat server with one child process per       *)
(* client.  A child reads its client into its segment of the shared memory *)
(* and tells the parent, over a pipe, the number of the segment; the       *)
(* parent tells the other children, and each of them sends that segment to *)
(* its own client.                                                         *)
(*                                                                         *)
(* Every descriptor is registered with EPOLLET: an event is reported once  *)
(* for an arrival and the handlers read once for an event, so what they    *)
(* leave unread is not reported again.  Handling one event, or one signal  *)
(* byte, is one action.  Messages are short, so a recv on a connection     *)
(* takes all that has arrived, and a message is known by its sender.  A    *)
(* pipe is known by the pid of its child; descriptor numbers are left out. *)
(***************************************************************************)
EXTENDS Integers, Sequences, FiniteSets

CONSTANTS Conns, Pids, USER_LIMIT, Empty,
          MaxInputs,    \* bound: messages of the clients and SIGTERM or SIGINT of the user, together
          MaxBytes      \* bound: the bytes in the signal pipe when a child adds one

ASSUME ShmAssumption == /\ IsFiniteSet(Conns) /\ Conns \subseteq Nat /\ Empty \notin Conns
                        /\ IsFiniteSet(Pids)
                        /\ USER_LIMIT \in Nat \ {0} /\ MaxInputs \in Nat /\ MaxBytes \in Nat
                        /\ Cardinality(Pids) >= USER_LIMIT

Slots == 0 .. USER_LIMIT     \* users has USER_LIMIT + 1 entries

VARIABLES cs,        \* cs[c]: "idle", "queued", "open", or "closed" by the server
          unread,    \* unread[c]: c has sent what the server has not received
          fin,       \* fin[c]: c has closed its end
          inputs,    \* how many messages and signals there were
          backlog,   \* the connections accept has not returned yet
          users,     \* users[i].pid of the parent
          user_count, sub_process, terminate, stop_server,
          pready, pbatch,    \* events of the parent's epoll: pending, and returned
          sigpipe, signals,  \* sig_pipefd, and the bytes read from it but not yet handled
          chld,              \* SIGCHLD is pending for the parent
          child,     \* child[p]: "none", "start", "check", "wait", "batch", "zombie"
          idx, conn, stop_child, term,   \* idx, connfd, stop_child of p; SIGTERM is pending
          cready, cbatch,    \* events of the child's epoll: "conn" and "pipe"
          up, down,  \* up[p], down[p]: the indices in the pipe, to and from the parent
          share_mem, \* share_mem[i]: the sender of the message in segment i
          out        \* out[c]: the sender of the message last sent to c

netVars == <<cs, unread, fin, inputs, backlog>>
tableVars == <<users, user_count, sub_process>>
parentVars == <<tableVars, terminate, stop_server, pready, pbatch, sigpipe, signals, chld>>
childVars == <<child, idx, conn, stop_child, term, cready, cbatch>>
pipeVars == <<up, down, share_mem, out>>
shmVars == <<netVars, parentVars, childVars, pipeVars>>

ShmInit ==
    /\ cs = [c \in Conns |-> "idle"] /\ backlog = <<>> /\ inputs = 0
    /\ unread = [c \in Conns |-> FALSE] /\ fin = [c \in Conns |-> FALSE]
    /\ users = [i \in Slots |-> Empty] /\ user_count = 0
    /\ sub_process = [p \in Pids |-> -1]
    /\ terminate = FALSE /\ stop_server = FALSE
    /\ pready = {} /\ pbatch = {} /\ sigpipe = <<>> /\ signals = <<>> /\ chld = FALSE
    /\ child = [p \in Pids |-> "none"] /\ idx = [p \in Pids |-> 0]
    /\ conn = [p \in Pids |-> Empty] /\ stop_child = [p \in Pids |-> FALSE]
    /\ term = [p \in Pids |-> FALSE]
    /\ cready = [p \in Pids |-> {}] /\ cbatch = [p \in Pids |-> {}]
    /\ up = [p \in Pids |-> <<>>] /\ down = [p \in Pids |-> <<>>]
    /\ share_mem = [i \in 0 .. USER_LIMIT - 1 |-> Empty] /\ out = [c \in Conns |-> Empty]

Live == {p \in Pids : child[p] \notin {"none", "zombie"}}
Registered == {p \in Live : child[p] # "start"}     \* addfd has been done
ServerUp == ~(stop_server /\ pbatch = {} /\ signals = <<>>)

(* An arrival on connection c is an edge for the child that has it. *)
EdgeOf(c) == cready' = [p \in Pids |-> IF p \in Registered /\ conn[p] = c
                                        THEN cready[p] \cup {"conn"} ELSE cready[p]]

-----------------------------------------------------------------------------
(* The clients, numbered in the order of their connecting, and the user of *)
(* the server.                                                             *)
Connect(c) ==
    /\ cs[c] = "idle" /\ (\A d \in Conns : cs[d] = "idle" => c <= d) /\ ServerUp
    /\ cs' = [cs EXCEPT ![c] = "queued"] /\ backlog' = Append(backlog, c)
    /\ pready' = pready \cup {"listen"}
    /\ UNCHANGED <<unread, fin, inputs, tableVars, terminate, stop_server, pbatch, sigpipe, signals,
                   chld, childVars, pipeVars>>
ClientSend(c) ==
    /\ cs[c] \in {"queued", "open"} /\ ~fin[c] /\ inputs < MaxInputs
    /\ inputs' = inputs + 1 /\ unread' = [unread EXCEPT ![c] = TRUE] /\ EdgeOf(c)
    /\ UNCHANGED <<cs, fin, backlog, parentVars, child, idx, conn, stop_child, term, cbatch, pipeVars>>
ClientClose(c) ==
    /\ cs[c] \in {"queued", "open"} /\ ~fin[c]
    /\ fin' = [fin EXCEPT ![c] = TRUE] /\ EdgeOf(c)
    /\ UNCHANGED <<cs, unread, inputs, backlog, parentVars, child, idx, conn, stop_child, term, cbatch, pipeVars>>

(* sig_handler, for SIGTERM or SIGINT and for SIGCHLD: a byte for the loop. *)
SignalByte(s) == sigpipe' = Append(sigpipe, s) /\ pready' = pready \cup {"sig"}
UserTerm ==
    /\ ServerUp /\ inputs < MaxInputs /\ inputs' = inputs + 1 /\ SignalByte("term")
    /\ UNCHANGED <<cs, unread, fin, backlog, tableVars, terminate, stop_server, pbatch, signals, chld, childVars, pipeVars>>
ChldHandler ==
    /\ ServerUp /\ chld /\ chld' = FALSE /\ SignalByte("chld")
    /\ UNCHANGED <<netVars, tableVars, terminate, stop_server, pbatch, signals, childVars, pipeVars>>

-----------------------------------------------------------------------------
(* The parent's loop.  A batch is handled before stop_server is looked at. *)
Idle == pbatch = {} /\ signals = <<>>
ParentWait ==
    /\ Idle /\ ~stop_server /\ pready # {}
    /\ pbatch' = pready /\ pready' = {}
    /\ UNCHANGED <<netVars, tableVars, terminate, stop_server, sigpipe, signals, chld,
                   childVars, pipeVars>>
Handles(e) == e \in pbatch /\ signals = <<>> /\ pbatch' = pbatch \ {e}

AcceptNone ==
    /\ Handles("listen") /\ backlog = <<>>
    /\ UNCHANGED <<netVars, tableVars, terminate, stop_server, pready, sigpipe, signals, chld,
                   childVars, pipeVars>>
(* Too many users, or fork fails: the connection is closed. *)
AcceptCloses ==
    /\ Handles("listen") /\ backlog # <<>>
    /\ cs' = [cs EXCEPT ![Head(backlog)] = "closed"] /\ backlog' = Tail(backlog)
    /\ UNCHANGED <<unread, fin, inputs, tableVars, terminate, stop_server, pready, sigpipe, signals, chld,
                   childVars, pipeVars>>
(* The kernel gives any pid that is free, and it does not matter which. *)
FreePid == CHOOSE p \in Pids : child[p] = "none"
AcceptForks ==
    LET p == FreePid IN
    /\ Handles("listen") /\ backlog # <<>> /\ user_count < USER_LIMIT
    /\ cs' = [cs EXCEPT ![Head(backlog)] = "open"] /\ backlog' = Tail(backlog)
    /\ users' = [users EXCEPT ![user_count] = p]
    /\ sub_process' = [sub_process EXCEPT ![p] = user_count]
    /\ user_count' = user_count + 1
    /\ child' = [child EXCEPT ![p] = "start"] /\ idx' = [idx EXCEPT ![p] = user_count]
    /\ conn' = [conn EXCEPT ![p] = Head(backlog)] /\ stop_child' = [stop_child EXCEPT ![p] = FALSE]
    /\ UNCHANGED <<unread, fin, inputs, terminate, stop_server, pready, sigpipe, signals, chld,
                   term, cready, cbatch, pipeVars>>

ReadSignals ==
    /\ Handles("sig")
    /\ signals' = sigpipe /\ sigpipe' = <<>>
    /\ UNCHANGED <<netVars, tableVars, terminate, stop_server, pready, chld, childVars, pipeVars>>

(* One turn of the waitpid loop: the last user takes the place of the one  *)
(* whose process is reaped.                                                *)
Zombies == {p \in Pids : child[p] = "zombie"}
DropUserKeeps(p) ==                                              \* mutant
    LET del == sub_process[p] IN
    /\ users' = [users EXCEPT ![del] = users[user_count - 1]]
    /\ user_count' = user_count - 1
    /\ sub_process' = [sub_process EXCEPT ![p] = -1]
DropUser(p) ==
    LET del == sub_process[p] IN
    /\ users' = [users EXCEPT ![del] = users[user_count - 1]]
    /\ user_count' = user_count - 1
    /\ sub_process' = [sub_process EXCEPT ![p] = -1, ![users'[del]] = del]
ReapOnce(p) ==                                                   \* mutant
    /\ signals # <<>> /\ Head(signals) = "chld" /\ p \in Zombies
    /\ signals' = Tail(signals)
    /\ child' = [child EXCEPT ![p] = "none"] /\ up' = [up EXCEPT ![p] = <<>>]
    /\ IF sub_process[p] < 0 \/ sub_process[p] > USER_LIMIT
         THEN UNCHANGED <<users, user_count, pready, pbatch>> /\ sub_process' = [sub_process EXCEPT ![p] = -1]
         ELSE DropUser(p) /\ pready' = pready \ {p} /\ pbatch' = pbatch \ {p}
    /\ UNCHANGED <<netVars, terminate, stop_server, sigpipe, chld, idx, conn,
                   stop_child, term, cready, cbatch, down, share_mem, out>>
Reap(p) ==
    /\ signals # <<>> /\ Head(signals) = "chld" /\ p \in Zombies
    /\ child' = [child EXCEPT ![p] = "none"] /\ up' = [up EXCEPT ![p] = <<>>]
    /\ IF sub_process[p] < 0 \/ sub_process[p] > USER_LIMIT
         THEN UNCHANGED <<users, user_count, pready, pbatch>> /\ sub_process' = [sub_process EXCEPT ![p] = -1]
         ELSE DropUser(p) /\ pready' = pready \ {p} /\ pbatch' = pbatch \ {p}
    /\ UNCHANGED <<netVars, terminate, stop_server, sigpipe, signals, chld, idx, conn,
                   stop_child, term, cready, cbatch, down, share_mem, out>>
ReapedAllStays ==                                                \* mutant
    /\ signals # <<>> /\ Head(signals) = "chld" /\ Zombies = {}
    /\ signals' = Tail(signals) /\ stop_server' = stop_server
    /\ UNCHANGED <<netVars, tableVars, terminate, pready, pbatch, sigpipe, chld, childVars, pipeVars>>
ReapedAll ==
    /\ signals # <<>> /\ Head(signals) = "chld" /\ Zombies = {}
    /\ signals' = Tail(signals)
    /\ stop_server' = (stop_server \/ (terminate /\ user_count = 0))
    /\ UNCHANGED <<netVars, tableVars, terminate, pready, pbatch, sigpipe, chld, childVars, pipeVars>>
KillChildren ==
    /\ signals # <<>> /\ Head(signals) = "term" /\ signals' = Tail(signals)
    /\ IF user_count = 0
         THEN stop_server' = TRUE /\ UNCHANGED <<terminate, term>>
         ELSE /\ terminate' = TRUE /\ UNCHANGED stop_server
              /\ term' = [p \in Pids |-> term[p] \/ (p \in Live /\ \E i \in 0 .. user_count - 1 : users[i] = p)]
    /\ UNCHANGED <<netVars, tableVars, pready, pbatch, sigpipe, chld, child, idx, conn,
                   stop_child, cready, cbatch, pipeVars>>

(* A child wrote to its pipe: all the others are told. *)
Relay(p) ==
    /\ Handles(p)
    /\ IF up[p] = <<>> THEN UNCHANGED <<up, down, cready>>
       ELSE LET told == {q \in Live \ {p} : \E i \in 0 .. user_count - 1 : users[i] = q} IN
            /\ up' = [up EXCEPT ![p] = Tail(@)]
            /\ down' = [q \in Pids |-> IF q \in told THEN Append(down[q], Head(up[p])) ELSE down[q]]
            /\ cready' = [q \in Pids |-> IF q \in told \cap Registered
                                          THEN cready[q] \cup {"pipe"} ELSE cready[q]]
    /\ UNCHANGED <<netVars, tableVars, terminate, stop_server, pready, sigpipe, signals, chld,
                   child, idx, conn, stop_child, term, cbatch, share_mem, out>>

-----------------------------------------------------------------------------
(* run_child.  A SIGTERM that comes before addsig runs the handler that    *)
(* was inherited, which writes to the parent's pipe if the child has not   *)
(* closed it yet; one that comes after the test of stop_child and before   *)
(* epoll_wait does not end the wait.                                       *)
ChildSetup(p) ==
    /\ child[p] = "start" /\ child' = [child EXCEPT ![p] = "check"]
    /\ cready' = [cready EXCEPT ![p] = {e \in {"conn", "pipe"} :
                     IF e = "conn" THEN unread[conn[p]] \/ fin[conn[p]] ELSE down[p] # <<>>}]
    /\ UNCHANGED <<netVars, parentVars, idx, conn, stop_child, term, cbatch, pipeVars>>
ChildSignal(p) ==
    /\ p \in Live /\ term[p] /\ term' = [term EXCEPT ![p] = FALSE]
    /\ IF child[p] = "start"
         THEN /\ UNCHANGED <<stop_child, child>>
              /\ \/ Len(sigpipe) < MaxBytes /\ SignalByte("term")
                 \/ UNCHANGED <<sigpipe, pready>>
         ELSE /\ stop_child' = [stop_child EXCEPT ![p] = TRUE]
              /\ \/ child' = [child EXCEPT ![p] = IF @ = "wait" THEN "check" ELSE @]
                 \/ child[p] = "wait" /\ child' = child       \* on its way to epoll_wait
              /\ UNCHANGED <<sigpipe, pready>>
    /\ UNCHANGED <<netVars, tableVars, terminate, stop_server, pbatch, signals, chld, idx, conn,
                    cready, cbatch, pipeVars>>
ChildCheck(p) ==
    /\ child[p] = "check" /\ ~stop_child[p] /\ child' = [child EXCEPT ![p] = "wait"]
    /\ UNCHANGED <<netVars, parentVars, idx, conn, stop_child, term, cready, cbatch, pipeVars>>
ChildExit(p) ==
    /\ child[p] = "check" /\ stop_child[p]
    /\ child' = [child EXCEPT ![p] = "zombie"] /\ chld' = TRUE
    /\ cs' = [cs EXCEPT ![conn[p]] = "closed"]
    /\ down' = [down EXCEPT ![p] = <<>>] /\ term' = [term EXCEPT ![p] = FALSE]
    /\ cready' = [cready EXCEPT ![p] = {}]
    /\ UNCHANGED <<unread, fin, inputs, backlog, tableVars, terminate, stop_server, pready, pbatch, sigpipe,
                   signals, idx, conn, stop_child, cbatch, up, share_mem, out>>
ChildWait(p) ==
    /\ child[p] = "wait" /\ cready[p] # {}
    /\ child' = [child EXCEPT ![p] = "batch"]
    /\ cbatch' = [cbatch EXCEPT ![p] = cready[p]] /\ cready' = [cready EXCEPT ![p] = {}]
    /\ UNCHANGED <<netVars, parentVars, idx, conn, stop_child, term, pipeVars>>
ChildHandles(p, e) ==
    /\ child[p] = "batch" /\ e \in cbatch[p] /\ cbatch' = [cbatch EXCEPT ![p] = @ \ {e}]
    /\ child' = [child EXCEPT ![p] = IF cbatch[p] = {e} THEN "check" ELSE "batch"]

(* The client has sent: its segment, then the parent. *)
FromClient(p) ==
    LET c == conn[p] IN
    /\ ChildHandles(p, "conn")
    /\ share_mem' = [share_mem EXCEPT ![idx[p]] = IF unread[c] THEN c ELSE Empty]
    /\ unread' = [unread EXCEPT ![c] = FALSE]
    /\ IF unread[c] THEN up' = [up EXCEPT ![p] = Append(@, idx[p])] /\ pready' = pready \cup {p}
                    ELSE UNCHANGED <<up, pready>>
    /\ stop_child' = [stop_child EXCEPT ![p] = @ \/ (~unread[c] /\ fin[c])]
    /\ UNCHANGED <<cs, fin, inputs, backlog, tableVars, terminate, stop_server, pbatch, sigpipe, signals,
                   chld, idx, conn, term, cready, down, out>>
(* The parent has sent: that segment, to the client. *)
ToClient(p) ==
    /\ ChildHandles(p, "pipe")
    /\ IF down[p] = <<>> THEN UNCHANGED <<down, out>>
       ELSE /\ down' = [down EXCEPT ![p] = Tail(@)]
            /\ out' = [out EXCEPT ![conn[p]] = share_mem[Head(down[p])]]
    /\ UNCHANGED <<netVars, parentVars, idx, conn, stop_child, term, cready, up, share_mem>>

ShmParent == \/ ParentWait \/ AcceptNone \/ AcceptCloses \/ AcceptForks
             \/ ReadSignals \/ (\E p \in Pids : Reap(p)) \/ ReapedAll \/ KillChildren
             \/ (\E p \in Pids : Relay(p))
ShmChild(p) == \/ ChildSetup(p) \/ ChildCheck(p) \/ ChildExit(p) \/ ChildWait(p)
               \/ FromClient(p) \/ ToClient(p)
ShmNext == \/ ShmParent \/ ChldHandler \/ UserTerm
           \/ \E p \in Pids : ShmChild(p) \/ ChildSignal(p)
           \/ \E c \in Conns : Connect(c) \/ ClientSend(c) \/ ClientClose(c)

(* The processes run while they can and a pending signal is delivered;     *)
(* what is promised needs nothing of the clients or the user.              *)
ShmSpec == /\ ShmInit /\ [][ShmNext]_shmVars /\ WF_shmVars(ShmParent) /\ WF_shmVars(ChldHandler)
           /\ \A p \in Pids : WF_shmVars(ShmChild(p)) /\ WF_shmVars(ChildSignal(p))

-----------------------------------------------------------------------------
(* users and sub_process stay each other's inverse over the processes not  *)
(* yet reaped, whatever the order in which children exit, are reaped and   *)
(* leave their pid to later ones; and no child has a segment outside the   *)
(* shared memory.                                                          *)
ShmTable ==
    /\ user_count = Cardinality({p \in Pids : child[p] # "none"})
    /\ \A p \in Pids : child[p] # "none" =>
          sub_process[p] \in 0 .. user_count - 1 /\ users[sub_process[p]] = p
    /\ \A p \in Live : idx[p] \in DOMAIN share_mem

(* A child that SIGTERM will not end: the signal came between its test of  *)
(* stop_child and epoll_wait, and its client keeps silent, or while it had *)
(* the handler it inherited; or it was forked later.                       *)
Missed(p) == \/ child[p] = "wait" /\ stop_child[p]
             \/ ~term[p] /\ ~stop_child[p]

(* Exited children are reaped, all of them: several exits that make one    *)
(* SIGCHLD, or one read of the signal pipe, leave no user behind.  And a   *)
(* server told to terminate ends with the last of its children; what keeps *)
(* it up is a child its SIGTERM has missed, and nothing else.              *)
ShmWindsUp ==
    /\ (Zombies # {}) ~> (Zombies = {} \/ ~ServerUp)
    /\ terminate ~> (~ServerUp \/ \E p \in Live : Missed(p))

(* A client is sent the messages of the others and never its own: the      *)
(* parent tells "the other children", as its comment says.                 *)
NoEcho == \A c \in Conns : out[c] # c
=============================================================================
