------------------------------- MODULE OneShot -------------------------------
(***************************************************************************)
(* youshuang 9-4oneshot.cpp: connections are registered with EPOLLONESHOT  *)
(* and EPOLLET, and a reported one is served by a new thread, which is     *)
(* handed a pointer to a variable on the stack of the main loop and reads  *)
(* until EAGAIN.  A registration whose event was delivered stays, disabled.*)
(***************************************************************************)
EXTENDS Integers

CONSTANTS OsPeers, OsWorkers,
          Nobody,     \* the main loop's local variable before its first use
          MaxOs       \* bound: the bytes a peer sends

VARIABLES peer,       \* "out", "queued", "open", "closed"
          unread, sent, shut,    \* per peer: bytes not yet read, bytes sent, whether it closed
          registered, enabled,   \* the connections epoll knows; those it may report
          lready,     \* the edge of the listening socket is due
          ready,      \* the enabled connections that have an edge to report
          batch, lbatch,         \* what epoll_wait returned and the loop has not handled
          fds_for_new_worker,    \* its sockfd
          work        \* per worker: "none", "start", or the sockfd it serves
peerVars == <<peer, unread, sent, shut>>
epollVars == <<registered, enabled, lready, ready>>
loopVars == <<batch, lbatch, fds_for_new_worker>>
osVars == <<peerVars, epollVars, loopVars, work>>

OsInit == /\ peer = [p \in OsPeers |-> "out"] /\ unread = [p \in OsPeers |-> 0] /\ sent = unread
          /\ shut = [p \in OsPeers |-> FALSE]
          /\ registered = {} /\ enabled = {} /\ ready = {} /\ lready = FALSE
          /\ batch = {} /\ lbatch = FALSE /\ fds_for_new_worker = Nobody
          /\ work = [w \in OsWorkers |-> "none"]

-----------------------------------------------------------------------------
(* The peers. *)
OsConnects(p) ==
    /\ peer[p] = "out" /\ peer' = [peer EXCEPT ![p] = "queued"] /\ lready' = TRUE
    /\ UNCHANGED <<unread, sent, shut, registered, enabled, ready, loopVars, work>>
Edge(p) == ready' = IF p \in enabled THEN ready \cup {p} ELSE ready
OsSends(p) ==
    /\ peer[p] \in {"queued", "open"} /\ ~shut[p] /\ sent[p] < MaxOs
    /\ sent' = [sent EXCEPT ![p] = @ + 1] /\ unread' = [unread EXCEPT ![p] = @ + 1] /\ Edge(p)
    /\ UNCHANGED <<peer, shut, registered, enabled, lready, loopVars, work>>
OsLeaves(p) ==
    /\ peer[p] \in {"queued", "open"} /\ ~shut[p] /\ shut' = [shut EXCEPT ![p] = TRUE] /\ Edge(p)
    /\ UNCHANGED <<peer, unread, sent, registered, enabled, lready, loopVars, work>>

-----------------------------------------------------------------------------
(* EPOLL_CTL_ADD fails with EEXIST for what is registered. *)
CtlAdd(p) ==
    IF p \in registered THEN UNCHANGED <<registered, enabled, ready>>
    ELSE /\ registered' = registered \cup {p} /\ enabled' = enabled \cup {p}
         /\ ready' = IF unread[p] > 0 \/ shut[p] THEN ready \cup {p} ELSE ready
addfd(p) == CtlAdd(p)
reset_oneshot(p) == CtlAdd(p)

EpollWait ==
    /\ batch = {} /\ ~lbatch /\ (ready # {} \/ lready)
    /\ batch' = ready /\ lbatch' = lready
    /\ enabled' = enabled \ ready /\ ready' = {} /\ lready' = FALSE
    /\ UNCHANGED <<peerVars, registered, fds_for_new_worker, work>>
AcceptOne(p) ==
    /\ lbatch /\ peer[p] = "queued"
    /\ peer' = [peer EXCEPT ![p] = "open"] /\ addfd(p) /\ lbatch' = FALSE
    /\ UNCHANGED <<unread, sent, shut, lready, batch, fds_for_new_worker, work>>
StartWorker(p, w) ==
    /\ p \in batch /\ work[w] = "none"
    /\ fds_for_new_worker' = p /\ work' = [work EXCEPT ![w] = "start"]
    /\ batch' = batch \ {p}
    /\ UNCHANGED <<peerVars, epollVars, lbatch>>

(* worker: it takes what the variable holds by then.  If that connection   *)
(* has been closed, recv fails for ever and the thread stays in its loop.  *)
WorkerBegins(w) ==
    /\ work[w] = "start" /\ work' = [work EXCEPT ![w] = fds_for_new_worker]
    /\ UNCHANGED <<peerVars, epollVars, loopVars>>
Serves(w, p) == work[w] = p /\ peer[p] = "open"
WorkerReads(w, p) ==
    /\ Serves(w, p) /\ unread[p] > 0 /\ unread' = [unread EXCEPT ![p] = 0]
    /\ UNCHANGED <<peer, sent, shut, epollVars, loopVars, work>>
WorkerCloses(w, p) ==
    /\ Serves(w, p) /\ unread[p] = 0 /\ shut[p]
    /\ peer' = [peer EXCEPT ![p] = "closed"] /\ work' = [work EXCEPT ![w] = "none"]
    /\ registered' = registered \ {p} /\ enabled' = enabled \ {p} /\ ready' = ready \ {p}
    /\ UNCHANGED <<unread, sent, shut, lready, loopVars>>
ReadLater(w, p) ==
    /\ Serves(w, p) /\ unread[p] = 0 /\ ~shut[p]
    /\ reset_oneshot(p) /\ UNCHANGED lready /\ work' = [work EXCEPT ![w] = "none"]
    /\ UNCHANGED <<peerVars, loopVars>>

OsLoop == EpollWait \/ \E p \in OsPeers : AcceptOne(p) \/ \E w \in OsWorkers : StartWorker(p, w)
OsWork(w) == WorkerBegins(w) \/ \E p \in OsPeers : WorkerReads(w, p) \/ WorkerCloses(w, p) \/ ReadLater(w, p)

OsNext == OsLoop \/ (\E w \in OsWorkers : OsWork(w))
          \/ \E p \in OsPeers : OsConnects(p) \/ OsSends(p) \/ OsLeaves(p)

(* The loop and the threads go on when they can; peers owe nothing. *)
OsSpec == OsInit /\ [][OsNext]_osVars /\ WF_osVars(OsLoop) /\ \A w \in OsWorkers : WF_osVars(OsWork(w))

-----------------------------------------------------------------------------
(* 9-4oneshot.cpp:40: after reset_oneshot the system still reports the     *)
(* connection, once.  So whatever a peer sends after it was read out is    *)
(* read as well.                                                           *)
OneShotServed == \A p \in OsPeers : (peer[p] = "open" /\ unread[p] > 0) ~> (unread[p] = 0)
=============================================================================
