----------------------------- MODULE IoUringTcp -----------------------------
(***************************************************************************)
(* tcp_server_iouring.c: an echo server over io_uring.  Each completion is *)
(* answered by a new request: an accept by a recv and the next accept, a   *)
(* recv by a send of what was read or by a close, a send by a send of the  *)
(* whole buffer, whatever its result.  buffer_table has one buffer per     *)
(* descriptor, which is not cleared when the descriptor is used again.     *)
(*                                                                         *)
(* The kernel is external: it completes requests in any order, sends less  *)
(* than asked, and fails requests on a negative descriptor as it takes     *)
(* them.  A byte is <<peer, number>>, a byte never written <<>>.           *)
(***************************************************************************)
EXTENDS Integers, Sequences, FiniteSets, FiniteSetsExt, Functions

CONSTANTS UringPeers, NoPeer,
          MAX_CONNECTIONS,      \* also the number of descriptors a process may have
          BUFFER_LENGTH, PEEK,  \* PEEK: the 10 entries of cqes
          MaxUringActs          \* bound: the connections and the bytes sent, together

ASSUME IoUringTcpAssumption ==
    /\ IsFiniteSet(UringPeers) /\ UringPeers \subseteq Nat /\ NoPeer \notin UringPeers
    /\ {MAX_CONNECTIONS, BUFFER_LENGTH, PEEK} \subseteq Nat \ {0} /\ MaxUringActs \in Nat

UringFds == 0 .. MAX_CONNECTIONS - 1

VARIABLES link,        \* link[c]: "idle", "queued", "open", "closed"
          sends, recvd, ended, dead,   \* bytes of c, and those read; c's FIN, c's RST
          pendingPeers,                \* the backlog
          fdOf,        \* fdOf[f]: the peer behind descriptor f
          buffer_table,
          prepared, inKernel, completions,   \* requests prepared, taken by the kernel, completed
          count,       \* the entries of cqes still to handle
          got          \* got[c]: the bytes c was sent, as a set

peerSide == <<link, sends, ended, dead, pendingPeers>>
utVars == <<peerSide, recvd, fdOf, buffer_table, prepared, inKernel, completions, count, got>>

Request(type, fd, len) == [type |-> type, fd |-> fd, len |-> len]
set_accept_event == Request("ACCEPT", -1, 0)
set_read_event(fd) == Request("READ", fd, BUFFER_LENGTH)
set_write_event(fd, len) == Request("WRITE", fd, len)

UtInit ==
    /\ link = [c \in UringPeers |-> "idle"] /\ sends = [c \in UringPeers |-> 0]
    /\ recvd = [c \in UringPeers |-> 0] /\ ended = [c \in UringPeers |-> FALSE]
    /\ dead = [c \in UringPeers |-> FALSE] /\ pendingPeers = <<>>
    /\ fdOf = [f \in UringFds |-> NoPeer]
    /\ buffer_table = [f \in UringFds |-> [k \in 1 .. BUFFER_LENGTH |-> <<>>]]
    /\ prepared = <<set_accept_event>> /\ inKernel = {} /\ completions = <<>> /\ count = 0
    /\ got = [c \in UringPeers |-> {}]

-----------------------------------------------------------------------------
(* The peers, numbered in the order they connect. *)
Acts == FoldFunction(+, 0, sends) + Cardinality({c \in UringPeers : link[c] # "idle"})
uringSide == <<recvd, fdOf, buffer_table, prepared, inKernel, completions, count, got>>
UtConnect(c) ==
    /\ link[c] = "idle" /\ (\A d \in UringPeers : link[d] = "idle" => c <= d) /\ Acts < MaxUringActs
    /\ link' = [link EXCEPT ![c] = "queued"]
    /\ pendingPeers' = Append(pendingPeers, c)
    /\ UNCHANGED <<sends, ended, dead, uringSide>>
UtSend(c) ==
    /\ link[c] \in {"queued", "open"} /\ ~ended[c] /\ Acts < MaxUringActs
    /\ sends' = [sends EXCEPT ![c] = @ + 1]
    /\ UNCHANGED <<link, ended, dead, pendingPeers, uringSide>>
UtEnd(c) ==
    /\ link[c] \in {"queued", "open"} /\ ~ended[c]
    /\ ended' = [ended EXCEPT ![c] = TRUE] /\ \E r \in BOOLEAN : dead' = [dead EXCEPT ![c] = r]
    /\ UNCHANGED <<link, sends, pendingPeers, uringSide>>

-----------------------------------------------------------------------------
(* The kernel. *)
Complete(r, res) == inKernel' = inKernel \ {r} /\ completions' = Append(completions, [type |-> r.type, fd |-> r.fd, res |-> res])
BadRequests == {r \in inKernel : r.type # "ACCEPT" /\ r.fd = -1}
\* a descriptor is needed before a connection is looked for; a connection may be aborted
KernelAccept(r) ==
    LET free == {f \in UringFds : fdOf[f] = NoPeer} IN
    /\ r.type = "ACCEPT" /\ BadRequests = {}
    /\ \/ /\ free # {} /\ pendingPeers # <<>>
          /\ LET c == Head(pendingPeers) IN
             \/ /\ link' = [link EXCEPT ![c] = "open"] /\ fdOf' = [fdOf EXCEPT ![Min(free)] = c]
                /\ Complete(r, Min(free))
             \/ dead[c] /\ link' = [link EXCEPT ![c] = "closed"] /\ Complete(r, -1) /\ fdOf' = fdOf
          /\ pendingPeers' = Tail(pendingPeers)
       \/ free = {} /\ Complete(r, -1) /\ UNCHANGED <<link, fdOf, pendingPeers>>
    /\ UNCHANGED <<sends, ended, dead, recvd, buffer_table, prepared, count, got>>
KernelRecv(r) ==
    LET c == IF r.fd = -1 THEN NoPeer ELSE fdOf[r.fd] IN
    /\ r.type = "READ"
    /\ \/ (c # NoPeer => dead[c]) /\ Complete(r, -1) /\ UNCHANGED <<recvd, buffer_table>>
       \/ /\ c # NoPeer /\ ~dead[c] /\ ended[c] /\ sends[c] = recvd[c]
          /\ Complete(r, 0) /\ UNCHANGED <<recvd, buffer_table>>
       \/ /\ c # NoPeer /\ ~dead[c] /\ sends[c] > recvd[c]
          /\ LET n == Min({r.len, sends[c] - recvd[c]}) IN
             /\ recvd' = [recvd EXCEPT ![c] = @ + n] /\ Complete(r, n)
             /\ buffer_table' = [buffer_table EXCEPT ![r.fd] =
                   [k \in 1 .. BUFFER_LENGTH |-> IF k <= n THEN <<c, recvd[c] + k>> ELSE @[k]]]
    /\ UNCHANGED <<peerSide, fdOf, prepared, count, got>>
\* a short send included
KernelSend(r) ==
    LET c == fdOf[r.fd] IN
    /\ r.type = "WRITE"
    /\ \/ (c = NoPeer \/ dead[c]) /\ Complete(r, -1) /\ got' = got
       \/ /\ c # NoPeer /\ ~dead[c]
          /\ \E n \in 1 .. r.len :
                /\ Complete(r, n)
                /\ got' = [got EXCEPT ![c] = @ \cup {buffer_table[r.fd][k] : k \in 1 .. n}]
    /\ UNCHANGED <<peerSide, recvd, fdOf, buffer_table, prepared, count>>

-----------------------------------------------------------------------------
(* The loop of main. *)
\* io_uring_submit
UtSubmit ==
    /\ count = 0 /\ prepared # <<>>
    /\ inKernel' = inKernel \cup {prepared[i] : i \in DOMAIN prepared} /\ prepared' = <<>>
    /\ UNCHANGED <<peerSide, recvd, fdOf, buffer_table, completions, count, got>>
\* io_uring_wait_cqe and io_uring_peek_batch_cqe
UtPeek ==
    /\ count = 0 /\ prepared = <<>> /\ completions # <<>>
    /\ count' = Min({PEEK, Len(completions)})
    /\ UNCHANGED <<peerSide, recvd, fdOf, buffer_table, prepared, inKernel, completions, got>>
UtWaits == count = 0 /\ prepared = <<>> /\ completions = <<>> /\ UNCHANGED utVars
Answers(type) == /\ count > 0 /\ Head(completions).type = type
                 /\ count' = count - 1 /\ completions' = Tail(completions)
OnAcceptOnce ==                                                  \* mutant
    /\ Answers("ACCEPT")
    /\ prepared' = (IF Head(completions).res < 0 THEN <<>> ELSE <<set_read_event(Head(completions).res)>>) \o prepared
    /\ UNCHANGED <<peerSide, recvd, fdOf, buffer_table, inKernel, got>>
OnAccept ==
    /\ Answers("ACCEPT")
    /\ prepared' = prepared \o <<set_read_event(Head(completions).res), set_accept_event>>
    /\ UNCHANGED <<peerSide, recvd, fdOf, buffer_table, inKernel, got>>
\* close(-1) fails
CloseFd(f) == /\ fdOf' = [x \in UringFds |-> IF x = f THEN NoPeer ELSE fdOf[x]]
              /\ link' = [c \in UringPeers |-> IF f >= 0 /\ fdOf[f] = c THEN "closed" ELSE link[c]]
OnRead ==
    LET e == Head(completions) IN
    /\ Answers("READ")
    /\ IF e.res <= 0 THEN CloseFd(e.fd) /\ prepared' = prepared
                     ELSE prepared' = Append(prepared, set_write_event(e.fd, e.res)) /\ UNCHANGED <<fdOf, link>>
    /\ UNCHANGED <<sends, ended, dead, pendingPeers, recvd, buffer_table, inKernel, got>>
OnWriteCloses ==                                                 \* mutant
    LET e == Head(completions) IN
    /\ Answers("WRITE")
    /\ IF e.res < 0 THEN CloseFd(e.fd) /\ prepared' = prepared
                    ELSE prepared' = Append(prepared, set_write_event(e.fd, BUFFER_LENGTH)) /\ UNCHANGED <<fdOf, link>>
    /\ UNCHANGED <<sends, ended, dead, pendingPeers, recvd, buffer_table, inKernel, got>>
OnWrite ==
    /\ Answers("WRITE")
    /\ prepared' = Append(prepared, set_write_event(Head(completions).fd, BUFFER_LENGTH))
    /\ UNCHANGED <<peerSide, recvd, fdOf, buffer_table, inKernel, got>>

UtNext == \/ \E c \in UringPeers : UtConnect(c) \/ UtSend(c) \/ UtEnd(c)
          \/ \E r \in inKernel : KernelAccept(r) \/ KernelRecv(r) \/ KernelSend(r)
          \/ UtSubmit \/ UtPeek \/ UtWaits \/ OnAccept \/ OnRead \/ OnWrite

UtSpec == UtInit /\ [][UtNext]_utVars

-----------------------------------------------------------------------------
(* What is under way of a type for a descriptor: prepared, submitted or    *)
(* completed and not handled.                                              *)
Flying(P(_)) == Cardinality({i \in DOMAIN prepared : P(prepared[i])}) + Cardinality({r \in inKernel : P(r)})
                + Cardinality({i \in DOMAIN completions : P(completions[i])})

(* Whatever fails, there is always one accept under way and one request    *)
(* for each open connection, never two that would share its buffer.  And   *)
(* although the buffers are not cleared and sent whole, nobody is sent     *)
(* what another peer wrote: a descriptor something was read from is never  *)
(* closed, so its buffer is never used again.                              *)
UringSound ==
    /\ Flying(LAMBDA r : r.type = "ACCEPT") = 1
    /\ \A f \in UringFds : fdOf[f] # NoPeer =>
          Flying(LAMBDA r : \/ r.type # "ACCEPT" /\ r.fd = f
                            \/ r.type = "ACCEPT" /\ "res" \in DOMAIN r /\ r.res = f) = 1
    /\ \A c \in UringPeers : \A b \in got[c] : b # <<>> => b[1] = c
=============================================================================
