---------------------------- MODULE EventServer ----------------------------
(***************************************************************************)
(* The single-threaded epoll servers of the repository.  They are one loop *)
(* over epoll_wait, accept, recv and send and differ in what they register *)
(* and in what they do with each return value: a program is a record of    *)
(* these choices (Day03 ... NoUseRdhup below), Init picks one.  The        *)
(* sockets and epoll are external; each system call is one action, so the  *)
(* peers act between any two of them, and none of them needs to read what  *)
(* it is sent.  A byte is <<peer, number>>; a zero byte that pads a buffer *)
(* is <<>>.                                                                *)
(***************************************************************************)
EXTENDS Integers, Sequences, FiniteSets, SequencesExt

CONSTANTS Peers, Listener, Udp,  \* the sockets of the server
          BufSize,               \* READ_BUFFER, BUFFER_SIZE ...
          Limits,                \* RLIMIT_NOFILE, less what the server itself holds
          MaxSent, MaxDatagrams  \* bounds: the bytes and datagrams sent together; the datagrams

ASSUME EventServerAssumption == /\ IsFiniteSet(Peers) /\ BufSize \in Nat \ {0} /\ Limits \subseteq Nat /\ {MaxSent, MaxDatagrams} \subseteq Nat
                                /\ Listener # Udp /\ {Listener, Udp} \cap Peers = {}

-----------------------------------------------------------------------------
(* The programs.  listen, conn: how the sockets are registered.  acceptAll, *)
(* drain: whether accept and recv are called until they fail.  noConn,      *)
(* empty, error: what a call that would block, or a reset connection, leads *)
(* to.  eofEnds: whether the handler leaves its loop at an end of file.     *)
(* reply: what is sent back, the bytes read or the whole buffer.  A program *)
(* whose empty is "block" has blocking sockets, all others have not.        *)

\* server-30, day03: main
Day03 == [listen |-> "ET", acceptAll |-> FALSE, noConn |-> "exit", conn |-> "ET", drain |-> TRUE,
          rdhup |-> FALSE, empty |-> "end", error |-> "again", eofEnds |-> TRUE,
          bzero |-> TRUE, reply |-> "buffer", udp |-> FALSE]
\* server-30, day04: main and handleReadEvent, over the classes Socket and Epoll
Day04NoBzero == [listen |-> "ET", acceptAll |-> FALSE, noConn |-> "exit", conn |-> "ET",  \* mutant
                 drain |-> TRUE, rdhup |-> FALSE, empty |-> "end", error |-> "again", eofEnds |-> TRUE,
                 bzero |-> FALSE, reply |-> "buffer", udp |-> FALSE]
Day04 == [listen |-> "ET", acceptAll |-> FALSE, noConn |-> "exit", conn |-> "ET", drain |-> TRUE,
          rdhup |-> FALSE, empty |-> "end", error |-> "again", eofEnds |-> TRUE,
          bzero |-> TRUE, reply |-> "buffer", udp |-> FALSE]
\* server-30, day05: the same over Channel, which asks for the events it registered
Day05ReadOnce == [listen |-> "ET", acceptAll |-> FALSE, noConn |-> "exit", conn |-> "ET", \* mutant
                  drain |-> FALSE, rdhup |-> FALSE, empty |-> "end", error |-> "again", eofEnds |-> TRUE,
                  bzero |-> TRUE, reply |-> "buffer", udp |-> FALSE]
Day05 == [listen |-> "ET", acceptAll |-> FALSE, noConn |-> "exit", conn |-> "ET", drain |-> TRUE,
          rdhup |-> FALSE, empty |-> "end", error |-> "again", eofEnds |-> TRUE,
          bzero |-> TRUE, reply |-> "buffer", udp |-> FALSE]
\* server-30, day06: Server, whose two callbacks the event loop calls
Day06 == [listen |-> "ET", acceptAll |-> FALSE, noConn |-> "exit", conn |-> "ET", drain |-> TRUE,
          rdhup |-> FALSE, empty |-> "end", error |-> "again", eofEnds |-> TRUE,
          bzero |-> TRUE, reply |-> "buffer", udp |-> FALSE]
\* echo_epoll_server.c: level-triggered, blocking sockets; write(fd, buf, -1) fails at once
EchoEpollLoops == [listen |-> "LT", acceptAll |-> FALSE, noConn |-> "block", conn |-> "LT", \* mutant
                   drain |-> TRUE, rdhup |-> FALSE, empty |-> "block", error |-> "again", eofEnds |-> TRUE,
                   bzero |-> FALSE, reply |-> "read", udp |-> FALSE]
EchoEpoll == [listen |-> "LT", acceptAll |-> FALSE, noConn |-> "block", conn |-> "LT", drain |-> FALSE,
              rdhup |-> FALSE, empty |-> "block", error |-> "again", eofEnds |-> TRUE,
              bzero |-> FALSE, reply |-> "read", udp |-> FALSE]
\* 9-3mtlt.cpp, lt(); main registers the listener edge-triggered
MtLt == [listen |-> "ET", acceptAll |-> FALSE, noConn |-> "end", conn |-> "LT", drain |-> FALSE,
         rdhup |-> FALSE, empty |-> "close", error |-> "close", eofEnds |-> TRUE,
         bzero |-> TRUE, reply |-> "none", udp |-> FALSE]
\* 9-3mtlt.cpp, et(): at an end of file it closes and reads the closed descriptor once more
MtEt == [listen |-> "ET", acceptAll |-> FALSE, noConn |-> "end", conn |-> "ET", drain |-> TRUE,
         rdhup |-> FALSE, empty |-> "end", error |-> "close", eofEnds |-> FALSE,
         bzero |-> TRUE, reply |-> "none", udp |-> FALSE]
\* 9-8multi_port.cpp: TCP and UDP on one port; a recv that would block leaves the batch
MultiPortEdge == [listen |-> "LT", acceptAll |-> FALSE, noConn |-> "end", conn |-> "ET",  \* mutant
                  drain |-> FALSE, rdhup |-> FALSE, empty |-> "endBatch", error |-> "close",
                  eofEnds |-> TRUE, bzero |-> FALSE, reply |-> "read", udp |-> TRUE]
MultiPort == [listen |-> "LT", acceptAll |-> FALSE, noConn |-> "end", conn |-> "LT", drain |-> FALSE,
              rdhup |-> FALSE, empty |-> "endBatch", error |-> "close", eofEnds |-> TRUE,
              bzero |-> FALSE, reply |-> "read", udp |-> TRUE]
\* use_EPOLLRDHUP_server.c: a peer that closes is seen in the event and closed unread
UseRdhup == [listen |-> "ET", acceptAll |-> TRUE, noConn |-> "end", conn |-> "ET", drain |-> FALSE,
             rdhup |-> TRUE, empty |-> "exit", error |-> "exit", eofEnds |-> TRUE,
             bzero |-> FALSE, reply |-> "none", udp |-> FALSE]
\* no-use_EPOLLRDHUP_server.c: EPOLLIN and EPOLLOUT; always writable, so an event of a
\* connection with something to read takes the first branch, which exits at an error
NoUseRdhupOneAccept ==                                           \* mutant
            [listen |-> "ET", acceptAll |-> FALSE, noConn |-> "end", conn |-> "ET", drain |-> FALSE,
             rdhup |-> FALSE, empty |-> "exit", error |-> "exit", eofEnds |-> TRUE,
             bzero |-> FALSE, reply |-> "none", udp |-> FALSE]
NoUseRdhup == [listen |-> "ET", acceptAll |-> TRUE, noConn |-> "end", conn |-> "ET", drain |-> FALSE,
               rdhup |-> FALSE, empty |-> "exit", error |-> "exit", eofEnds |-> TRUE,
               bzero |-> FALSE, reply |-> "none", udp |-> FALSE]

Programs == {Day03, Day04, Day05, Day06, EchoEpoll, MtLt, MtEt, MultiPort, UseRdhup, NoUseRdhup}

-----------------------------------------------------------------------------
VARIABLES prog, limit,
          conn,      \* conn[c]: "idle", "queued", "open", "closed" by the server
          sent, got, \* sent[c]: bytes c sent; got[c]: bytes the server has read
          fin, rst, soErr,  \* of c's connection: FIN or RST came, it is reset, ECONNRESET is due
          backlog,   \* connections that wait for accept
          edge,      \* edge-triggered sockets with news since the last epoll_wait
          datagrams, answered,
          traffic,   \* counts to MaxSent
          batch,     \* the events still to be handled: [fd, rdhup]
          buf, toWrite,     \* the buffer; how much of it is about to be sent
          out,       \* out[c]: the bytes c has been sent, without padding
          cut, starved,     \* the peers of whose bytes a write left some out; an accept found no descriptor
          status     \* "up", "exit", "blocked", "stalled" in a write, "sigpipe"

peerVars == <<conn, sent, fin, rst, backlog, datagrams, traffic>>
runVars == <<prog, limit, cut, starved>>
esVars == <<runVars, peerVars, got, soErr, edge, answered, batch, buf, toWrite, out, status>>

EsInit == /\ prog \in Programs /\ limit \in Limits /\ cut = {} /\ starved = FALSE
          /\ conn = [c \in Peers |-> "idle"]
          /\ sent = [c \in Peers |-> 0] /\ got = [c \in Peers |-> 0]
          /\ fin = [c \in Peers |-> FALSE] /\ rst = [c \in Peers |-> FALSE]
          /\ soErr = [c \in Peers |-> FALSE]
          /\ backlog = <<>> /\ edge = {} /\ datagrams = 0 /\ answered = 0 /\ traffic = 0
          /\ batch = <<>> /\ buf = [k \in 1 .. BufSize |-> <<>>] /\ toWrite = 0
          /\ out = [c \in Peers |-> <<>>] /\ status = "up"

-----------------------------------------------------------------------------
(* The peers and the network. *)
loopVars == <<runVars, got, answered, batch, buf, toWrite, out, status>>
Mode(s) == CASE s = Listener -> prog.listen [] s = Udp -> "LT" [] OTHER -> prog.conn
\* an edge-triggered, registered socket s is put on epoll's ready list
News(s) == edge' = edge \cup {x \in {s} : Mode(x) = "ET" /\ (x \in Peers => conn'[x] = "open")}
Alive(c) == conn[c] \in {"queued", "open"} /\ ~fin[c]

PeerConnects(c) ==
    /\ conn[c] = "idle"
    /\ conn' = [conn EXCEPT ![c] = "queued"] /\ backlog' = Append(backlog, c)
    /\ News(Listener)
    /\ UNCHANGED <<loopVars, traffic, sent, fin, rst, soErr, datagrams>>
PeerSends(c) ==
    /\ Alive(c) /\ traffic < MaxSent /\ traffic' = traffic + 1
    /\ sent' = [sent EXCEPT ![c] = @ + 1] /\ conn' = conn /\ News(c)
    /\ UNCHANGED <<loopVars, fin, rst, soErr, backlog, datagrams>>
PeerCloses(c) ==
    /\ Alive(c)
    /\ fin' = [fin EXCEPT ![c] = TRUE] /\ conn' = conn /\ News(c)
    /\ UNCHANGED <<loopVars, traffic, sent, rst, soErr, backlog, datagrams>>
\* also how the host of a peer that has closed answers what it is sent; ECONNRESET is
\* reported only if no FIN came before
PeerResets(c) ==
    /\ conn[c] \in {"queued", "open"} /\ ~rst[c]
    /\ fin' = [fin EXCEPT ![c] = TRUE] /\ rst' = [rst EXCEPT ![c] = TRUE]
    /\ soErr' = [soErr EXCEPT ![c] = ~fin[c]] /\ conn' = conn /\ News(c)
    /\ UNCHANGED <<loopVars, traffic, sent, backlog, datagrams>>
DatagramArrives ==
    /\ prog.udp /\ datagrams + answered < MaxDatagrams /\ traffic < MaxSent
    /\ traffic' = traffic + 1 /\ datagrams' = datagrams + 1
    /\ UNCHANGED <<loopVars, conn, sent, fin, rst, soErr, backlog, edge>>

PeerStep == /\ status = "up"    \* after its end nothing is of interest
            /\ \/ \E c \in Peers : PeerConnects(c) \/ PeerSends(c) \/ PeerCloses(c) \/ PeerResets(c)
               \/ DatagramArrives

-----------------------------------------------------------------------------
(* epoll_wait reports every registered socket that is readable now and, if *)
(* it is edge-triggered, has had news; the order is the kernel's.          *)
Unread(c) == sent[c] - got[c]
Readable(s) == CASE s = Listener -> backlog # <<>>
                 [] s = Udp -> datagrams > 0
                 [] OTHER -> conn[s] = "open" /\ (Unread(s) > 0 \/ fin[s])
Reported == {s \in Peers \cup {Listener, Udp} : Readable(s) /\ (Mode(s) = "ET" => s \in edge)}

\* EventLoop::loop and Epoll::poll
EsWait ==
    /\ status = "up" /\ batch = <<>> /\ Reported # {}
    /\ \E order \in SetToSeqs(Reported) :
          batch' = [k \in DOMAIN order |-> [fd |-> order[k], rdhup |-> order[k] \in Peers /\ fin[order[k]]]]
    /\ edge' = {}
    /\ UNCHANGED <<runVars, peerVars, got, soErr, answered, buf, toWrite, out, status>>

Current == Head(batch).fd
Handling(s) == status = "up" /\ batch # <<>> /\ Current = s
\* the handler goes round its loop, if it has one, or the event is dealt with
GoOn == batch' = IF prog.drain THEN batch ELSE Tail(batch)
Close(c) == conn' = [conn EXCEPT ![c] = "closed"] /\ edge' = edge \ {c}
CloseIt(c) == Close(c) /\ batch' = Tail(batch) /\ status' = status

Exhausted == Cardinality({c \in Peers : conn[c] = "open"}) >= limit

\* Server::newConnection; registering a socket that is readable already is news
AcceptConn ==
    /\ Handling(Listener) /\ ~Exhausted
    /\ \/ /\ backlog # <<>> /\ backlog' = Tail(backlog)
          /\ conn' = [conn EXCEPT ![Head(backlog)] = "open"]
          /\ News(Head(backlog))
          /\ batch' = IF prog.acceptAll THEN batch ELSE Tail(batch)
          /\ status' = status
       \/ /\ backlog = <<>>
          /\ status' = CASE prog.noConn = "exit" -> "exit" [] prog.noConn = "block" -> "blocked"
                         [] OTHER -> status
          /\ batch' = Tail(batch)
          /\ UNCHANGED <<backlog, conn, edge>>
    /\ UNCHANGED <<runVars, sent, got, fin, rst, soErr, datagrams, traffic, answered, buf, toWrite, out>>
\* without a free descriptor accept fails before it looks at the backlog: errif exits, the
\* others go on with -1, which fcntl and epoll_ctl refuse
AcceptFails ==
    /\ Handling(Listener) /\ Exhausted
    /\ status' = IF prog.noConn = "exit" THEN "exit" ELSE status
    /\ starved' = TRUE /\ batch' = Tail(batch)
    /\ UNCHANGED <<prog, limit, cut, peerVars, got, soErr, edge, answered, buf, toWrite, out>>

\* 9-8multi_port.cpp: recvfrom and sendto
AnswerDatagram ==
    /\ Handling(Udp)
    /\ datagrams' = datagrams - 1 /\ answered' = answered + 1 /\ batch' = Tail(batch)
    /\ UNCHANGED <<runVars, conn, sent, fin, rst, backlog, traffic, got, soErr, edge, buf, toWrite, out, status>>

\* use_EPOLLRDHUP_server.c: if (events & EPOLLRDHUP) close
CloseRdhup(c) ==
    /\ Handling(c) /\ prog.rdhup /\ Head(batch).rdhup
    /\ CloseIt(c)
    /\ UNCHANGED <<runVars, sent, fin, rst, backlog, datagrams, traffic, got, soErr, answered, buf, toWrite, out>>

Reads(c) == Handling(c) /\ ~(prog.rdhup /\ Head(batch).rdhup) /\ toWrite = 0
\* the buffer after n bytes of c were read into it
Filled(c, n) == [k \in 1 .. BufSize |-> IF k <= n THEN <<c, got[c] + k>>
                                        ELSE IF prog.bzero THEN <<>> ELSE buf[k]]
\* Server::handleReadEvent, one read
ReadBytes(c) ==
    /\ Reads(c) /\ conn[c] = "open" /\ Unread(c) > 0
    /\ LET n == IF Unread(c) < BufSize THEN Unread(c) ELSE BufSize IN
       /\ got' = [got EXCEPT ![c] = @ + n]
       /\ IF prog.reply = "none"
          THEN GoOn /\ UNCHANGED <<buf, toWrite>>
          ELSE /\ buf' = Filled(c, n) /\ batch' = batch
               /\ toWrite' = IF prog.reply = "buffer" THEN BufSize ELSE n
    /\ UNCHANGED <<runVars, peerVars, soErr, edge, answered, out, status>>
\* a reset connection fails one call and is at its end of file from then on; reading the
\* closed descriptor fails as well
ReadFails(c) ==
    /\ Reads(c)
    /\ conn[c] = "open" => Unread(c) = 0 /\ soErr[c]
    /\ soErr' = [soErr EXCEPT ![c] = FALSE]
    /\ CASE prog.error = "close" -> CloseIt(c)
         [] prog.error = "exit" -> status' = "exit" /\ UNCHANGED <<conn, edge, batch>>
         [] OTHER -> GoOn /\ UNCHANGED <<conn, edge, status>>
    /\ UNCHANGED <<runVars, sent, fin, rst, backlog, datagrams, traffic, got, answered, buf, toWrite, out>>
ReadEof(c) ==
    /\ Reads(c) /\ conn[c] = "open" /\ Unread(c) = 0 /\ ~soErr[c] /\ fin[c]
    /\ Close(c) /\ batch' = IF prog.eofEnds THEN Tail(batch) ELSE batch
    /\ UNCHANGED <<runVars, sent, fin, rst, backlog, datagrams, traffic, got, soErr, answered, buf, toWrite, out, status>>
ReadNothing(c) ==
    /\ Reads(c) /\ conn[c] = "open" /\ Unread(c) = 0 /\ ~fin[c]
    /\ CASE prog.empty = "close" -> CloseIt(c)
         [] prog.empty \in {"exit", "block"} ->
               /\ status' = IF prog.empty = "exit" THEN "exit" ELSE "blocked"
               /\ UNCHANGED <<conn, edge, batch>>
         [] OTHER -> /\ batch' = IF prog.empty = "endBatch" THEN <<>> ELSE Tail(batch)
                     /\ UNCHANGED <<conn, edge, status>>
    /\ UNCHANGED <<runVars, sent, fin, rst, backlog, datagrams, traffic, got, soErr, answered, buf, toWrite, out>>

\* what the first n places of the buffer hold, without the padding
Unpadded(n) ==
    LET Upto[k \in 0 .. n] == IF k = 0 THEN <<>>
                              ELSE IF buf[k] = <<>> THEN Upto[k - 1] ELSE Append(Upto[k - 1], buf[k])
    IN  Upto[n]
\* the write of Server::handleReadEvent, whose result no server looks at: a socket that does
\* not block takes what it has room for.  A write to a reset connection raises SIGPIPE, which
\* no server handles, once ECONNRESET has been reported
WriteBytes(c) ==
    /\ Handling(c) /\ toWrite > 0 /\ toWrite' = 0 /\ GoOn
    /\ IF rst[c]
       THEN /\ status' = IF soErr[c] THEN status ELSE "sigpipe"
            /\ soErr' = [soErr EXCEPT ![c] = FALSE] /\ UNCHANGED <<out, cut>>
       ELSE /\ \E n \in 0 .. toWrite :
                 /\ prog.empty = "block" => n = toWrite
                 /\ out' = [out EXCEPT ![c] = @ \o Unpadded(n)]
                 /\ cut' = IF Unpadded(n) = Unpadded(toWrite) THEN cut ELSE cut \cup {c}
            /\ UNCHANGED <<soErr, status>>
    /\ UNCHANGED <<prog, limit, starved, peerVars, got, edge, answered, buf>>
\* a blocking write to a peer that has stopped reading, and never goes on nor goes away
WriteStalls(c) ==
    /\ Handling(c) /\ toWrite > 0 /\ ~rst[c] /\ prog.empty = "block"
    /\ status' = "stalled"
    /\ UNCHANGED <<runVars, peerVars, got, soErr, edge, answered, batch, buf, toWrite, out>>

EsServer == \/ EsWait \/ AcceptConn \/ AcceptFails \/ AnswerDatagram
            \/ \E c \in Peers : \/ CloseRdhup(c) \/ ReadBytes(c) \/ ReadFails(c) \/ ReadEof(c)
                                \/ ReadNothing(c) \/ WriteBytes(c) \/ WriteStalls(c)
EsNext == PeerStep \/ EsServer

(* The loop is scheduled and epoll_wait returns when it has something to   *)
(* report; the peers owe nothing.                                          *)
EsSpec == EsInit /\ [][EsNext]_esVars /\ WF_esVars(EsServer)

-----------------------------------------------------------------------------
(* A peer is sent its own bytes, in their order, each once: nothing of what *)
(* the buffer held for another peer, or for an earlier read, goes out with  *)
(* the padding (write(fd, buffer, sizeof(buffer)) of server-30).  There are *)
(* gaps only where a socket had no room for all of a write.                 *)
EsOwnBytes == \A c \in Peers :
    /\ \A k \in DOMAIN out[c] : out[c][k][1] = c /\ \A j \in 1 .. k - 1 : out[c][j][2] < out[c][k][2]
    /\ c \notin cut => out[c] = [k \in DOMAIN out[c] |-> <<c, k>>]

(* How a server may stop serving, whatever the order of connecting, sending, *)
(* closing and resetting, and although readiness is only known as of         *)
(* epoll_wait: server-30 takes the exit of errif only for want of            *)
(* descriptors and never because nobody waits for accept, and of the others  *)
(* no-use_EPOLLRDHUP_server.c alone exits, when a peer resets its connection. *)
(* None blocks in accept or recv; echo_epoll_server.c may in the write to a  *)
(* peer that does not read.  Who echoes may be killed by SIGPIPE, when a     *)
(* peer has reset its connection.                                            *)
EsKeepsServing ==
    /\ status = "exit" => prog = NoUseRdhup \/ (prog.noConn = "exit" /\ Exhausted)
    /\ status # "blocked"
    /\ status = "stalled" => prog = EchoEpoll
    /\ status = "sigpipe" => prog.reply # "none" /\ \E c \in Peers : rst[c]

(* Both: what one peer can do to another is what these sentences except. *)
EsSound == EsOwnBytes /\ EsKeepsServing

(* While a descriptor is free every connection is accepted, by the servers   *)
(* whose listening socket is level-triggered or that accept until accept     *)
(* fails.  (An edge-triggered listener and one accept leave the second of    *)
(* two connections waiting; an edge-triggered one that has once found no     *)
(* descriptor leaves those that wait, also when there are descriptors again.)*)
EsAccepted ==
    LET Waiting == \E c \in Peers : conn[c] = "queued" IN
    (Waiting /\ ~Exhausted /\ prog \in {EchoEpoll, MultiPort, UseRdhup, NoUseRdhup}) ~>
        (~Waiting \/ Exhausted \/ status # "up" \/ (prog.listen = "ET" /\ starved))

(* The descriptor of a peer that has gone is closed, whatever it sent just  *)
(* before and whenever that arrives; not so in no-use_EPOLLRDHUP_server.c,  *)
(* which reads once per edge.                                               *)
EsLeaverClosed ==
    LET Lingers == \E c \in Peers : conn[c] = "open" /\ fin[c] IN
    (Lingers /\ prog # NoUseRdhup) ~> (~Lingers \/ status # "up")

(* Every byte a peer sends to an echo server comes back, also when the peer *)
(* shuts down its side behind it, unless the connection is reset or a write *)
(* found too little room in its socket: these bytes are lost.               *)
EsEchoed ==
    LET Owed == \E c \in Peers \ cut : conn[c] \in {"open", "closed"} /\ Len(out[c]) < sent[c] /\ ~rst[c] IN
    (Owed /\ prog.reply # "none") ~> (~Owed \/ status # "up")

(* Both: a peer gets its answer and then the end. *)
EsServesOut == EsEchoed /\ EsLeaverClosed
=============================================================================
