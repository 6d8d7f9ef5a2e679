----------------------------- MODULE ChatServer -----------------------------
(***************************************************************************)
(* chat_server.c of yinshengyu: main accepts clients and enters them into  *)
(* client_socks; a thread per client reads what it says and writes it to   *)
(* all of them, under the mutex; chat_client.c is what the clients do.     *)
(*                                                                         *)
(* A thread is known by the client it was made for.  It takes its          *)
(* descriptor from main's variable client_sock, which main may have        *)
(* overwritten by then.  A read takes all that has arrived, and what is    *)
(* read at once is one message.  The sockets are external: a descriptor is *)
(* the lowest free number, a socket buffer holds one message, a write to a *)
(* full one waits, and one to a reset connection raises SIGPIPE.           *)
(***************************************************************************)
EXTENDS Integers, Sequences, FiniteSets, FiniteSetsExt

CONSTANTS ChatClients, MAX_CLIENT, NoClient,
          Beyond,        \* the word in memory behind client_socks
          MaxActs        \* bound: the connections and the messages, together

ASSUME ChatAssumption == /\ IsFiniteSet(ChatClients) /\ ChatClients \subseteq Nat
                         /\ MAX_CLIENT \in Nat /\ NoClient \notin ChatClients /\ MaxActs \in Nat

Fds == 1 .. Cardinality(ChatClients)

VARIABLES talker,        \* talker[c]: "idle", "queued", "in"
          waiting,       \* the clients accept has not returned yet
          acts, unheard,   \* the connections and messages so far; unheard[c]: c has said what no thread has read
          gone, reset, econn,   \* c has closed, its connection is reset, ECONNRESET is due
          full, inbox,   \* c's socket buffer; the numbers of the messages written to c
          file,          \* file[f]: the client behind descriptor f
          client_socks, client_count,
          mpc, client_sock,   \* main: "accept", "enter", "create", "lost"
          comer,         \* the client accepted last, whose thread main creates next
          thread,        \* thread[c]: [pc, sock, i, no]
          mutex, messages,    \* who holds the mutex; the messages that were sent to all
          orderly,       \* history: each thread found its own descriptor, each leaver was last
          killed         \* by SIGPIPE

clientVars == <<talker, waiting, acts, unheard, gone, reset, econn, full>>
chatTable == <<client_socks, client_count>>
chatVars == <<clientVars, inbox, file, chatTable, mpc, client_sock, comer, thread, mutex, messages, orderly, killed>>

ChatInit ==
    /\ talker = [c \in ChatClients |-> "idle"] /\ waiting = <<>> /\ acts = 0
    /\ unheard = [c \in ChatClients |-> FALSE] /\ gone = [c \in ChatClients |-> FALSE]
    /\ reset = [c \in ChatClients |-> FALSE] /\ econn = [c \in ChatClients |-> FALSE]
    /\ full = [c \in ChatClients |-> FALSE] /\ inbox = [c \in ChatClients |-> <<>>]
    /\ file = [f \in Fds |-> NoClient]
    /\ client_socks = [i \in 0 .. MAX_CLIENT |-> IF i < MAX_CLIENT THEN 0 ELSE Beyond]
    /\ client_count = 0
    /\ mpc = "accept" /\ client_sock = 0 /\ comer = NoClient
    /\ thread = [c \in ChatClients |-> [pc |-> "none", sock |-> 0, i |-> 0, no |-> 0]]
    /\ mutex = NoClient /\ messages = 0 /\ orderly = TRUE /\ killed = FALSE

-----------------------------------------------------------------------------
(* The clients, numbered in the order of their connecting.  "q" closes     *)
(* both directions; with something unread left behind, or when more is     *)
(* sent to it, the client's host resets the connection.                    *)
roomVars == <<inbox, file, chatTable, mpc, client_sock, comer, thread, mutex, messages, orderly, killed>>
ChatConnect(c) ==
    /\ talker[c] = "idle" /\ \A d \in ChatClients : talker[d] = "idle" => c <= d
    /\ acts < MaxActs /\ acts' = acts + 1
    /\ talker' = [talker EXCEPT ![c] = "queued"] /\ waiting' = Append(waiting, c)
    /\ UNCHANGED <<unheard, gone, reset, econn, full, roomVars>>
Speak(c) ==
    /\ talker[c] # "idle" /\ ~gone[c] /\ acts < MaxActs
    /\ acts' = acts + 1 /\ unheard' = [unheard EXCEPT ![c] = TRUE]
    /\ UNCHANGED <<talker, waiting, gone, reset, econn, full, roomVars>>
receive_message(c) ==
    /\ full[c] /\ ~gone[c] /\ full' = [full EXCEPT ![c] = FALSE]
    /\ UNCHANGED <<talker, waiting, acts, unheard, gone, reset, econn, roomVars>>
Quit(c) ==
    /\ talker[c] # "idle" /\ ~gone[c] /\ gone' = [gone EXCEPT ![c] = TRUE]
    /\ UNCHANGED <<talker, waiting, acts, unheard, reset, econn, full, roomVars>>
HostResets(c) ==
    /\ talker[c] # "idle" /\ ~reset[c] /\ full[c]
    /\ reset' = [reset EXCEPT ![c] = TRUE] /\ gone' = [gone EXCEPT ![c] = TRUE]
    /\ econn' = [econn EXCEPT ![c] = ~gone[c]]
    /\ UNCHANGED <<talker, waiting, acts, unheard, full, roomVars>>

-----------------------------------------------------------------------------
(* main *)
AcceptClient ==
    /\ mpc = "accept" /\ waiting # <<>>
    /\ LET c == Head(waiting)
           f == Min({x \in Fds : file[x] = NoClient}) IN
       /\ talker' = [talker EXCEPT ![c] = "in"] /\ waiting' = Tail(waiting)
       /\ file' = [file EXCEPT ![f] = c] /\ client_sock' = f /\ comer' = c
    /\ mpc' = "enter"
    /\ UNCHANGED <<acts, unheard, gone, reset, econn, full, inbox, chatTable, thread, mutex,
                   messages, orderly, killed>>
Enter ==
    /\ mpc = "enter" /\ mutex = NoClient /\ client_count < MAX_CLIENT
    /\ client_socks' = [client_socks EXCEPT ![client_count] = client_sock]
    /\ client_count' = client_count + 1 /\ mpc' = "create"
    /\ UNCHANGED <<clientVars, inbox, file, client_sock, comer, thread, mutex, messages, orderly, killed>>
\* nothing compares client_count with MAX_CLIENT: the descriptor is stored behind the table,
\* and what is there, and so what the server does from then on, is anybody's guess
EnterOverruns ==
    /\ mpc = "enter" /\ mutex = NoClient /\ client_count >= MAX_CLIENT
    /\ mpc' = "lost"
    /\ UNCHANGED <<clientVars, inbox, file, chatTable, client_sock, comer, thread, mutex, messages, orderly, killed>>
Create ==
    /\ mpc = "create" /\ mpc' = "accept"
    /\ thread' = [thread EXCEPT ![comer].pc = "start"]
    /\ UNCHANGED <<clientVars, inbox, file, chatTable, client_sock, comer, mutex, messages, orderly, killed>>

-----------------------------------------------------------------------------
(* handle_client *)
Goto(c, pc) == thread' = [thread EXCEPT ![c].pc = pc]
Behind(c) == file[thread[c].sock]        \* the client c's thread reads from
Start(c) ==
    /\ thread[c].pc = "start"
    /\ thread' = [thread EXCEPT ![c].pc = "read", ![c].sock = client_sock]
    /\ orderly' = (orderly /\ file[client_sock] = c)
    /\ UNCHANGED <<clientVars, inbox, file, chatTable, mpc, client_sock, comer, mutex, messages, killed>>
ReadMessage(c) ==
    LET d == Behind(c) IN
    /\ thread[c].pc = "read" /\ d # NoClient /\ unheard[d]
    /\ unheard' = [unheard EXCEPT ![d] = FALSE]
    /\ Goto(c, "send")
    /\ UNCHANGED <<talker, waiting, acts, gone, reset, econn, full, inbox, file, chatTable, mpc,
                   client_sock, comer, mutex, messages, orderly, killed>>
ReadEnd(c) ==
    LET d == Behind(c) IN
    /\ thread[c].pc = "read" /\ d # NoClient /\ ~unheard[d] /\ gone[d] /\ ~econn[d]
    /\ Goto(c, "leave")
    /\ UNCHANGED <<clientVars, inbox, file, chatTable, mpc, client_sock, comer, mutex, messages, orderly, killed>>
(* A reset connection fails one call, a closed descriptor all of them; -1  *)
(* is not 0, and send_message writes -1 bytes, which fails.                *)
ReadError(c) ==
    LET d == Behind(c) IN
    /\ thread[c].pc = "read" /\ (d # NoClient => ~unheard[d] /\ econn[d])
    /\ econn' = [x \in ChatClients |-> econn[x] /\ x # d]
    /\ Goto(c, "sendError")
    /\ UNCHANGED <<talker, waiting, acts, unheard, gone, reset, full, inbox, file, chatTable, mpc,
                   client_sock, comer, mutex, messages, orderly, killed>>
SendError(c) ==
    /\ thread[c].pc = "sendError" /\ mutex = NoClient /\ Goto(c, "read")
    /\ UNCHANGED <<clientVars, inbox, file, chatTable, mpc, client_sock, comer, mutex, messages, orderly, killed>>

(* send_message: lock, one write per entry, unlock. *)
SendBeginsUnlocked(c) ==                                         \* mutant
    /\ thread[c].pc = "send"
    /\ messages' = messages + 1
    /\ thread' = [thread EXCEPT ![c].pc = "write", ![c].i = 0, ![c].no = messages + 1]
    /\ UNCHANGED <<clientVars, inbox, file, chatTable, mpc, client_sock, comer, mutex, orderly, killed>>
SendBegins(c) ==
    /\ thread[c].pc = "send" /\ mutex = NoClient
    /\ mutex' = c /\ messages' = messages + 1
    /\ thread' = [thread EXCEPT ![c].pc = "write", ![c].i = 0, ![c].no = messages + 1]
    /\ UNCHANGED <<clientVars, inbox, file, chatTable, mpc, client_sock, comer, orderly, killed>>
Writes(c) == thread[c].pc = "write" /\ thread[c].i < client_count
NextEntry(c) == thread' = [thread EXCEPT ![c].i = @ + 1]
WriteOne(c) ==
    LET f == client_socks[thread[c].i]
        d == IF f \in Fds THEN file[f] ELSE NoClient IN
    /\ Writes(c)
    /\ \/ /\ d = NoClient                       \* EBADF
          /\ NextEntry(c) /\ UNCHANGED <<econn, full, inbox, killed>>
       \/ /\ d # NoClient /\ reset[d]
          /\ killed' = ~econn[d] /\ econn' = [econn EXCEPT ![d] = FALSE]
          /\ NextEntry(c) /\ UNCHANGED <<full, inbox>>
       \/ /\ d # NoClient /\ ~reset[d] /\ ~full[d]
          /\ full' = [full EXCEPT ![d] = TRUE]
          /\ inbox' = [inbox EXCEPT ![d] = Append(@, thread[c].no)]
          /\ NextEntry(c) /\ UNCHANGED <<econn, killed>>
    /\ UNCHANGED <<talker, waiting, acts, unheard, gone, reset, file, chatTable, mpc, client_sock,
                   comer, mutex, messages, orderly>>
SendEndsLocked(c) ==                                             \* mutant
    /\ thread[c].pc = "write" /\ thread[c].i >= client_count
    /\ thread' = [thread EXCEPT ![c].pc = "read", ![c].i = 0, ![c].no = 0]
    /\ UNCHANGED <<clientVars, inbox, file, chatTable, mpc, client_sock, comer, mutex, messages, orderly, killed>>
SendEnds(c) ==
    /\ thread[c].pc = "write" /\ thread[c].i >= client_count
    /\ mutex' = NoClient
    /\ thread' = [thread EXCEPT ![c].pc = "read", ![c].i = 0, ![c].no = 0]
    /\ UNCHANGED <<clientVars, inbox, file, chatTable, mpc, client_sock, comer, messages, orderly, killed>>

(* The removal moves the entries behind the successor of the leaver: the   *)
(* leaver's own entry stays and its successor's goes.                      *)
Entries(f) == {i \in 0 .. client_count - 1 : client_socks[i] = f}
CompactedShort(f) ==                                             \* mutant
    IF Entries(f) = {} THEN client_socks
    ELSE [j \in 0 .. MAX_CLIENT |-> IF j >= Min(Entries(f)) - 1 /\ j \in 0 .. client_count - 1
                                    THEN client_socks[j + 1] ELSE client_socks[j]]
Compacted(f) ==
    IF Entries(f) = {} THEN client_socks
    ELSE [j \in 0 .. MAX_CLIENT |-> IF j > Min(Entries(f)) /\ j < client_count
                                    THEN client_socks[j + 1] ELSE client_socks[j]]
Leave(c) ==
    LET f == thread[c].sock IN
    /\ thread[c].pc = "leave" /\ mutex = NoClient
    /\ client_socks' = Compacted(f) /\ client_count' = client_count - 1
    /\ orderly' = (orderly /\ Entries(f) = {client_count - 1})
    /\ Goto(c, "close")
    /\ UNCHANGED <<clientVars, inbox, file, mpc, client_sock, comer, mutex, messages, killed>>
CloseSock(c) ==
    /\ thread[c].pc = "close"
    /\ file' = [file EXCEPT ![thread[c].sock] = NoClient]
    /\ thread' = [thread EXCEPT ![c].pc = "over", ![c].sock = 0]
    /\ UNCHANGED <<clientVars, inbox, chatTable, mpc, client_sock, comer, mutex, messages, orderly, killed>>

Runs == ~killed /\ mpc # "lost"
ChatMain == Runs /\ (AcceptClient \/ Enter \/ EnterOverruns \/ Create)
ChatThread(c) == Runs /\ \/ Start(c) \/ ReadMessage(c) \/ ReadEnd(c) \/ ReadError(c) \/ SendError(c)
                         \/ SendBegins(c) \/ WriteOne(c) \/ SendEnds(c) \/ Leave(c) \/ CloseSock(c)
ChatNext == \/ ChatMain
            \/ \E c \in ChatClients : \/ ChatThread(c)
                                      \/ Runs /\ \/ ChatConnect(c) \/ Speak(c) \/ receive_message(c)
                                                 \/ Quit(c) \/ HostResets(c)

(* The threads are scheduled, a client that is there reads what it is      *)
(* sent, and the host of one that is not answers with a reset.             *)
ChatFair == /\ WF_chatVars(ChatMain)
            /\ \A c \in ChatClients : /\ WF_chatVars(ChatThread(c))
                                      /\ WF_chatVars(Runs /\ receive_message(c))
                                      /\ WF_chatVars(Runs /\ gone[c] /\ HostResets(c))
ChatSpec == ChatInit /\ [][ChatNext]_chatVars /\ ChatFair

-----------------------------------------------------------------------------
(* Those whose entry the table should have: entered by main, not yet       *)
(* removed by their thread.                                                *)
Present == {c \in ChatClients : \/ thread[c].pc \notin {"none", "close", "over"}
                                \/ mpc = "create" /\ comer = c}

(* All clients are written the messages in one order, however the threads  *)
(* that read them are scheduled.  client_count is the number of those that *)
(* are present, whoever left and whichever descriptor a thread got hold    *)
(* of; and as long as every leaver was the last of the table and every     *)
(* thread was in time to read client_sock, the table has the descriptor of *)
(* each of them once, and nobody is written a message twice.  The table    *)
(* overflows only when MAX_CLIENT clients are present: each that leaves    *)
(* makes room for another.                                                 *)
ChatSound ==
    /\ \A c \in ChatClients : \A j, k \in DOMAIN inbox[c] :
          j < k => inbox[c][j] <= inbox[c][k] /\ (orderly => inbox[c][j] # inbox[c][k])
    /\ client_count = Cardinality(Present)
    /\ orderly => {file[client_socks[i]] : i \in 0 .. client_count - 1} = Present
    /\ mpc = "lost" => Cardinality(Present) = MAX_CLIENT

(* What the clients say is read and sent to all, although the threads      *)
(* write under one mutex to clients that are slow or gone, and all of it   *)
(* when they fall silent: as long as the table is in order and large       *)
(* enough, and no leaver's SIGPIPE kills the server.                       *)
ChatHeard ==
    LET Pending == \E c \in ChatClients : unheard[c] \/ thread[c].pc \in {"send", "write"}
    IN Pending ~> (~Pending \/ ~orderly \/ ~Runs)
=============================================================================
