------------------------ MODULE ClientServersProof --------------------------
(***************************************************************************)
(* The servers with a thread per client: the chat server and its table,    *)
(* and the small web server with its pipes and scripts, for any number of  *)
(* clients.                                                                *)
(* The servers with a unified event source, for any finite set of users,   *)
(* any length of the slot and any bounds: no timer of a connection and no  *)
(* signal is lost.  What the calls do to the timer list is the instance    *)
(* Lst of SortTimerListProof, with the return in add_timer.                *)
(* The request parser of chapter 8, for requests of any length and buffers *)
(* of any size: wherever a request is cut, the verdict is on the whole.    *)
(***************************************************************************)
EXTENDS ChatServer, Tinyhttpd, NonActive, HttpParser, FiniteSetTheorems, SequenceTheorems,
        WellFoundedInduction, NaturalsInduction, TLAPS

Lst == INSTANCE SortTimerListProof WITH Timers <- Users, NULL <- NoTimer, Freed <- FreedTimer,
                                      Returns <- TRUE, list <- timer_lst, listFired <- {}

(* A set of naturals has a least element. *)
LEMMA Least == ASSUME NEW S \in SUBSET Nat, S # {} PROVE \E x \in S : \A y \in S : x <= y
  <1>1. \E x \in S : \A y \in S : ~(<<y, x>> \in OpToRel(<, Nat))
    BY NatLessThanWellFounded, WFMin, Zenon
  <1>2. \A p \in Nat \X Nat : p[1] < p[2] => p \in OpToRel(<, Nat)
    BY Zenon DEF OpToRel
  <1>3. \A x, y \in Nat : y < x => <<y, x>> \in OpToRel(<, Nat)
    <2> SUFFICES ASSUME NEW x \in Nat, NEW y \in Nat, y < x PROVE <<y, x>> \in OpToRel(<, Nat)
      OBVIOUS
    <2>1. <<y, x>> \in Nat \X Nat /\ <<y, x>>[1] = y /\ <<y, x>>[2] = x
      OBVIOUS
    <2>2. <<y, x>>[1] < <<y, x>>[2]
      BY <2>1
    <2> QED
      BY <1>2, <2>1, <2>2, Zenon
  <1>4. \E x \in S : \A y \in S : ~(y < x)
    BY <1>1, <1>3, Zenon
  <1> QED
    BY <1>4

-----------------------------------------------------------------------------
(* chat_server.c.  What the parts of the state are. *)
Pcs == {"none", "start", "read", "send", "sendError", "write", "leave", "close", "over"}
NoSock == {"none", "start", "over"}
Someone == ChatClients \cup {NoClient}
ChatType ==
    /\ talker \in [ChatClients -> {"idle", "queued", "in"}] /\ waiting \in Seq(ChatClients)
    /\ inbox \in [ChatClients -> Seq(Nat)] /\ file \in [Fds -> Someone]
    /\ client_socks \in [0 .. MAX_CLIENT -> Int \cup {Beyond}] /\ client_count \in Nat
    /\ mpc \in {"accept", "enter", "create", "lost"} /\ client_sock \in Int /\ comer \in Someone
    /\ thread \in [ChatClients -> [pc : Pcs, sock : Int, i : Nat, no : Nat]]
    /\ mutex \in Someone /\ messages \in Nat /\ orderly \in BOOLEAN

(* A client is accepted once, so no two descriptors are the same client's  *)
(* and its thread is made once.                                            *)
Queued == /\ \A k \in DOMAIN waiting : talker[waiting[k]] = "queued"
          /\ \A j, k \in DOMAIN waiting : waiting[j] = waiting[k] => j = k
Accepted ==
    /\ \A c \in ChatClients : talker[c] # "in" => thread[c].pc = "none"
    /\ \A x \in Fds : file[x] # NoClient => talker[file[x]] = "in"
    /\ \A x, y \in Fds : file[x] = file[y] /\ file[x] # NoClient => x = y
    /\ mpc # "accept" => /\ comer \in ChatClients /\ talker[comer] = "in" /\ thread[comer].pc = "none"
                         /\ client_sock \in Fds
    /\ \A c \in ChatClients : thread[c].pc # "none" => client_sock \in Fds
    /\ \A c \in ChatClients : thread[c].pc \notin NoSock => thread[c].sock \in Fds

(* The thread that writes holds the mutex, and the message it writes is    *)
(* the last one; what a client was written came in order.                  *)
OneWriter ==
    /\ \A c \in ChatClients : thread[c].pc = "write" =>
          mutex = c /\ thread[c].no = messages /\ thread[c].i <= client_count
    /\ mutex # NoClient => thread[mutex].pc = "write"
InOrder ==
    \A c \in ChatClients :
       /\ \A k \in DOMAIN inbox[c] : inbox[c][k] <= messages
       /\ \A j, k \in DOMAIN inbox[c] :
             j < k => inbox[c][j] <= inbox[c][k] /\ (orderly => inbox[c][j] # inbox[c][k])

(* While all is orderly: a thread has its own client's descriptor, the     *)
(* table has those of the present once each, and whoever has the message   *)
(* that is being written is behind an entry the writer has passed.         *)
OwnSocks == /\ \A c \in ChatClients : thread[c].pc \notin NoSock => file[thread[c].sock] = c
            /\ mpc # "accept" => file[client_sock] = comer
TableHolds ==
    /\ \A i \in 0 .. client_count - 1 : client_socks[i] \in Fds /\ file[client_socks[i]] \in Present
    /\ \A i, j \in 0 .. client_count - 1 : client_socks[i] = client_socks[j] => i = j
    /\ \A c \in Present : \E i \in 0 .. client_count - 1 : file[client_socks[i]] = c
Reached ==
    \A c, d \in ChatClients : thread[c].pc = "write" =>
       \A k \in DOMAIN inbox[d] : inbox[d][k] = messages =>
          \E j \in 0 .. thread[c].i - 1 : file[client_socks[j]] = d

ChatInv == /\ ChatType /\ Queued /\ Accepted /\ OneWriter /\ InOrder
           /\ client_count = Cardinality(Present) /\ client_count <= MAX_CLIENT
           /\ orderly => OwnSocks /\ TableHolds /\ Reached

(* Behind the end of the table main stores only when it is full, and then  *)
(* nothing more is known.                                                  *)
Overflows == mpc = "lost" => client_count = MAX_CLIENT

-----------------------------------------------------------------------------
LEMMA ClientsFacts ==
  /\ IsFiniteSet(ChatClients) /\ NoClient \notin ChatClients
  /\ Cardinality(ChatClients) \in Nat /\ MAX_CLIENT \in Nat
  BY ChatAssumption, FS_CardinalityType

(* Those that are present are finitely many. *)
LEMMA PresentFinite ==
  Present \in SUBSET ChatClients /\ IsFiniteSet(Present) /\ Cardinality(Present) \in Nat
  <1>1. Present \in SUBSET ChatClients
    BY DEF Present
  <1>2. IsFiniteSet(Present)
    BY <1>1, ClientsFacts, FS_Subset
  <1>3. Cardinality(Present) \in Nat
    BY <1>2, FS_CardinalityType
  <1> QED
    BY <1>1, <1>2, <1>3

LEMMA ChatStart == ChatInit => ChatInv
  <1> SUFFICES ASSUME ChatInit PROVE ChatInv
    OBVIOUS
  <1>1. ChatType
    <2>1. \A c \in ChatClients : thread[c] \in [pc : Pcs, sock : Int, i : Nat, no : Nat]
      BY DEF ChatInit, Pcs
    <2>2. client_socks \in [0 .. MAX_CLIENT -> Int \cup {Beyond}]
      BY ClientsFacts DEF ChatInit
    <2>3. waiting \in Seq(ChatClients) /\ inbox \in [ChatClients -> Seq(Nat)]
      BY EmptySeq DEF ChatInit
    <2> QED
      BY <2>1, <2>2, <2>3 DEF ChatInit, ChatType, Someone
  <1>2. Queued /\ InOrder
    BY DEF ChatInit, Queued, InOrder
  <1>3. Accepted /\ OneWriter
    BY DEF ChatInit, Accepted, OneWriter, NoSock
  <1>4. Present = {}
    BY DEF ChatInit, Present
  <1>5. client_count = Cardinality(Present)
    BY <1>4, FS_EmptySet DEF ChatInit
  <1>7. client_count <= MAX_CLIENT
    BY ClientsFacts DEF ChatInit
  <1>6. OwnSocks /\ TableHolds /\ Reached
    BY <1>4 DEF ChatInit, OwnSocks, TableHolds, Reached, NoSock
  <1> QED
    BY <1>1, <1>2, <1>3, <1>5, <1>6, <1>7 DEF ChatInv

(* What no part of the invariant speaks of. *)
chatKept == <<talker, waiting, inbox, file, chatTable, mpc, client_sock, comer, thread, mutex, messages, orderly>>
LEMMA SameChat == ASSUME ChatInv, UNCHANGED chatKept PROVE ChatInv'
  <1>1. Present' = Present
    BY DEF Present, chatKept
  <1> QED
    BY <1>1 DEF ChatInv, ChatType, Queued, Accepted, OneWriter, InOrder, OwnSocks, TableHolds, Reached,
                chatKept, chatTable

(* A step of one thread leaves the other threads alone. *)
LEMMA ThreadGoes ==
  ASSUME ChatType, NEW c \in ChatClients, NEW q \in Pcs, thread' = [thread EXCEPT ![c].pc = q]
  PROVE  /\ thread' \in [ChatClients -> [pc : Pcs, sock : Int, i : Nat, no : Nat]]
         /\ thread'[c].pc = q /\ thread'[c].sock = thread[c].sock /\ thread'[c].i = thread[c].i /\ thread'[c].no = thread[c].no
         /\ \A d \in ChatClients : d # c => thread'[d] = thread[d]
  BY DEF ChatType

(* A thread that neither begins nor ends a message, nor leaves. *)
LEMMA ThreadMoves ==
  ASSUME ChatInv, NEW c \in ChatClients, NEW q \in {"read", "send", "sendError", "leave"},
         thread[c].pc \in {"read", "send", "sendError", "leave"}, thread' = [thread EXCEPT ![c].pc = q],
         UNCHANGED <<talker, waiting, inbox, file, chatTable, mpc, client_sock, comer, mutex, messages, orderly>>
  PROVE  ChatInv'
  <1>1. /\ thread' \in [ChatClients -> [pc : Pcs, sock : Int, i : Nat, no : Nat]]
        /\ thread'[c].pc = q /\ thread'[c].sock = thread[c].sock
        /\ \A d \in ChatClients : d # c => thread'[d] = thread[d]
    BY ThreadGoes DEF ChatInv, Pcs
  <1>2. ChatType' /\ Queued' /\ InOrder'
    BY <1>1 DEF ChatInv, ChatType, Queued, InOrder, chatTable
  <1>3. Accepted'
    BY <1>1 DEF ChatInv, Accepted, NoSock
  <1>4. OneWriter'
    BY <1>1 DEF ChatInv, OneWriter, chatTable, ChatType, Someone
  <1>5. Present' = Present
    BY <1>1 DEF Present
  <1>6. orderly' => OwnSocks' /\ TableHolds' /\ Reached'
    <2> SUFFICES ASSUME orderly PROVE OwnSocks' /\ TableHolds' /\ Reached'
      OBVIOUS
    <2>1. OwnSocks'
      BY <1>1 DEF ChatInv, OwnSocks, NoSock
    <2>2. TableHolds'
      BY <1>5 DEF ChatInv, TableHolds, chatTable
    <2>3. Reached'
      BY <1>1 DEF ChatInv, Reached, chatTable
    <2> QED
      BY <2>1, <2>2, <2>3
  <1> QED
    BY <1>2, <1>3, <1>4, <1>5, <1>6 DEF ChatInv, chatTable

LEMMA StartKeeps == ASSUME ChatInv, NEW c \in ChatClients, Start(c) PROVE ChatInv'
  <1>1. /\ thread[c].pc = "start" /\ client_sock \in Fds /\ client_sock \in Int
        /\ thread' = [thread EXCEPT ![c].pc = "read", ![c].sock = client_sock]
        /\ UNCHANGED <<talker, waiting, inbox, file, chatTable, mpc, client_sock, comer, mutex, messages>>
        /\ orderly' = (orderly /\ file[client_sock] = c)
    BY DEF Start, ChatInv, Accepted, ChatType, clientVars
  <1>2. /\ thread' \in [ChatClients -> [pc : Pcs, sock : Int, i : Nat, no : Nat]]
        /\ thread'[c].pc = "read" /\ thread'[c].sock = client_sock
        /\ \A d \in ChatClients : d # c => thread'[d] = thread[d]
    BY <1>1 DEF ChatInv, ChatType, Pcs
  <1>a. orderly' \in BOOLEAN /\ (orderly' => orderly)
    BY <1>1 DEF ChatInv, ChatType
  <1>3. ChatType' /\ Queued' /\ InOrder'
    <2>1. ChatType'
      BY <1>1, <1>2, <1>a DEF ChatInv, ChatType, chatTable
    <2>2. Queued' /\ InOrder'
      BY <1>1, <1>a DEF ChatInv, Queued, InOrder
    <2> QED
      BY <2>1, <2>2
  <1>4. Accepted'
    BY <1>1, <1>2 DEF ChatInv, Accepted, NoSock
  <1>5. OneWriter'
    BY <1>1, <1>2 DEF ChatInv, OneWriter, chatTable, ChatType, Someone
  <1>6. Present' = Present
    BY <1>1, <1>2 DEF Present
  <1>7. orderly' => OwnSocks' /\ TableHolds' /\ Reached'
    <2> SUFFICES ASSUME orderly, file[client_sock] = c PROVE OwnSocks' /\ TableHolds' /\ Reached'
      BY <1>1
    <2>1. OwnSocks'
      BY <1>1, <1>2 DEF ChatInv, OwnSocks, NoSock
    <2>2. TableHolds'
      BY <1>1, <1>6 DEF ChatInv, TableHolds, chatTable
    <2>3. Reached'
      BY <1>1, <1>2 DEF ChatInv, Reached, chatTable
    <2> QED
      BY <2>1, <2>2, <2>3
  <1> QED
    BY <1>1, <1>3, <1>4, <1>5, <1>6, <1>7 DEF ChatInv, chatTable

LEMMA ConnectKeeps == ASSUME ChatInv, NEW c \in ChatClients, ChatConnect(c) PROVE ChatInv'
  <1>1. /\ talker[c] = "idle" /\ talker' = [talker EXCEPT ![c] = "queued"] /\ waiting' = Append(waiting, c)
        /\ UNCHANGED <<inbox, file, chatTable, mpc, client_sock, comer, thread, mutex, messages, orderly>>
    BY DEF ChatConnect, roomVars
  <1>2. waiting \in Seq(ChatClients) /\ talker \in [ChatClients -> {"idle", "queued", "in"}]
    BY DEF ChatInv, ChatType
  <1>3. /\ waiting' \in Seq(ChatClients) /\ DOMAIN waiting = 1 .. Len(waiting) /\ Len(waiting) \in Nat
        /\ DOMAIN waiting' = 1 .. Len(waiting) + 1 /\ waiting'[Len(waiting) + 1] = c
        /\ \A k \in 1 .. Len(waiting) : waiting'[k] = waiting[k] /\ waiting[k] \in ChatClients
    BY <1>1, <1>2
  <1>4. ChatType'
    BY <1>1, <1>2, <1>3 DEF ChatInv, ChatType, chatTable
  <1>5. Queued'
    <2>1. \A k \in 1 .. Len(waiting) : waiting[k] # c
      BY <1>1, <1>3 DEF ChatInv, Queued
    <2>2. \A k \in DOMAIN waiting' : talker'[waiting'[k]] = "queued"
      BY <1>1, <1>2, <1>3 DEF ChatInv, Queued
    <2>3. \A j, k \in DOMAIN waiting' : waiting'[j] = waiting'[k] => j = k
      BY <1>3, <2>1 DEF ChatInv, Queued
    <2> QED
      BY <2>2, <2>3 DEF Queued
  <1>6. Accepted'
    BY <1>1, <1>2, ClientsFacts DEF ChatInv, Accepted, ChatType, Someone
  <1>7. Present' = Present
    BY <1>1 DEF Present
  <1>8. OneWriter' /\ InOrder' /\ (orderly' => OwnSocks' /\ TableHolds' /\ Reached')
    BY <1>1, <1>7 DEF ChatInv, OneWriter, InOrder, OwnSocks, TableHolds, Reached, chatTable
  <1> QED
    BY <1>1, <1>4, <1>5, <1>6, <1>7, <1>8 DEF ChatInv, chatTable

-----------------------------------------------------------------------------
(* accept: there is a free descriptor for a client that is not in. *)
LEMMA FreeFd ==
  ASSUME ChatInv, NEW c \in ChatClients, talker[c] # "in"
  PROVE  Min({x \in Fds : file[x] = NoClient}) \in {x \in Fds : file[x] = NoClient}
  <1> DEFINE S == {x \in Fds : file[x] = NoClient}
             n == Cardinality(ChatClients)
  <1>1. n \in Nat /\ Fds = 1 .. n /\ n # 0
    <2>1. n # 0
      BY ClientsFacts, FS_EmptySet
    <2> QED
      BY <2>1, ClientsFacts DEF Fds
  <1>2. S # {}
    <2> SUFFICES ASSUME S = {} PROVE FALSE
      OBVIOUS
    <2>1. file \in [Fds -> ChatClients \ {c}]
      BY DEF ChatInv, ChatType, Accepted, Someone
    <2>2. IsFiniteSet(ChatClients \ {c}) /\ Cardinality(ChatClients \ {c}) = n - 1
      BY ClientsFacts, FS_RemoveElement
    <2>3. IsFiniteSet(Fds) /\ Cardinality(Fds) = n
      BY <1>1, FS_Interval
    <2>4. Cardinality(ChatClients \ {c}) < Cardinality(Fds)
      BY <1>1, <2>2, <2>3
    <2>5. \E x, y \in Fds : x # y /\ file[x] = file[y]
      BY <2>1, <2>2, <2>3, <2>4, FS_PigeonHole
    <2> QED
      BY <2>1, <2>5, ClientsFacts DEF ChatInv, Accepted
  <1>3. S \in SUBSET Nat
    BY <1>1
  <1> HIDE DEF S
  <1>4. \E x \in S : \A y \in S : x <= y
    BY <1>2, <1>3, Least
  <1>5. Min(S) \in S
    BY <1>4 DEF Min
  <1> QED
    BY <1>5 DEF S

LEMMA AcceptKeeps == ASSUME ChatInv, AcceptClient PROVE ChatInv'
  <1> DEFINE c == Head(waiting)
             f == Min({x \in Fds : file[x] = NoClient})
  <1>1. /\ mpc = "accept" /\ waiting # <<>> /\ talker' = [talker EXCEPT ![c] = "in"] /\ waiting' = Tail(waiting)
        /\ file' = [file EXCEPT ![f] = c] /\ client_sock' = f /\ comer' = c /\ mpc' = "enter"
        /\ UNCHANGED <<inbox, chatTable, thread, mutex, messages, orderly>>
    BY DEF AcceptClient
  <1>2. waiting \in Seq(ChatClients) /\ talker \in [ChatClients -> {"idle", "queued", "in"}] /\ file \in [Fds -> Someone]
    BY DEF ChatInv, ChatType
  <1>3. /\ c \in ChatClients /\ c = waiting[1] /\ waiting' \in Seq(ChatClients) /\ Len(waiting) \in Nat \ {0}
        /\ DOMAIN waiting = 1 .. Len(waiting) /\ DOMAIN waiting' = 1 .. Len(waiting) - 1
        /\ \A k \in 1 .. Len(waiting) - 1 : waiting'[k] = waiting[k + 1] /\ waiting[k + 1] \in ChatClients
    BY <1>1, <1>2
  <1>4. talker[c] = "queued" /\ thread[c].pc = "none"
    BY <1>3 DEF ChatInv, Queued, Accepted
  <1>5. f \in Fds /\ file[f] = NoClient /\ f \in Int
    <2>1. f \in {x \in Fds : file[x] = NoClient}
      BY <1>3, <1>4, FreeFd
    <2> QED
      BY <2>1, ClientsFacts DEF Fds
  <1> HIDE DEF c, f
  <1>6. ChatType'
    BY <1>1, <1>2, <1>3, <1>5 DEF ChatInv, ChatType, Someone, chatTable
  <1>7. Queued'
    <2>1. \A k \in 1 .. Len(waiting) - 1 : k + 1 \in 1 .. Len(waiting) /\ k + 1 # 1
      BY <1>3
    <2>2. ASSUME NEW k \in 1 .. Len(waiting) - 1 PROVE waiting'[k] # c /\ talker[waiting'[k]] = "queued"
      <3>1. k + 1 \in DOMAIN waiting /\ 1 \in DOMAIN waiting /\ k + 1 # 1 /\ waiting'[k] = waiting[k + 1]
        BY <1>3, <2>1, <2>2
      <3>2. waiting[k + 1] # waiting[1] /\ talker[waiting[k + 1]] = "queued"
        BY <3>1 DEF ChatInv, Queued
      <3> QED
        BY <1>3, <3>1, <3>2
    <2>3. \A k \in DOMAIN waiting' : talker'[waiting'[k]] = "queued"
      BY <1>1, <1>2, <1>3, <2>2
    <2>4. \A j, k \in DOMAIN waiting' : waiting'[j] = waiting'[k] => j = k
      BY <1>3, <2>1 DEF ChatInv, Queued
    <2> QED
      BY <2>3, <2>4 DEF Queued
  <1>8. Accepted'
    <2>1. \A x \in Fds : file[x] # c
      BY <1>3, <1>4, ClientsFacts DEF ChatInv, Accepted
    <2>2. \A d \in ChatClients : talker'[d] = IF d = c THEN "in" ELSE talker[d]
      BY <1>1, <1>2
    <2>3. \A x \in Fds : file'[x] = (IF x = f THEN c ELSE file[x]) /\ file[x] \in Someone
      BY <1>1, <1>2
    <2>4. \A d \in ChatClients : talker'[d] # "in" => thread'[d].pc = "none"
      BY <1>1, <2>2 DEF ChatInv, Accepted
    <2>5. \A x \in Fds : file'[x] # NoClient => talker'[file'[x]] = "in"
      BY <1>3, <2>2, <2>3 DEF ChatInv, Accepted, Someone
    <2>6. \A x, y \in Fds : file'[x] = file'[y] /\ file'[x] # NoClient => x = y
      BY <2>1, <2>3 DEF ChatInv, Accepted
    <2> QED
      BY <1>1, <1>3, <1>4, <1>5, <2>2, <2>4, <2>5, <2>6 DEF ChatInv, Accepted
  <1>9. Present' = Present
    BY <1>1 DEF Present
  <1>10. OneWriter' /\ InOrder'
    BY <1>1 DEF ChatInv, OneWriter, InOrder, chatTable
  <1>11. ASSUME orderly PROVE OwnSocks' /\ TableHolds' /\ Reached'
    <2>1. OwnSocks'
      BY <1>1, <1>2, <1>5, <1>11, ClientsFacts DEF ChatInv, OwnSocks, Accepted
    <2>2. \A i \in 0 .. client_count - 1 : client_socks[i] \in Fds /\ file'[client_socks[i]] = file[client_socks[i]]
      BY <1>1, <1>2, <1>5, <1>11, ClientsFacts DEF ChatInv, TableHolds, Present
    <2>3. TableHolds'
      BY <1>1, <1>9, <1>11, <2>2 DEF ChatInv, TableHolds, chatTable
    <2>4. Reached'
      <3>1. \A d \in ChatClients : thread[d].pc = "write" => thread[d].i <= client_count /\ thread[d].i \in Nat /\ client_count \in Nat
        BY DEF ChatInv, OneWriter, ChatType
      <3>2. \A d \in ChatClients : thread[d].pc = "write" => \A j \in 0 .. thread[d].i - 1 : j \in 0 .. client_count - 1
        BY <3>1
      <3> QED
        BY <1>1, <1>11, <2>2, <3>2 DEF ChatInv, Reached, chatTable
    <2> QED
      BY <2>1, <2>3, <2>4
  <1> QED
    BY <1>1, <1>6, <1>7, <1>8, <1>9, <1>10, <1>11 DEF ChatInv, chatTable

LEMMA CreateKeeps == ASSUME ChatInv, Create PROVE ChatInv'
  <1>1. /\ mpc = "create" /\ mpc' = "accept" /\ thread' = [thread EXCEPT ![comer].pc = "start"]
        /\ UNCHANGED <<talker, waiting, inbox, file, chatTable, client_sock, comer, mutex, messages, orderly>>
    BY DEF Create, clientVars
  <1>2. comer \in ChatClients /\ talker[comer] = "in" /\ thread[comer].pc = "none" /\ client_sock \in Fds
    BY <1>1 DEF ChatInv, Accepted
  <1>3. /\ thread' \in [ChatClients -> [pc : Pcs, sock : Int, i : Nat, no : Nat]] /\ thread'[comer].pc = "start"
        /\ \A d \in ChatClients : d # comer => thread'[d] = thread[d]
    BY <1>1, <1>2, ThreadGoes DEF ChatInv, Pcs
  <1>4. ChatType' /\ Queued' /\ InOrder'
    BY <1>1, <1>3 DEF ChatInv, ChatType, Queued, InOrder, chatTable
  <1>5. Accepted'
    BY <1>1, <1>2, <1>3 DEF ChatInv, Accepted, NoSock
  <1>6. OneWriter'
    BY <1>1, <1>2, <1>3 DEF ChatInv, OneWriter, ChatType, Someone, chatTable
  <1>7. Present' = Present
    BY <1>1, <1>2, <1>3 DEF Present
  <1>8. ASSUME orderly PROVE OwnSocks' /\ TableHolds' /\ Reached'
    <2>1. OwnSocks'
      BY <1>1, <1>2, <1>3, <1>8 DEF ChatInv, OwnSocks, NoSock
    <2>2. TableHolds'
      BY <1>1, <1>7, <1>8 DEF ChatInv, TableHolds, chatTable
    <2>3. Reached'
      BY <1>1, <1>2, <1>3, <1>8 DEF ChatInv, Reached, chatTable
    <2> QED
      BY <2>1, <2>2, <2>3
  <1> QED
    BY <1>1, <1>4, <1>5, <1>6, <1>7, <1>8 DEF ChatInv, chatTable

LEMMA EnterKeeps == ASSUME ChatInv, Enter PROVE ChatInv'
  <1>1. /\ mpc = "enter" /\ mutex = NoClient /\ mpc' = "create" /\ client_count < MAX_CLIENT
        /\ client_socks' = [client_socks EXCEPT ![client_count] = client_sock] /\ client_count' = client_count + 1
        /\ UNCHANGED <<talker, waiting, inbox, file, client_sock, comer, thread, mutex, messages, orderly>>
    BY DEF Enter, clientVars
  <1>2. /\ comer \in ChatClients /\ talker[comer] = "in" /\ thread[comer].pc = "none" /\ client_sock \in Fds
        /\ client_sock \in Int /\ client_count \in Nat /\ client_count = Cardinality(Present)
        /\ client_socks \in [0 .. MAX_CLIENT -> Int \cup {Beyond}]
    BY <1>1 DEF ChatInv, Accepted, ChatType
  <1>3. comer \notin Present /\ Present' = Present \cup {comer}
    BY <1>1, <1>2 DEF Present
  <1>4. client_count' = Cardinality(Present')
    BY <1>1, <1>2, <1>3, PresentFinite, FS_AddElement
  <1>5. client_count < MAX_CLIENT /\ MAX_CLIENT \in Nat /\ client_count' <= MAX_CLIENT
    BY <1>1, <1>2, ClientsFacts
  <1>6. /\ client_socks' \in [0 .. MAX_CLIENT -> Int \cup {Beyond}] /\ client_socks'[client_count] = client_sock
        /\ \A i \in 0 .. client_count - 1 : client_socks'[i] = client_socks[i]
    BY <1>1, <1>2, <1>5
  <1>7. ChatType' /\ Queued' /\ Accepted' /\ InOrder'
    BY <1>1, <1>2, <1>6 DEF ChatInv, ChatType, Queued, Accepted, InOrder
  <1>8. \A d \in ChatClients : thread[d].pc # "write"
    BY <1>1, ClientsFacts DEF ChatInv, OneWriter
  <1>9. OneWriter'
    BY <1>1, <1>8 DEF OneWriter
  <1>10. ASSUME orderly PROVE OwnSocks' /\ TableHolds' /\ Reached'
    <2>1. OwnSocks'
      BY <1>1, <1>10 DEF ChatInv, OwnSocks
    <2>2. Reached'
      BY <1>1, <1>8 DEF Reached
    <2>3. file[client_sock] = comer
      BY <1>1, <1>10 DEF ChatInv, OwnSocks
    <2>4. \A i \in 0 .. client_count - 1 : client_socks[i] \in Fds /\ file[client_socks[i]] \in Present
      BY <1>10 DEF ChatInv, TableHolds
    <2>5. \A i \in 0 .. client_count - 1 : client_socks[i] # client_sock
      BY <1>3, <2>3, <2>4
    <2>6. client_count' - 1 = client_count /\ \A i \in 0 .. client_count : i = client_count \/ i \in 0 .. client_count - 1
      BY <1>1, <1>2
    <2>7. \A i \in 0 .. client_count : client_socks'[i] \in Fds /\ file'[client_socks'[i]] \in Present'
      BY <1>1, <1>2, <1>3, <1>6, <2>3, <2>4, <2>6
    <2>8. \A i, j \in 0 .. client_count : client_socks'[i] = client_socks'[j] => i = j
      BY <1>6, <1>10, <2>5, <2>6 DEF ChatInv, TableHolds
    <2>9. \A d \in Present' : \E i \in 0 .. client_count : file'[client_socks'[i]] = d
      <3>1. client_count \in 0 .. client_count /\ \A i \in 0 .. client_count - 1 : i \in 0 .. client_count
        BY <1>2
      <3> QED
        BY <1>1, <1>3, <1>6, <1>10, <2>3, <3>1 DEF ChatInv, TableHolds
    <2> QED
      BY <2>1, <2>2, <2>6, <2>7, <2>8, <2>9 DEF TableHolds
  <1> QED
    BY <1>1, <1>4, <1>5, <1>7, <1>9, <1>10 DEF ChatInv

LEMMA OverrunKeeps == ASSUME ChatInv, EnterOverruns PROVE ChatInv'
  <1>1. /\ mpc = "enter" /\ mpc' = "lost"
        /\ UNCHANGED <<talker, waiting, inbox, file, chatTable, client_sock, comer, thread, mutex, messages, orderly>>
    BY DEF EnterOverruns, clientVars
  <1>2. Present' = Present
    BY <1>1 DEF Present
  <1>3. ChatType' /\ Queued' /\ Accepted' /\ OneWriter' /\ InOrder'
    BY <1>1 DEF ChatInv, ChatType, Queued, Accepted, OneWriter, InOrder, chatTable
  <1>4. orderly' => OwnSocks' /\ TableHolds' /\ Reached'
    BY <1>1, <1>2 DEF ChatInv, OwnSocks, TableHolds, Reached, chatTable
  <1> QED
    BY <1>1, <1>2, <1>3, <1>4 DEF ChatInv, chatTable

-----------------------------------------------------------------------------
(* send_message *)
LEMMA BeginsKeeps == ASSUME ChatInv, NEW c \in ChatClients, SendBegins(c) PROVE ChatInv'
  <1>1. /\ thread[c].pc = "send" /\ mutex = NoClient /\ mutex' = c /\ messages' = messages + 1
        /\ thread' = [thread EXCEPT ![c].pc = "write", ![c].i = 0, ![c].no = messages + 1]
        /\ UNCHANGED <<talker, waiting, inbox, file, chatTable, mpc, client_sock, comer, orderly>>
    BY DEF SendBegins, clientVars
  <1>2. messages \in Nat /\ messages + 1 \in Nat /\ client_count \in Nat
    BY DEF ChatInv, ChatType
  <1>3. /\ thread' \in [ChatClients -> [pc : Pcs, sock : Int, i : Nat, no : Nat]]
        /\ thread'[c].pc = "write" /\ thread'[c].i = 0 /\ thread'[c].no = messages + 1 /\ thread'[c].sock = thread[c].sock
        /\ \A d \in ChatClients : d # c => thread'[d] = thread[d]
    <2> DEFINE m == messages + 1
    <2>1. m \in Nat /\ thread' = [thread EXCEPT ![c].pc = "write", ![c].i = 0, ![c].no = m]
      BY <1>1, <1>2
    <2> HIDE DEF m
    <2>2. /\ thread' \in [ChatClients -> [pc : Pcs, sock : Int, i : Nat, no : Nat]]
          /\ thread'[c].pc = "write" /\ thread'[c].i = 0 /\ thread'[c].no = m /\ thread'[c].sock = thread[c].sock
          /\ \A d \in ChatClients : d # c => thread'[d] = thread[d]
      BY <2>1 DEF ChatInv, ChatType, Pcs
    <2> QED
      BY <2>2 DEF m
  <1>4. ChatType' /\ Queued'
    BY <1>1, <1>2, <1>3 DEF ChatInv, ChatType, Queued, Someone, chatTable
  <1>5. Accepted'
    BY <1>1, <1>3 DEF ChatInv, Accepted, NoSock
  <1>6. \A d \in ChatClients : thread[d].pc # "write"
    BY <1>1, ClientsFacts DEF ChatInv, OneWriter
  <1>7. OneWriter'
    BY <1>1, <1>2, <1>3, <1>6 DEF OneWriter, chatTable
  <1>8. \A d \in ChatClients : \A k \in DOMAIN inbox[d] : inbox[d][k] \in Nat /\ inbox[d][k] <= messages
    BY ElementOfSeq DEF ChatInv, ChatType, InOrder
  <1>9. InOrder'
    BY <1>1, <1>2, <1>8 DEF ChatInv, InOrder
  <1>10. Present' = Present
    BY <1>1, <1>3 DEF Present
  <1>11. ASSUME orderly PROVE OwnSocks' /\ TableHolds' /\ Reached'
    <2>1. OwnSocks'
      BY <1>1, <1>3, <1>11 DEF ChatInv, OwnSocks, NoSock
    <2>2. TableHolds'
      BY <1>1, <1>10, <1>11 DEF ChatInv, TableHolds, chatTable
    <2>3. \A d \in ChatClients : \A k \in DOMAIN inbox[d] : inbox[d][k] # messages + 1
      BY <1>2, <1>8
    <2>4. Reached'
      BY <1>1, <2>3 DEF Reached
    <2> QED
      BY <2>1, <2>2, <2>4
  <1> QED
    BY <1>1, <1>4, <1>5, <1>7, <1>9, <1>10, <1>11 DEF ChatInv, chatTable

LEMMA EndsKeeps == ASSUME ChatInv, NEW c \in ChatClients, SendEnds(c) PROVE ChatInv'
  <1>1. /\ thread[c].pc = "write" /\ mutex' = NoClient
        /\ thread' = [thread EXCEPT ![c].pc = "read", ![c].i = 0, ![c].no = 0]
        /\ UNCHANGED <<talker, waiting, inbox, file, chatTable, mpc, client_sock, comer, messages, orderly>>
    BY DEF SendEnds, clientVars
  <1>2. /\ thread' \in [ChatClients -> [pc : Pcs, sock : Int, i : Nat, no : Nat]]
        /\ thread'[c].pc = "read" /\ thread'[c].sock = thread[c].sock
        /\ \A d \in ChatClients : d # c => thread'[d] = thread[d]
    BY <1>1 DEF ChatInv, ChatType, Pcs
  <1>3. ChatType' /\ Queued' /\ InOrder'
    <2>1. ChatType'
      BY <1>1, <1>2 DEF ChatInv, ChatType, Someone, chatTable
    <2>2. Queued' /\ InOrder'
      BY <1>1 DEF ChatInv, Queued, InOrder
    <2> QED
      BY <2>1, <2>2
  <1>4. Accepted'
    BY <1>1, <1>2 DEF ChatInv, Accepted, NoSock
  <1>5. \A d \in ChatClients : thread'[d].pc # "write"
    BY <1>1, <1>2 DEF ChatInv, OneWriter
  <1>6. OneWriter'
    BY <1>1, <1>5 DEF OneWriter
  <1>7. Present' = Present
    BY <1>1, <1>2 DEF Present
  <1>8. ASSUME orderly PROVE OwnSocks' /\ TableHolds' /\ Reached'
    <2>1. OwnSocks'
      BY <1>1, <1>2, <1>8 DEF ChatInv, OwnSocks, NoSock
    <2>2. TableHolds'
      BY <1>1, <1>7, <1>8 DEF ChatInv, TableHolds, chatTable
    <2>3. Reached'
      BY <1>5 DEF Reached
    <2> QED
      BY <2>1, <2>2, <2>3
  <1> QED
    BY <1>1, <1>3, <1>4, <1>6, <1>7, <1>8 DEF ChatInv, chatTable

(* One write: d, if there is one, gets the message of the thread. *)
LEMMA NextEntryFacts ==
  ASSUME ChatInv, NEW c \in ChatClients, Writes(c), NextEntry(c)
  PROVE  /\ thread' \in [ChatClients -> [pc : Pcs, sock : Int, i : Nat, no : Nat]]
         /\ thread'[c].pc = "write" /\ thread'[c].i = thread[c].i + 1 /\ thread'[c].no = thread[c].no
         /\ thread'[c].sock = thread[c].sock /\ thread[c].pc = "write" /\ thread[c].i \in Nat /\ client_count \in Nat
         /\ thread[c].i < client_count /\ mutex = c /\ thread[c].no = messages /\ messages \in Nat
         /\ \A d \in ChatClients : d # c => thread'[d] = thread[d] /\ thread[d].pc # "write"
  <1>1. /\ thread[c].pc = "write" /\ thread[c].i \in Nat /\ client_count \in Nat /\ thread[c].i < client_count
        /\ mutex = c /\ thread[c].no = messages /\ messages \in Nat
    BY DEF ChatInv, ChatType, OneWriter, Writes
  <1>2. \A d \in ChatClients : d # c => thread[d].pc # "write"
    BY <1>1 DEF ChatInv, OneWriter
  <1> DEFINE n == thread[c].i + 1
  <1>3. n \in Nat /\ thread' = [thread EXCEPT ![c].i = n]
    BY <1>1 DEF NextEntry
  <1> HIDE DEF n
  <1>4. /\ thread' \in [ChatClients -> [pc : Pcs, sock : Int, i : Nat, no : Nat]]
        /\ thread'[c].pc = thread[c].pc /\ thread'[c].i = n /\ thread'[c].no = thread[c].no /\ thread'[c].sock = thread[c].sock
        /\ \A d \in ChatClients : d # c => thread'[d] = thread[d]
    BY <1>3 DEF ChatInv, ChatType
  <1> QED
    BY <1>1, <1>2, <1>4 DEF n

LEMMA WritesRest ==
  ASSUME ChatInv, NEW c \in ChatClients, Writes(c), NextEntry(c),
         UNCHANGED <<talker, waiting, file, chatTable, mpc, client_sock, comer, mutex, messages, orderly>>
  PROVE  /\ Queued' /\ Accepted' /\ OneWriter' /\ client_count' = Cardinality(Present')
         /\ orderly' => OwnSocks' /\ TableHolds'
         /\ inbox' \in [ChatClients -> Seq(Nat)] => ChatType'
  <1>1. /\ thread' \in [ChatClients -> [pc : Pcs, sock : Int, i : Nat, no : Nat]]
        /\ thread'[c].pc = "write" /\ thread'[c].i = thread[c].i + 1 /\ thread'[c].no = thread[c].no
        /\ thread'[c].sock = thread[c].sock /\ thread[c].pc = "write" /\ thread[c].i \in Nat /\ client_count \in Nat
        /\ thread[c].i < client_count /\ mutex = c /\ thread[c].no = messages /\ messages \in Nat
        /\ \A d \in ChatClients : d # c => thread'[d] = thread[d] /\ thread[d].pc # "write"
    BY NextEntryFacts
  <1>2. Queued' /\ (inbox' \in [ChatClients -> Seq(Nat)] => ChatType')
    BY <1>1 DEF ChatInv, Queued, ChatType, chatTable
  <1>3. Accepted'
    BY <1>1 DEF ChatInv, Accepted, NoSock
  <1>4. OneWriter'
    BY <1>1 DEF OneWriter, chatTable
  <1>5. Present' = Present
    BY <1>1 DEF Present
  <1>6. ASSUME orderly PROVE OwnSocks' /\ TableHolds'
    <2>1. OwnSocks'
      BY <1>1, <1>6 DEF ChatInv, OwnSocks, NoSock
    <2>2. TableHolds'
      BY <1>5, <1>6 DEF ChatInv, TableHolds, chatTable
    <2> QED
      BY <2>1, <2>2
  <1> QED
    BY <1>2, <1>3, <1>4, <1>5, <1>6 DEF ChatInv, chatTable

LEMMA WriteKeeps == ASSUME ChatInv, NEW c \in ChatClients, WriteOne(c) PROVE ChatInv'
  <1> DEFINE f == client_socks[thread[c].i]
             e == IF f \in Fds THEN file[f] ELSE NoClient
  <1>1. /\ Writes(c) /\ NextEntry(c)
        /\ UNCHANGED <<talker, waiting, file, chatTable, mpc, client_sock, comer, mutex, messages, orderly>>
        /\ \/ UNCHANGED inbox
           \/ e # NoClient /\ inbox' = [inbox EXCEPT ![e] = Append(@, thread[c].no)]
    BY DEF WriteOne
  <1> HIDE DEF e
  <1>2. /\ Queued' /\ Accepted' /\ OneWriter' /\ client_count' = Cardinality(Present')
        /\ orderly' => OwnSocks' /\ TableHolds'
        /\ inbox' \in [ChatClients -> Seq(Nat)] => ChatType'
    BY <1>1, WritesRest
  <1>3. /\ thread'[c].pc = "write" /\ thread'[c].i = thread[c].i + 1 /\ thread[c].pc = "write" /\ thread[c].i \in Nat
        /\ thread[c].i < client_count /\ client_count \in Nat /\ thread[c].no = messages /\ messages \in Nat
        /\ \A d \in ChatClients : d # c => thread'[d] = thread[d] /\ thread[d].pc # "write"
    BY <1>1, NextEntryFacts
  <1>4. inbox \in [ChatClients -> Seq(Nat)]
    BY DEF ChatInv, ChatType
  <1>5. \A j \in 0 .. thread[c].i - 1 : j \in 0 .. thread'[c].i - 1
    BY <1>3
  <1>6. CASE UNCHANGED inbox
    <2>1. InOrder' /\ ChatType'
      BY <1>1, <1>2, <1>4, <1>6 DEF ChatInv, InOrder
    <2>2. orderly => Reached'
      BY <1>1, <1>3, <1>5, <1>6 DEF ChatInv, Reached, chatTable
    <2> QED
      BY <1>1, <1>2, <2>1, <2>2 DEF ChatInv, chatTable
  <1>7. CASE e # NoClient /\ inbox' = [inbox EXCEPT ![e] = Append(@, thread[c].no)]
    <2>1. f \in Fds /\ e = file[f] /\ e \in ChatClients
      BY <1>7 DEF e, ChatInv, ChatType, Someone
    <2> DEFINE s == inbox[e]
               t == inbox'[e]
    <2>2. s \in Seq(Nat) /\ t = Append(s, messages) /\ inbox' \in [ChatClients -> Seq(Nat)]
          /\ \A d \in ChatClients : d # e => inbox'[d] = inbox[d]
      <3>1. Append(s, messages) \in Seq(Nat)
        BY <1>3, <1>4, <2>1
      <3> QED
        BY <1>3, <1>4, <1>7, <2>1, <3>1
    <2> HIDE DEF s, t
    <2>3. /\ Len(s) \in Nat /\ DOMAIN s = 1 .. Len(s) /\ DOMAIN t = 1 .. Len(s) + 1
          /\ t[Len(s) + 1] = messages /\ \A k \in 1 .. Len(s) : t[k] = s[k] /\ s[k] \in Nat
      BY <1>3, <2>2
    <2>4. \A k \in 1 .. Len(s) : s[k] <= messages
      BY <2>1, <2>3 DEF ChatInv, InOrder, s
    <2>5. ASSUME orderly PROVE \A k \in 1 .. Len(s) : s[k] # messages
      <3> SUFFICES ASSUME NEW k \in 1 .. Len(s), s[k] = messages PROVE FALSE
        OBVIOUS
      <3>1. PICK j \in 0 .. thread[c].i - 1 : file[client_socks[j]] = e
        BY <1>3, <2>1, <2>3, <2>5 DEF ChatInv, Reached, s
      <3>2. j \in 0 .. client_count - 1 /\ thread[c].i \in 0 .. client_count - 1 /\ j # thread[c].i
        BY <1>3
      <3>3. client_socks[j] \in Fds
        BY <2>5, <3>2 DEF ChatInv, TableHolds
      <3>4. client_socks[j] = f
        BY <1>7, <2>1, <3>1, <3>3 DEF ChatInv, Accepted
      <3> QED
        BY <2>5, <3>2, <3>4 DEF ChatInv, TableHolds
    <2>6. \A d \in ChatClients : d # e => \A k \in DOMAIN inbox'[d] : inbox'[d][k] <= messages
      BY <2>2 DEF ChatInv, InOrder
    <2>7. \A k \in DOMAIN t : t[k] <= messages
      BY <1>3, <2>3, <2>4
    <2>8. \A j, k \in DOMAIN t : j < k => t[j] <= t[k] /\ (orderly => t[j] # t[k])
      <3> SUFFICES ASSUME NEW j \in DOMAIN t, NEW k \in DOMAIN t, j < k PROVE t[j] <= t[k] /\ (orderly => t[j] # t[k])
        OBVIOUS
      <3>1. j \in 1 .. Len(s) /\ t[j] = s[j]
        BY <2>3
      <3>2. CASE k = Len(s) + 1
        BY <2>3, <2>4, <2>5, <3>1, <3>2
      <3>3. CASE k # Len(s) + 1
        <4>1. k \in 1 .. Len(s) /\ t[k] = s[k]
          BY <2>3, <3>3
        <4>2. s[j] <= s[k] /\ (orderly => s[j] # s[k])
          <5>1. \A x, y \in DOMAIN s : x < y => s[x] <= s[y] /\ (orderly => s[x] # s[y])
            BY <2>1 DEF ChatInv, InOrder, s
          <5> QED
            BY <2>3, <3>1, <4>1, <5>1
        <4> QED
          BY <3>1, <4>1, <4>2
      <3> QED
        BY <3>2, <3>3
    <2>9. InOrder'
      <3> SUFFICES ASSUME NEW d \in ChatClients
                   PROVE  /\ \A k \in DOMAIN inbox'[d] : inbox'[d][k] <= messages'
                          /\ \A j, k \in DOMAIN inbox'[d] : j < k =>
                                inbox'[d][j] <= inbox'[d][k] /\ (orderly' => inbox'[d][j] # inbox'[d][k])
        BY DEF InOrder
      <3>1. CASE d = e
        BY <1>1, <2>7, <2>8, <3>1 DEF t
      <3>2. CASE d # e
        BY <1>1, <2>2, <3>2 DEF ChatInv, InOrder
      <3> QED
        BY <3>1, <3>2
    <2>10. ASSUME orderly PROVE Reached'
      <3> SUFFICES ASSUME NEW d \in ChatClients, NEW k \in DOMAIN inbox'[d], inbox'[d][k] = messages
                   PROVE  \E j \in 0 .. thread'[c].i - 1 : file[client_socks[j]] = d
        BY <1>1, <1>3 DEF Reached, chatTable
      <3>1. CASE d = e
        <4>1. thread[c].i \in 0 .. thread'[c].i - 1 /\ file[client_socks[thread[c].i]] = d
          BY <1>3, <2>1, <3>1
        <4> QED
          BY <4>1
      <3>2. CASE d # e
        <4>1. k \in DOMAIN inbox[d] /\ inbox[d][k] = messages
          BY <2>2, <3>2
        <4>2. \E j \in 0 .. thread[c].i - 1 : file[client_socks[j]] = d
          BY <1>3, <2>10, <4>1 DEF ChatInv, Reached
        <4> QED
          BY <1>5, <4>2
      <3> QED
        BY <3>1, <3>2
    <2> QED
      BY <1>1, <1>2, <2>2, <2>9, <2>10 DEF ChatInv, chatTable
  <1> QED
    BY <1>1, <1>6, <1>7

-----------------------------------------------------------------------------
(* A client leaves.  While all is orderly its entry is the last one, which *)
(* the compaction leaves where it is and the count passes over.            *)
LEMMA LastGoes ==
  ASSUME ChatInv, NEW f
  PROVE  /\ Compacted(f) \in [0 .. MAX_CLIENT -> Int \cup {Beyond}]
         /\ Entries(f) = {client_count - 1} => \A j \in 0 .. client_count - 1 : Compacted(f)[j] = client_socks[j]
  <1>1. /\ client_count \in Nat /\ MAX_CLIENT \in Nat /\ client_count <= MAX_CLIENT
        /\ client_socks \in [0 .. MAX_CLIENT -> Int \cup {Beyond}]
    BY PresentFinite, ClientsFacts DEF ChatInv, ChatType
  <1> DEFINE m == Min(Entries(f))
             moved == [j \in 0 .. MAX_CLIENT |-> IF j > m /\ j < client_count THEN client_socks[j + 1] ELSE client_socks[j]]
  <1>2. Compacted(f) = IF Entries(f) = {} THEN client_socks ELSE moved
    BY DEF Compacted
  <1>3. \A j \in 0 .. MAX_CLIENT : j < client_count => j + 1 \in 0 .. MAX_CLIENT
    BY <1>1
  <1>4. Entries(f) = {client_count - 1} => m = client_count - 1
    <2> SUFFICES ASSUME Entries(f) = {client_count - 1} PROVE Min({client_count - 1}) = client_count - 1
      OBVIOUS
    <2>1. client_count - 1 \in Int
      BY <1>1
    <2> QED
      BY <2>1 DEF Min
  <1> HIDE DEF m
  <1>5. moved \in [0 .. MAX_CLIENT -> Int \cup {Beyond}]
    BY <1>1, <1>3
  <1>6. ASSUME Entries(f) = {client_count - 1}
        PROVE  \A j \in 0 .. client_count - 1 : moved[j] = client_socks[j]
    BY <1>1, <1>4, <1>6
  <1> QED
    BY <1>1, <1>2, <1>5, <1>6

LEMMA LeaveKeeps == ASSUME ChatInv, NEW c \in ChatClients, Leave(c) PROVE ChatInv'
  <1> DEFINE f == thread[c].sock
  <1>1. /\ thread[c].pc = "leave" /\ mutex = NoClient /\ thread' = [thread EXCEPT ![c].pc = "close"]
        /\ client_socks' = Compacted(f) /\ client_count' = client_count - 1
        /\ orderly' = (orderly /\ Entries(f) = {client_count - 1})
        /\ UNCHANGED <<talker, waiting, inbox, file, mpc, client_sock, comer, mutex, messages>>
    BY DEF Leave, clientVars, Goto
  <1>2. /\ thread' \in [ChatClients -> [pc : Pcs, sock : Int, i : Nat, no : Nat]]
        /\ thread'[c].pc = "close" /\ thread'[c].sock = f
        /\ \A d \in ChatClients : d # c => thread'[d] = thread[d]
    BY <1>1, ThreadGoes DEF ChatInv, Pcs
  <1>3. f \in Fds /\ (mpc # "accept" => comer # c)
    BY <1>1 DEF ChatInv, Accepted, NoSock
  <1>4. c \in Present /\ Present' = Present \ {c}
    BY <1>1, <1>2, <1>3 DEF Present
  <1>5. /\ client_count \in Nat /\ client_count = Cardinality(Present)
        /\ client_count' = Cardinality(Present') /\ client_count' \in Nat /\ client_count' <= MAX_CLIENT
    <2>1. /\ IsFiniteSet(Present) /\ IsFiniteSet(Present \ {c})
          /\ Cardinality(Present \ {c}) = Cardinality(Present) - 1
      BY <1>4, PresentFinite, FS_RemoveElement
    <2>2. Cardinality(Present \ {c}) \in Nat
      BY <2>1, FS_CardinalityType
    <2> QED
      BY <1>1, <1>4, <2>1, <2>2, ClientsFacts DEF ChatInv, ChatType
  <1>6. orderly' \in BOOLEAN /\ (orderly' => orderly /\ Entries(f) = {client_count - 1})
    BY <1>1 DEF ChatInv, ChatType
  <1>7. ChatType'
    <2>1. client_socks' \in [0 .. MAX_CLIENT -> Int \cup {Beyond}]
      BY <1>1, LastGoes
    <2> QED
      BY <1>1, <1>2, <1>5, <1>6, <2>1 DEF ChatInv, ChatType
  <1>8. Queued' /\ InOrder'
    BY <1>1, <1>6 DEF ChatInv, Queued, InOrder
  <1>9. Accepted'
    BY <1>1, <1>2, <1>3 DEF ChatInv, Accepted, NoSock
  <1>10. \A d \in ChatClients : thread'[d].pc # "write"
    BY <1>1, <1>2, ClientsFacts DEF ChatInv, OneWriter
  <1>11. OneWriter'
    BY <1>1, <1>10 DEF OneWriter
  <1>12. ASSUME orderly' PROVE OwnSocks' /\ TableHolds' /\ Reached'
    <2>1. OwnSocks'
      BY <1>1, <1>2, <1>6, <1>12 DEF ChatInv, OwnSocks, NoSock
    <2>2. Reached'
      BY <1>10 DEF Reached
    <2>3. \A i \in 0 .. client_count - 1 : client_socks'[i] = client_socks[i]
      BY <1>1, <1>6, <1>12, LastGoes
    <2>4. file[f] = c
      BY <1>1, <1>6, <1>12 DEF ChatInv, OwnSocks, NoSock
    <2>5. \A i \in 0 .. client_count - 1 : client_socks[i] = f <=> i = client_count - 1
      <3>1. \A i \in 0 .. client_count - 1 : client_socks[i] = f <=> i \in Entries(f)
        BY DEF Entries
      <3> QED
        BY <1>6, <1>12, <3>1
    <2>6. \A i \in 0 .. client_count' - 1 : i \in 0 .. client_count - 1 /\ i # client_count - 1
      BY <1>1, <1>5
    <2>7. \A i \in 0 .. client_count - 1 : client_socks[i] \in Fds /\ file[client_socks[i]] \in Present
      BY <1>6, <1>12 DEF ChatInv, TableHolds
    <2>8. \A i \in 0 .. client_count - 1 : i # client_count - 1 => file[client_socks[i]] # c
      BY <1>3, <2>4, <2>5, <2>7, ClientsFacts DEF ChatInv, Accepted
    <2>9. \A i \in 0 .. client_count' - 1 : client_socks'[i] \in Fds /\ file'[client_socks'[i]] \in Present'
      BY <1>1, <1>4, <2>3, <2>6, <2>7, <2>8
    <2>10. \A i, j \in 0 .. client_count' - 1 : client_socks'[i] = client_socks'[j] => i = j
      BY <1>6, <1>12, <2>3, <2>6 DEF ChatInv, TableHolds
    <2>11. ASSUME NEW d \in Present' PROVE \E i \in 0 .. client_count' - 1 : file'[client_socks'[i]] = d
      <3>1. d \in Present /\ d # c
        BY <1>4, <2>11
      <3>2. PICK i \in 0 .. client_count - 1 : file[client_socks[i]] = d
        BY <1>6, <1>12, <3>1 DEF ChatInv, TableHolds
      <3>3. client_socks[i] # f
        BY <2>4, <3>1, <3>2
      <3>4. i # client_count - 1
        BY <2>5, <3>3
      <3>5. i \in 0 .. client_count' - 1
        BY <1>1, <1>5, <3>4
      <3> QED
        BY <1>1, <2>3, <3>2, <3>5
    <2> QED
      BY <2>1, <2>2, <2>9, <2>10, <2>11 DEF TableHolds
  <1> QED
    BY <1>5, <1>7, <1>8, <1>9, <1>11, <1>12 DEF ChatInv

LEMMA RecordOver ==
  ASSUME NEW x \in [pc : Pcs, sock : Int, i : Nat, no : Nat]
  PROVE  /\ [x EXCEPT !.pc = "over", !.sock = 0] \in [pc : Pcs, sock : Int, i : Nat, no : Nat]
         /\ [x EXCEPT !.pc = "over", !.sock = 0].pc = "over"
  <1>1. "over" \in Pcs /\ 0 \in Int
    BY DEF Pcs
  <1> QED
    BY <1>1

LEMMA CloseKeeps == ASSUME ChatInv, NEW c \in ChatClients, CloseSock(c) PROVE ChatInv'
  <1> DEFINE f == thread[c].sock
  <1>1. /\ thread[c].pc = "close" /\ file' = [file EXCEPT ![f] = NoClient]
        /\ thread' = [thread EXCEPT ![c].pc = "over", ![c].sock = 0]
        /\ UNCHANGED <<talker, waiting, inbox, chatTable, mpc, client_sock, comer, mutex, messages, orderly>>
    BY DEF CloseSock, clientVars
  <1>2. /\ thread' \in [ChatClients -> [pc : Pcs, sock : Int, i : Nat, no : Nat]] /\ thread'[c].pc = "over"
        /\ \A d \in ChatClients : d # c => thread'[d] = thread[d]
    <2> DEFINE r == [thread[c] EXCEPT !.pc = "over", !.sock = 0]
    <2>1. thread \in [ChatClients -> [pc : Pcs, sock : Int, i : Nat, no : Nat]]
      BY DEF ChatInv, ChatType
    <2>2. r \in [pc : Pcs, sock : Int, i : Nat, no : Nat] /\ r.pc = "over"
      BY <2>1, RecordOver
    <2>3. thread' = [thread EXCEPT ![c] = r]
      BY <1>1, <2>1
    <2> HIDE DEF r
    <2> QED
      BY <2>1, <2>2, <2>3
  <1>3. f \in Fds /\ (mpc # "accept" => comer # c)
    BY <1>1 DEF ChatInv, Accepted, NoSock
  <1>4. /\ file' \in [Fds -> Someone]
        /\ \A x \in Fds : file'[x] = IF x = f THEN NoClient ELSE file[x]
    BY <1>1, <1>3 DEF ChatInv, ChatType, Someone
  <1>5. ChatType'
    BY <1>1, <1>2, <1>4 DEF ChatInv, ChatType, chatTable
  <1>6. Queued' /\ InOrder'
    BY <1>1 DEF ChatInv, Queued, InOrder
  <1>7. Accepted'
    <2>1. \A x \in Fds : file'[x] # NoClient => talker'[file'[x]] = "in"
      BY <1>1, <1>4 DEF ChatInv, Accepted
    <2>2. \A x, y \in Fds : file'[x] = file'[y] /\ file'[x] # NoClient => x = y
      BY <1>4 DEF ChatInv, Accepted
    <2> QED
      BY <1>1, <1>2, <1>3, <2>1, <2>2 DEF ChatInv, Accepted, NoSock
  <1>8. OneWriter'
    BY <1>1, <1>2 DEF ChatInv, OneWriter, ChatType, Someone, chatTable
  <1>9. c \notin Present /\ Present' = Present
    BY <1>1, <1>2, <1>3 DEF Present
  <1>10. ASSUME orderly PROVE OwnSocks' /\ TableHolds' /\ Reached'
    <2>1. file[f] = c
      BY <1>1, <1>10 DEF ChatInv, OwnSocks, NoSock
    <2>2. \A d \in ChatClients : thread'[d].pc \notin NoSock => file'[thread'[d].sock] = d
      <3> SUFFICES ASSUME NEW d \in ChatClients, thread'[d].pc \notin NoSock PROVE file'[thread'[d].sock] = d
        OBVIOUS
      <3>1. d # c
        BY <1>2 DEF NoSock
      <3>2. thread'[d] = thread[d] /\ thread[d].sock \in Fds /\ file[thread[d].sock] = d
        BY <1>2, <1>10, <3>1 DEF ChatInv, Accepted, OwnSocks
      <3> QED
        BY <1>4, <2>1, <3>1, <3>2
    <2>3. OwnSocks'
      BY <1>1, <1>3, <1>4, <1>10, <2>1, <2>2 DEF ChatInv, OwnSocks, Accepted
    <2>4. \A i \in 0 .. client_count - 1 : client_socks[i] \in Fds /\ file'[client_socks[i]] = file[client_socks[i]]
      BY <1>4, <1>9, <1>10, <2>1 DEF ChatInv, TableHolds
    <2>5. TableHolds'
      BY <1>1, <1>9, <1>10, <2>4 DEF ChatInv, TableHolds, chatTable
    <2>6. Reached'
      <3>1. \A d \in ChatClients : thread'[d].pc = "write" =>
               /\ thread'[d] = thread[d]
               /\ thread[d].i <= client_count /\ thread[d].i \in Nat /\ client_count \in Nat
        BY <1>2 DEF ChatInv, OneWriter, ChatType
      <3>2. \A d \in ChatClients : thread'[d].pc = "write" => \A j \in 0 .. thread[d].i - 1 : j \in 0 .. client_count - 1
        BY <3>1
      <3>3. ASSUME NEW d \in ChatClients, NEW e \in ChatClients, thread'[d].pc = "write",
                   NEW k \in DOMAIN inbox[e], inbox[e][k] = messages
            PROVE  \E j \in 0 .. thread[d].i - 1 : file'[client_socks[j]] = e
        <4>1. PICK j \in 0 .. thread[d].i - 1 : file[client_socks[j]] = e
          BY <1>10, <3>1, <3>3 DEF ChatInv, Reached
        <4> QED
          BY <2>4, <3>2, <3>3, <4>1
      <3>4. client_socks' = client_socks /\ inbox' = inbox /\ messages' = messages
        BY <1>1 DEF chatTable
      <3> SUFFICES ASSUME NEW d \in ChatClients, NEW e \in ChatClients, thread'[d].pc = "write",
                          NEW k \in DOMAIN inbox'[e], inbox'[e][k] = messages'
                   PROVE  \E j \in 0 .. thread'[d].i - 1 : file'[client_socks'[j]] = e
        BY DEF Reached
      <3> QED
        BY <3>1, <3>3, <3>4
    <2> QED
      BY <2>3, <2>5, <2>6
  <1> QED
    BY <1>1, <1>5, <1>6, <1>7, <1>8, <1>9, <1>10 DEF ChatInv, chatTable

-----------------------------------------------------------------------------
LEMMA ChatStep == ChatInv /\ [ChatNext]_chatVars => ChatInv'
  <1> SUFFICES ASSUME ChatInv, [ChatNext]_chatVars PROVE ChatInv'
    OBVIOUS
  <1>1. CASE UNCHANGED chatVars
    BY <1>1, SameChat DEF chatVars, clientVars, chatKept
  <1>2. CASE ChatMain
    BY <1>2, AcceptKeeps, EnterKeeps, OverrunKeeps, CreateKeeps DEF ChatMain
  <1>3. ASSUME NEW c \in ChatClients, ChatThread(c) PROVE ChatInv'
    <2>1. CASE Start(c)
      BY <2>1, StartKeeps
    <2>2. CASE ReadMessage(c)
      BY <2>2, ThreadMoves DEF ReadMessage, Goto
    <2>3. CASE ReadEnd(c)
      BY <2>3, ThreadMoves DEF ReadEnd, Goto, clientVars
    <2>4. CASE ReadError(c)
      BY <2>4, ThreadMoves DEF ReadError, Goto
    <2>5. CASE SendError(c)
      BY <2>5, ThreadMoves DEF SendError, Goto, clientVars
    <2>6. CASE SendBegins(c)
      BY <2>6, BeginsKeeps
    <2>7. CASE WriteOne(c)
      BY <2>7, WriteKeeps
    <2>8. CASE SendEnds(c)
      BY <2>8, EndsKeeps
    <2>9. CASE Leave(c)
      BY <2>9, LeaveKeeps
    <2>10. CASE CloseSock(c)
      BY <2>10, CloseKeeps
    <2> QED
      BY <1>3, <2>1, <2>2, <2>3, <2>4, <2>5, <2>6, <2>7, <2>8, <2>9, <2>10 DEF ChatThread
  <1>4. ASSUME NEW c \in ChatClients, ChatConnect(c) \/ Speak(c) \/ receive_message(c) \/ Quit(c) \/ HostResets(c)
        PROVE  ChatInv'
    <2>1. CASE ChatConnect(c)
      BY <2>1, ConnectKeeps
    <2>2. CASE Speak(c) \/ receive_message(c) \/ Quit(c) \/ HostResets(c)
      BY <2>2, SameChat DEF Speak, receive_message, Quit, HostResets, roomVars, chatKept
    <2> QED
      BY <1>4, <2>1, <2>2
  <1> QED
    BY <1>1, <1>2, <1>3, <1>4 DEF ChatNext

LEMMA OverflowsStep == ChatInv /\ Overflows /\ [ChatNext]_chatVars => Overflows'
  <1> SUFFICES ASSUME ChatInv, Overflows, [ChatNext]_chatVars PROVE Overflows'
    OBVIOUS
  <1>1. CASE mpc = "lost"
    <2>1. ~ChatNext
      BY <1>1 DEF ChatNext, ChatMain, ChatThread, Runs
    <2> QED
      BY <1>1, <2>1 DEF Overflows, chatVars, chatTable
  <1>2. CASE mpc # "lost" /\ EnterOverruns
    BY <1>2, ClientsFacts DEF EnterOverruns, ChatInv, ChatType, Overflows, chatTable
  <1>3. CASE mpc # "lost" /\ ~EnterOverruns
    <2>1. CASE UNCHANGED chatVars
      BY <1>3, <2>1 DEF Overflows, chatVars
    <2>2. CASE AcceptClient \/ Enter \/ Create
      BY <2>2 DEF Overflows, AcceptClient, Enter, Create
    <2>3. ASSUME NEW c \in ChatClients, ChatThread(c) PROVE mpc' = mpc
      BY <2>3 DEF ChatThread, Start, ReadMessage, ReadEnd, ReadError, SendError, SendBegins, WriteOne, SendEnds,
                  Leave, CloseSock
    <2>4. ASSUME NEW c \in ChatClients, ChatConnect(c) \/ Speak(c) \/ receive_message(c) \/ Quit(c) \/ HostResets(c)
          PROVE  mpc' = mpc
      BY <2>4 DEF ChatConnect, Speak, receive_message, Quit, HostResets, roomVars
    <2> QED
      BY <1>3, <2>1, <2>2, <2>3, <2>4 DEF ChatNext, ChatMain, Overflows
  <1> QED
    BY <1>1, <1>2, <1>3

LEMMA ChatInvSound == ChatInv /\ Overflows => ChatSound
  <1> SUFFICES ASSUME ChatInv, Overflows PROVE ChatSound
    OBVIOUS
  <1>1. orderly => {file[client_socks[i]] : i \in 0 .. client_count - 1} = Present
    BY DEF ChatInv, TableHolds
  <1> QED
    BY <1>1 DEF ChatInv, Overflows, ChatSound, InOrder

(* chat_server.c, for any number of clients and messages and a table of    *)
(* any length: it overflows only when MAX_CLIENT clients are present, and  *)
(* up to then every client is written the messages in one order,           *)
(* client_count is the number of clients present, and as long as every     *)
(* leaver was the last of the table and every thread read client_sock in   *)
(* time, the table has each of them once and nobody is written a message   *)
(* twice.                                                                  *)
THEOREM ChatKept == ChatSpec => []ChatSound
  <1>1. ChatInit => ChatInv /\ Overflows
    BY ChatStart DEF ChatInit, Overflows
  <1>2. ChatInv /\ Overflows /\ [ChatNext]_chatVars => ChatInv' /\ Overflows'
    BY ChatStep, OverflowsStep
  <1>3. ChatInv /\ Overflows => ChatSound
    BY ChatInvSound
  <1> QED
    BY <1>1, <1>2, <1>3, PTL DEF ChatSpec

-----------------------------------------------------------------------------
(* httpd.c: the stages before a child exists, and while its pipes are open; *)
(* a child that has not exited.                                             *)
Ends == {"sock", "or", "ow", "ir", "iw"}
Early == {"none", "lost", "head", "output", "input", "fork"}
Piping == {"parent", "post", "relay"}
Stages == Early \cup Piping \cup {"wait", "close", "closed"}
Running == {"forked", "reads", "writes"}
Failed(c) == \E k \in DOMAIN reply[c] : reply[c][k] = 500

HttpdType ==
    /\ stage \in [Clients -> Stages] /\ child \in [Clients -> Running \cup {"none", "zombie", "reaped"}]
    /\ pout \in [Clients -> Int] /\ got \in [Clients -> Int] /\ wrote \in [Clients -> Int] /\ relayed \in [Clients -> Int]
    /\ reply \in [Clients -> Seq(Int)] /\ fdtab \in SUBSET ((Clients \cup {Httpd}) \X Clients \X Ends)

(* What a stage says of the child and of the bytes it wrote. *)
ChildOk(c) ==
    /\ stage[c] \in Early => child[c] = "none"
    /\ stage[c] \in Piping => child[c] \in Running \cup {"zombie"}
    /\ stage[c] = "wait" => child[c] = "zombie" /\ pout[c] = 0
    /\ stage[c] \in {"close", "closed"} => child[c] \in {"none", "reaped"} /\ pout[c] = 0
    /\ wrote[c] = relayed[c] + pout[c]
    /\ child[c] \in {"none", "forked", "reads"} => wrote[c] = 0
    /\ child[c] = "none" => pout[c] = 0
    /\ child[c] = "writes" => got[c] = ToRead(req[c])
    /\ child[c] \in {"zombie", "reaped"} /\ wrote[c] > 0 => got[c] = ToRead(req[c]) /\ wrote[c] = OutBytes

(* The ends the server may have and those it must have.  A child that has  *)
(* not exited can write, so the pipe is not at its end.                    *)
Allowed(s) == IF s \in {"head", "output", "wait", "close"} THEN {"sock"}
              ELSE IF s = "input" THEN {"sock", "or", "ow"}
              ELSE IF s \in {"post", "relay"} THEN {"sock", "or", "iw"}
              ELSE IF s \in {"none", "closed"} THEN {} ELSE Ends
Needed(s) == IF s = "input" THEN {"or", "ow"} ELSE IF s = "fork" THEN {"or", "ow", "iw"}
             ELSE IF s \in Piping THEN {"or", "iw"} ELSE {}
EndsOk(c) ==
    /\ child[c] \in Running => <<c, c, "ow">> \in fdtab
    /\ \A e \in Ends : <<Httpd, c, e>> \in fdtab => e \in Allowed(stage[c]) \/ (stage[c] \in {"close", "closed"} /\ Failed(c))
    /\ \A e \in Needed(stage[c]) : <<Httpd, c, e>> \in fdtab
TidyInv == alive => HttpdType /\ \A c \in Clients : ChildOk(c) /\ EndsOk(c)

(* A step of one client's thread or script leaves the others alone. *)
Apart(c) ==
    /\ stage'[c] = stage[c] /\ child'[c] = child[c] /\ pout'[c] = pout[c] /\ got'[c] = got[c] /\ wrote'[c] = wrote[c]
    /\ relayed'[c] = relayed[c] /\ reply'[c] = reply[c] /\ req'[c] = req[c]
    /\ <<c, c, "ow">> \in fdtab => <<c, c, "ow">> \in fdtab'
    /\ \A e \in Ends : <<Httpd, c, e>> \in fdtab' <=> <<Httpd, c, e>> \in fdtab
LEMMA ApartKeeps == ASSUME NEW c \in Clients, ChildOk(c), EndsOk(c), Apart(c) PROVE ChildOk(c)' /\ EndsOk(c)'
  <1>1. ChildOk(c)'
    BY DEF ChildOk, Apart
  <1>2. Failed(c)' = Failed(c)
    BY DEF Failed, Apart
  <1>3. Needed(stage[c]) \subseteq Ends
    BY DEF Needed, Ends
  <1>4. EndsOk(c)'
    BY <1>2, <1>3 DEF EndsOk, Apart
  <1> QED
    BY <1>1, <1>4

LEMMA Answered ==
  ASSUME NEW s \in Seq(Int), NEW t \in Seq(Int)
  PROVE  /\ s \o t \in Seq(Int)
         /\ (\E k \in DOMAIN s : s[k] = 500) => \E k \in DOMAIN (s \o t) : (s \o t)[k] = 500
         /\ t = << 500 >> => \E k \in DOMAIN (s \o t) : (s \o t)[k] = 500
  <1>1. /\ s \o t \in Seq(Int) /\ Len(s) \in Nat /\ Len(t) \in Nat /\ Len(s \o t) = Len(s) + Len(t)
        /\ \A k \in 1 .. Len(s) : (s \o t)[k] = s[k]
        /\ \A k \in 1 .. Len(t) : (s \o t)[Len(s) + k] = t[k]
        /\ DOMAIN s = 1 .. Len(s) /\ DOMAIN (s \o t) = 1 .. Len(s \o t)
    BY ConcatProperties
  <1>2. \A k \in 1 .. Len(s) : k \in 1 .. Len(s \o t)
    BY <1>1
  <1>3. ASSUME t = << 500 >> PROVE \E k \in DOMAIN (s \o t) : (s \o t)[k] = 500
    <2>1. Len(t) = 1 /\ t[1] = 500
      BY <1>3
    <2>2. Len(s) + 1 \in 1 .. Len(s \o t) /\ (s \o t)[Len(s) + 1] = t[1]
      BY <1>1, <2>1
    <2> QED
      BY <1>1, <2>1, <2>2
  <1> QED
    BY <1>1, <1>2, <1>3

LEMMA HttpdStart == HttpdInit => TidyInv
  <1> SUFFICES ASSUME HttpdInit PROVE TidyInv
    OBVIOUS
  <1>1. HttpdType
    BY DEF HttpdInit, HttpdType, Zeros, Stages, Early
  <1>2. ASSUME NEW c \in Clients PROVE ChildOk(c) /\ EndsOk(c)
    <2>1. stage[c] = "none" /\ child[c] = "none" /\ pout[c] = 0 /\ wrote[c] = 0 /\ relayed[c] = 0 /\ fdtab = {}
      BY DEF HttpdInit, Zeros
    <2> QED
      BY <2>1 DEF ChildOk, EndsOk, Early, Piping, Running, Needed
  <1> QED
    BY <1>1, <1>2 DEF TidyInv

(* pipe, close, fork and exit, for the ends the invariant speaks of. *)
LEMMA OpenFacts ==
  ASSUME HttpdType, NEW d \in Clients, NEW ends \in SUBSET Ends
  PROVE  /\ Open(d, ends) \in SUBSET ((Clients \cup {Httpd}) \X Clients \X Ends)
         /\ \A c \in Clients : <<c, c, "ow">> \in fdtab => <<c, c, "ow">> \in Open(d, ends)
         /\ \A c \in Clients, e \in Ends : <<Httpd, c, e>> \in Open(d, ends) <=> <<Httpd, c, e>> \in fdtab \/ (c = d /\ e \in ends)
  BY DEF HttpdType, Open

LEMMA CloseFacts ==
  ASSUME HttpdType, NEW d \in Clients, NEW ends \in SUBSET Ends
  PROVE  /\ Close(d, ends) \in SUBSET ((Clients \cup {Httpd}) \X Clients \X Ends)
         /\ \A c \in Clients : <<c, c, "ow">> \in fdtab => <<c, c, "ow">> \in Close(d, ends)
         /\ \A c \in Clients, e \in Ends : <<Httpd, c, e>> \in Close(d, ends) <=> <<Httpd, c, e>> \in fdtab /\ ~(c = d /\ e \in ends)
  BY HttpdAssumption DEF HttpdType, Close

LEMMA ForkFacts ==
  ASSUME HttpdType, NEW d \in Clients, fdtab' = fdtab \cup {<<d, y[2], y[3]>> : y \in {x \in fdtab : x[1] = Httpd}}
  PROVE  /\ fdtab' \in SUBSET ((Clients \cup {Httpd}) \X Clients \X Ends)
         /\ \A c \in Clients : <<c, c, "ow">> \in fdtab => <<c, c, "ow">> \in fdtab'
         /\ <<Httpd, d, "ow">> \in fdtab => <<d, d, "ow">> \in fdtab'
         /\ \A c \in Clients, e \in Ends : <<Httpd, c, e>> \in fdtab' <=> <<Httpd, c, e>> \in fdtab
  <1> DEFINE H == {x \in fdtab : x[1] = Httpd}
             N == {<<d, y[2], y[3]>> : y \in H}
  <1>1. \A y \in H : y[2] \in Clients /\ y[3] \in Ends
    BY DEF HttpdType
  <1>2. \A x \in N : x \in (Clients \cup {Httpd}) \X Clients \X Ends /\ x[1] = d
    BY <1>1
  <1>3. <<Httpd, d, "ow">> \in fdtab => <<d, d, "ow">> \in N
    <2> SUFFICES ASSUME <<Httpd, d, "ow">> \in fdtab PROVE <<d, d, "ow">> \in N
      OBVIOUS
    <2>1. <<Httpd, d, "ow">> \in H /\ <<d, <<Httpd, d, "ow">>[2], <<Httpd, d, "ow">>[3]>> = <<d, d, "ow">>
      OBVIOUS
    <2> QED
      BY <2>1
  <1>4. fdtab' = fdtab \cup N
    OBVIOUS
  <1> HIDE DEF N, H
  <1>5. \A c, e : <<Httpd, c, e>> \notin N
    <2> SUFFICES ASSUME NEW c, NEW e, <<Httpd, c, e>> \in N PROVE FALSE
      OBVIOUS
    <2>1. <<Httpd, c, e>>[1] = d
      BY <1>2
    <2> QED
      BY <2>1, HttpdAssumption
  <1> QED
    BY <1>2, <1>3, <1>4, <1>5 DEF HttpdType

LEMMA ExitFacts ==
  ASSUME HttpdType, NEW d \in Clients, Exits(d)
  PROVE  /\ fdtab' \in SUBSET ((Clients \cup {Httpd}) \X Clients \X Ends)
         /\ \A c \in Clients : c # d /\ <<c, c, "ow">> \in fdtab => <<c, c, "ow">> \in fdtab'
         /\ \A c \in Clients, e \in Ends : <<Httpd, c, e>> \in fdtab' <=> <<Httpd, c, e>> \in fdtab
  BY HttpdAssumption DEF HttpdType, Exits

LEMMA OneClient ==
  ASSUME TidyInv, alive, NEW d \in Clients, HttpdType', \A c \in Clients \ {d} : Apart(c), ChildOk(d)', EndsOk(d)'
  PROVE  TidyInv'
  BY ApartKeeps DEF TidyInv

(* The thread goes on to the next stage. *)
LEMMA StageMoves ==
  ASSUME TidyInv, alive, NEW d \in Clients, NEW s \in Stages, stage' = [stage EXCEPT ![d] = s],
         UNCHANGED <<child, pout, got, wrote, relayed, reply, req>>,
         fdtab' \in SUBSET ((Clients \cup {Httpd}) \X Clients \X Ends),
         \A c \in Clients : <<c, c, "ow">> \in fdtab => <<c, c, "ow">> \in fdtab',
         \A c \in Clients \ {d}, e \in Ends : <<Httpd, c, e>> \in fdtab' <=> <<Httpd, c, e>> \in fdtab,
         \/ s \in Early /\ child[d] = "none"
         \/ s \in Piping /\ child[d] \in Running \cup {"zombie"}
         \/ s = "wait" /\ child[d] = "zombie" /\ pout[d] = 0
         \/ s = "closed" /\ child[d] \in {"none", "reaped"} /\ pout[d] = 0,
         \A e \in Ends : <<Httpd, d, e>> \in fdtab' => e \in Allowed(s) \/ (s = "closed" /\ Failed(d)),
         \A e \in Needed(s) : <<Httpd, d, e>> \in fdtab'
  PROVE  TidyInv'
  <1>1. HttpdType /\ ChildOk(d) /\ EndsOk(d)
    BY DEF TidyInv
  <1>2. HttpdType' /\ stage'[d] = s
    BY <1>1 DEF HttpdType
  <1>3. \A c \in Clients \ {d} : Apart(c)
    BY <1>1 DEF Apart, HttpdType
  <1>4. ChildOk(d)'
    BY <1>1, <1>2 DEF ChildOk, Early, Piping
  <1>5. Failed(d)' = Failed(d)
    BY DEF Failed
  <1>6. EndsOk(d)'
    BY <1>1, <1>2, <1>5 DEF EndsOk
  <1> QED
    BY <1>2, <1>3, <1>4, <1>6, OneClient

(* It opens or closes ends of its own on the way. *)
LEMMA OpenMoves ==
  ASSUME TidyInv, alive, NEW d \in Clients, NEW s \in Early, NEW ends \in SUBSET Ends, stage' = [stage EXCEPT ![d] = s],
         UNCHANGED <<child, pout, got, wrote, relayed, reply, req>>, stage[d] \in Early, fdtab' = Open(d, ends),
         \A e \in Ends : <<Httpd, d, e>> \in fdtab \/ e \in ends => e \in Allowed(s),
         \A e \in Needed(s) : <<Httpd, d, e>> \in fdtab \/ e \in ends
  PROVE  TidyInv'
  <1>1. HttpdType /\ child[d] = "none"
    BY DEF TidyInv, ChildOk
  <1>2. /\ fdtab' \in SUBSET ((Clients \cup {Httpd}) \X Clients \X Ends)
        /\ \A c \in Clients : <<c, c, "ow">> \in fdtab => <<c, c, "ow">> \in fdtab'
        /\ \A c \in Clients, e \in Ends : <<Httpd, c, e>> \in fdtab' <=> <<Httpd, c, e>> \in fdtab \/ (c = d /\ e \in ends)
    BY <1>1, OpenFacts
  <1>3. s \in Stages /\ Needed(s) \subseteq Ends
    BY DEF Stages, Needed, Ends
  <1>4. \A e \in Needed(s) : <<Httpd, d, e>> \in fdtab'
    BY <1>2, <1>3
  <1>5. \A e \in Ends : <<Httpd, d, e>> \in fdtab' => e \in Allowed(s)
    BY <1>2
  <1>6. \A c \in Clients \ {d}, e \in Ends : <<Httpd, c, e>> \in fdtab' <=> <<Httpd, c, e>> \in fdtab
    BY <1>2
  <1> QED
    BY <1>1, <1>2, <1>3, <1>4, <1>5, <1>6, StageMoves

LEMMA CloseMoves ==
  ASSUME TidyInv, alive, NEW d \in Clients, NEW s \in {"post", "wait", "closed"}, NEW ends \in SUBSET Ends,
         stage' = [stage EXCEPT ![d] = s],
         UNCHANGED <<child, pout, got, wrote, relayed, reply, req>>, fdtab' = Close(d, ends),
         \/ s = "post" /\ child[d] \in Running \cup {"zombie"}
         \/ s = "wait" /\ child[d] = "zombie" /\ pout[d] = 0
         \/ s = "closed" /\ child[d] \in {"none", "reaped"} /\ pout[d] = 0,
         \A e \in Ends : <<Httpd, d, e>> \in fdtab /\ e \notin ends => e \in Allowed(s) \/ (s = "closed" /\ Failed(d)),
         \A e \in Needed(s) : <<Httpd, d, e>> \in fdtab /\ e \notin ends
  PROVE  TidyInv'
  <1>1. HttpdType
    BY DEF TidyInv
  <1>2. /\ fdtab' \in SUBSET ((Clients \cup {Httpd}) \X Clients \X Ends)
        /\ \A c \in Clients : <<c, c, "ow">> \in fdtab => <<c, c, "ow">> \in fdtab'
        /\ \A c \in Clients, e \in Ends : <<Httpd, c, e>> \in fdtab' <=> <<Httpd, c, e>> \in fdtab /\ ~(c = d /\ e \in ends)
    BY <1>1, CloseFacts
  <1>3. s \in Stages /\ Needed(s) \subseteq Ends /\ (s = "post" => s \in Piping)
    BY DEF Stages, Needed, Ends, Piping
  <1>4. \A e \in Needed(s) : <<Httpd, d, e>> \in fdtab'
    BY <1>2, <1>3
  <1>5. \A e \in Ends : <<Httpd, d, e>> \in fdtab' => e \in Allowed(s) \/ (s = "closed" /\ Failed(d))
    BY <1>2
  <1>6. \A c \in Clients \ {d}, e \in Ends : <<Httpd, c, e>> \in fdtab' <=> <<Httpd, c, e>> \in fdtab
    BY <1>2
  <1>7. \/ s \in Piping /\ child[d] \in Running \cup {"zombie"}
        \/ s = "wait" /\ child[d] = "zombie" /\ pout[d] = 0
        \/ s = "closed" /\ child[d] \in {"none", "reaped"} /\ pout[d] = 0
    BY <1>3
  <1> QED
    BY <1>1, <1>2, <1>3, <1>4, <1>5, <1>6, <1>7, StageMoves

LEMMA ServerKeeps ==
  ASSUME TidyInv, alive, NEW d \in Clients,
         \/ Accept(d) \/ NoThread(d) \/ CgiOutput(d) \/ CgiInput(d) \/ ParentCloses(d) \/ PostEnds(d) \/ RelayEnds(d) \/ CloseClient(d)
  PROVE  TidyInv'
  <1>1. HttpdType /\ ChildOk(d) /\ EndsOk(d)
    BY DEF TidyInv
  <1>2. UNCHANGED <<child, pout, got, wrote, relayed, reply, req>>
    BY DEF Accept, NoThread, CgiOutput, CgiInput, ParentCloses, PostEnds, RelayEnds, CloseClient, cgiVars, pipeVars
  <1>3. stage[d] \in Stages /\ child[d] \in Running \cup {"none", "zombie", "reaped"}
    BY <1>1 DEF HttpdType
  <1>4. CASE Accept(d)
    <2>1. stage[d] = "none" /\ stage' = [stage EXCEPT ![d] = "head"] /\ fdtab' = Open(d, {"sock"})
      BY <1>4 DEF Accept, ToStage
    <2>2. \A e \in Ends : <<Httpd, d, e>> \notin fdtab
      BY <1>1, <2>1 DEF EndsOk, Allowed
    <2> QED
      BY <1>1, <1>2, <2>1, <2>2, OpenMoves DEF Early, Ends, Allowed, Needed, Piping
  <1>5. CASE NoThread(d)
    <2>1. stage[d] = "none" /\ stage' = [stage EXCEPT ![d] = "lost"] /\ fdtab' = Open(d, {"sock"})
      BY <1>5 DEF NoThread, ToStage
    <2> QED
      BY <1>1, <1>2, <2>1, OpenMoves DEF Early, Ends, Allowed, Needed, Piping
  <1>6. CASE CgiOutput(d)
    <2>1. stage[d] = "output" /\ stage' = [stage EXCEPT ![d] = "input"] /\ fdtab' = Open(d, {"or", "ow"})
      BY <1>6 DEF CgiOutput, ToStage
    <2>2. \A e \in Ends : <<Httpd, d, e>> \in fdtab => e = "sock"
      BY <1>1, <2>1 DEF EndsOk, Allowed
    <2> QED
      BY <1>1, <1>2, <2>1, <2>2, OpenMoves DEF Early, Ends, Allowed, Needed, Piping
  <1>7. CASE CgiInput(d)
    <2>1. stage[d] = "input" /\ stage' = [stage EXCEPT ![d] = "fork"] /\ fdtab' = Open(d, {"ir", "iw"})
      BY <1>7 DEF CgiInput, ToStage
    <2>2. <<Httpd, d, "or">> \in fdtab /\ <<Httpd, d, "ow">> \in fdtab
      BY <1>1, <2>1 DEF EndsOk, Needed
    <2> QED
      BY <1>1, <1>2, <2>1, <2>2, OpenMoves DEF Early, Ends, Allowed, Needed, Piping
  <1>8. CASE ParentCloses(d)
    <2>1. stage[d] = "parent" /\ stage' = [stage EXCEPT ![d] = "post"] /\ fdtab' = Close(d, {"ow", "ir"})
      BY <1>8 DEF ParentCloses, ToStage
    <2>2. <<Httpd, d, "or">> \in fdtab /\ <<Httpd, d, "iw">> \in fdtab
      BY <1>1, <2>1 DEF EndsOk, Needed, Piping
    <2> QED
      BY <1>1, <1>2, <2>1, <2>2, CloseMoves DEF Ends, Allowed, Needed, Piping, ChildOk
  <1>9. CASE PostEnds(d)
    <2>1. stage[d] = "post" /\ stage' = [stage EXCEPT ![d] = "relay"] /\ fdtab' = fdtab
      BY <1>9 DEF PostEnds, ToStage, pipeVars
    <2>2. /\ <<Httpd, d, "or">> \in fdtab /\ <<Httpd, d, "iw">> \in fdtab
          /\ \A e \in Ends : <<Httpd, d, e>> \in fdtab => e \in {"sock", "or", "iw"}
      BY <1>1, <2>1 DEF EndsOk, Needed, Piping, Allowed
    <2>3. fdtab' \in SUBSET ((Clients \cup {Httpd}) \X Clients \X Ends)
      BY <1>1, <2>1 DEF HttpdType
    <2> QED
      BY <1>1, <1>2, <2>1, <2>2, <2>3, StageMoves DEF ChildOk, Stages, Early, Piping, Allowed, Needed
  <1>10. CASE RelayEnds(d)
    <2>1. stage[d] = "relay" /\ stage' = [stage EXCEPT ![d] = "wait"] /\ fdtab' = Close(d, {"or", "iw"}) /\ pout[d] = 0
          /\ ~HeldEnd(d, "ow")
      BY <1>10 DEF RelayEnds, ToStage
    <2>2. \A e \in Ends : <<Httpd, d, e>> \in fdtab => e \in {"sock", "or", "iw"}
      BY <1>1, <2>1 DEF EndsOk, Allowed
    <2>3. <<d, d, "ow">> \notin fdtab
      BY <2>1 DEF HeldEnd
    <2>4. child[d] = "zombie"
      BY <1>1, <2>1, <2>3 DEF EndsOk, ChildOk, Piping
    <2> QED
      BY <1>1, <1>2, <2>1, <2>2, <2>4, CloseMoves DEF Ends, Allowed, Needed, Piping
  <1>11. CASE CloseClient(d)
    <2>1. stage[d] = "close" /\ stage' = [stage EXCEPT ![d] = "closed"] /\ fdtab' = Close(d, {"sock"})
      BY <1>11 DEF CloseClient, ToStage
    <2>2. \A e \in Ends : <<Httpd, d, e>> \in fdtab => e = "sock" \/ Failed(d)
      BY <1>1, <2>1 DEF EndsOk, Allowed
    <2> QED
      BY <1>1, <1>2, <2>1, <2>2, CloseMoves DEF Ends, Allowed, Needed, Piping, ChildOk
  <1> QED
    BY <1>4, <1>5, <1>6, <1>7, <1>8, <1>9, <1>10, <1>11

LEMMA AnswerFails ==
  ASSUME NEW s \in Seq(Int), NEW t \in Seq(Int), t = << 500 >>
  PROVE  Len(s) + 1 \in DOMAIN (s \o t) /\ (s \o t)[Len(s) + 1] = 500
  <1>1. Len(t) = 1 /\ t[1] = 500
    OBVIOUS
  <1>2. /\ s \o t \in Seq(Int) /\ Len(s) \in Nat /\ Len(s \o t) = Len(s) + Len(t)
        /\ \A k \in 1 .. Len(t) : (s \o t)[Len(s) + k] = t[k]
        /\ DOMAIN (s \o t) = 1 .. Len(s \o t)
    BY ConcatProperties
  <1> QED
    BY <1>1, <1>2

(* An answer is sent and the stage changes. *)
LEMMA AnswerMoves ==
  ASSUME TidyInv, alive, NEW d \in Clients, NEW lines \in Seq(Int), NEW s \in {"close", "output"},
         stage' = [stage EXCEPT ![d] = s], reply' = [reply EXCEPT ![d] = @ \o lines],
         UNCHANGED <<child, pout, got, wrote, relayed, req, fdtab>>, stage[d] \in Early,
         stage[d] = "head" \/ (s = "close" /\ lines = << 500 >>)
  PROVE  TidyInv'
  <1>1. HttpdType /\ ChildOk(d) /\ EndsOk(d) /\ reply[d] \in Seq(Int)
    BY DEF TidyInv, HttpdType
  <1>2. reply[d] \o lines \in Seq(Int)
    BY <1>1, Answered
  <1>3. HttpdType' /\ stage'[d] = s /\ reply'[d] = reply[d] \o lines
    BY <1>1, <1>2 DEF HttpdType, Stages, Early
  <1>4. \A c \in Clients \ {d} : Apart(c)
    BY <1>1 DEF Apart, HttpdType
  <1>5. ChildOk(d)'
    BY <1>1, <1>3 DEF ChildOk, Early, Piping
  <1>6. lines = << 500 >> => Failed(d)'
    <2> SUFFICES ASSUME lines = << 500 >> PROVE Failed(d)'
      OBVIOUS
    <2>1. Len(reply[d]) + 1 \in DOMAIN (reply[d] \o lines) /\ (reply[d] \o lines)[Len(reply[d]) + 1] = 500
      BY <1>1, AnswerFails
    <2>2. Len(reply[d]) + 1 \in DOMAIN reply'[d] /\ reply'[d][Len(reply[d]) + 1] = 500
      BY <1>3, <2>1
    <2> QED
      BY <2>2 DEF Failed
  <1>7. EndsOk(d)'
    <2>1. child'[d] \notin Running
      BY <1>1 DEF ChildOk, Running
    <2>2. stage[d] = "head" => \A e \in Ends : <<Httpd, d, e>> \in fdtab => e = "sock"
      BY <1>1 DEF EndsOk, Allowed
    <2>3. Needed(s) = {} /\ Allowed(s) = {"sock"}
      BY DEF Needed, Allowed, Piping
    <2> QED
      BY <1>3, <1>6, <2>1, <2>2, <2>3 DEF EndsOk
  <1> QED
    BY <1>3, <1>4, <1>5, <1>7, OneClient

LEMMA AnswersKeep ==
  ASSUME TidyInv, alive, NEW d \in Clients,
         NotFound(d) \/ serve_file(d) \/ bad_request(d) \/ BeginCgi(d) \/ cannot_execute(d)
  PROVE  TidyInv'
  <1>1. UNCHANGED <<child, pout, got, wrote, relayed, req, fdtab>>
    BY DEF NotFound, serve_file, bad_request, BeginCgi, cannot_execute, pipeVars, cgiVars
  <1>2. Unimplemented(req[d]) \in Seq(Int)
    BY DEF Unimplemented
  <1>3. ASSUME NEW code \in Int, NEW s \in {"close", "output"}, HeadRead(d), ToStage(d, s),
               SendTo(d, Unimplemented(req[d]) \o <<code>>)
        PROVE  TidyInv'
    <2> DEFINE l == Unimplemented(req[d]) \o <<code>>
    <2>1. l \in Seq(Int)
      BY <1>2
    <2>2. reply' = [reply EXCEPT ![d] = @ \o l] /\ stage[d] = "head" /\ stage' = [stage EXCEPT ![d] = s]
      BY <1>3 DEF SendTo, HeadRead, ToStage
    <2>3. "head" \in Early
      BY DEF Early
    <2> HIDE DEF l
    <2> QED
      BY <1>1, <2>1, <2>2, <2>3, AnswerMoves
  <1>4. CASE NotFound(d)
    BY <1>3, <1>4 DEF NotFound
  <1>5. CASE serve_file(d)
    BY <1>3, <1>5 DEF serve_file
  <1>6. CASE bad_request(d)
    BY <1>3, <1>6 DEF bad_request
  <1>7. CASE BeginCgi(d)
    BY <1>3, <1>7 DEF BeginCgi
  <1>8. CASE cannot_execute(d)
    <2> DEFINE l == << 500 >>
    <2>1. l \in Seq(Int) /\ stage[d] \in Early
      BY <1>8 DEF cannot_execute, Early
    <2>2. reply' = [reply EXCEPT ![d] = @ \o l] /\ stage' = [stage EXCEPT ![d] = "close"]
      BY <1>8 DEF cannot_execute, SendTo, ToStage
    <2>3. l = << 500 >>
      OBVIOUS
    <2> HIDE DEF l
    <2> QED
      BY <1>1, <2>1, <2>2, <2>3, AnswerMoves
  <1> QED
    BY <1>4, <1>5, <1>6, <1>7, <1>8

LEMMA ForkCgiKeeps == ASSUME TidyInv, alive, NEW d \in Clients, ForkCgi(d) PROVE TidyInv'
  <1>1. HttpdType /\ ChildOk(d) /\ EndsOk(d)
    BY DEF TidyInv
  <1>2. /\ stage[d] = "fork" /\ stage' = [stage EXCEPT ![d] = "parent"] /\ child' = [child EXCEPT ![d] = "forked"]
        /\ UNCHANGED <<req, reply, pout, got, wrote, relayed>>
    BY DEF ForkCgi, ToStage
  <1>3. /\ fdtab' \in SUBSET ((Clients \cup {Httpd}) \X Clients \X Ends)
        /\ \A c \in Clients : <<c, c, "ow">> \in fdtab => <<c, c, "ow">> \in fdtab'
        /\ <<Httpd, d, "ow">> \in fdtab => <<d, d, "ow">> \in fdtab'
        /\ \A c \in Clients, e \in Ends : <<Httpd, c, e>> \in fdtab' <=> <<Httpd, c, e>> \in fdtab
    BY <1>1, ForkFacts DEF ForkCgi
  <1>4. HttpdType' /\ stage'[d] = "parent" /\ child'[d] = "forked"
    BY <1>1, <1>2, <1>3 DEF HttpdType, Stages, Piping, Running
  <1>5. \A c \in Clients \ {d} : Apart(c)
    BY <1>1, <1>2, <1>3 DEF Apart, HttpdType
  <1>6. ChildOk(d)'
    BY <1>1, <1>2, <1>4 DEF ChildOk, Early, Piping, Running
  <1>7. <<Httpd, d, "ow">> \in fdtab /\ <<Httpd, d, "or">> \in fdtab /\ <<Httpd, d, "iw">> \in fdtab
    BY <1>1, <1>2 DEF EndsOk, Needed
  <1>8. EndsOk(d)'
    BY <1>3, <1>4, <1>7 DEF EndsOk, Needed, Allowed, Piping, Ends
  <1> QED
    BY <1>4, <1>5, <1>6, <1>8, OneClient

LEMMA WaitpidKeeps == ASSUME TidyInv, alive, NEW d \in Clients, Waitpid(d) PROVE TidyInv'
  <1>1. HttpdType /\ ChildOk(d) /\ EndsOk(d)
    BY DEF TidyInv
  <1>2. /\ stage[d] = "wait" /\ stage' = [stage EXCEPT ![d] = "close"] /\ child[d] = "zombie"
        /\ child' = [child EXCEPT ![d] = "reaped"] /\ UNCHANGED <<req, reply, pout, got, wrote, relayed, fdtab>>
    BY DEF Waitpid, ToStage, pipeVars
  <1>4. HttpdType' /\ stage'[d] = "close" /\ child'[d] = "reaped"
    BY <1>1, <1>2 DEF HttpdType, Stages
  <1>5. \A c \in Clients \ {d} : Apart(c)
    BY <1>1, <1>2 DEF Apart, HttpdType
  <1>6. ChildOk(d)'
    BY <1>1, <1>2, <1>4 DEF ChildOk, Early, Piping
  <1>7. EndsOk(d)'
    BY <1>1, <1>2, <1>4 DEF EndsOk, Needed, Allowed, Piping, Running
  <1> QED
    BY <1>4, <1>5, <1>6, <1>7, OneClient

(* Bytes pass through the pipes. *)
LEMMA RelayKeeps == ASSUME TidyInv, alive, NEW d \in Clients, Relay(d) PROVE TidyInv'
  <1>1. HttpdType /\ ChildOk(d) /\ EndsOk(d)
    BY DEF TidyInv
  <1>2. /\ stage[d] = "relay" /\ pout[d] > 0 /\ pout' = [pout EXCEPT ![d] = @ - 1] /\ relayed' = [relayed EXCEPT ![d] = @ + 1]
        /\ reply' = [reply EXCEPT ![d] = @ \o <<>>] /\ UNCHANGED <<req, stage, child, got, wrote, fdtab>>
    BY DEF Relay, SendTo
  <1>3. reply[d] \o <<>> = reply[d]
    BY <1>1 DEF HttpdType
  <1>4. reply' = reply
    BY <1>1, <1>2, <1>3 DEF HttpdType
  <1>5. HttpdType' /\ pout'[d] = pout[d] - 1 /\ relayed'[d] = relayed[d] + 1 /\ pout[d] \in Int /\ relayed[d] \in Int
    BY <1>1, <1>2, <1>4 DEF HttpdType
  <1>6. \A c \in Clients \ {d} : Apart(c)
    BY <1>1, <1>2, <1>4 DEF Apart, HttpdType
  <1>7. ChildOk(d)'
    BY <1>1, <1>2, <1>5 DEF ChildOk, Early, Piping, Running
  <1>8. EndsOk(d)'
    BY <1>1, <1>2, <1>4 DEF EndsOk, Failed
  <1> QED
    BY <1>5, <1>6, <1>7, <1>8, OneClient

LEMMA ScriptKeeps == ASSUME TidyInv, alive, NEW d \in Clients, Script(d) PROVE TidyInv'
  <1>1. HttpdType /\ ChildOk(d) /\ EndsOk(d) /\ UNCHANGED <<stage, reply, req, relayed>>
    BY DEF TidyInv, Script, Execl, ScriptReads, ScriptWrites, ScriptEnds, serverVars
  <1>2. child[d] \in Running => stage[d] \in Piping /\ HeldEnd(d, "or") /\ HeldEnd(d, "iw")
    <2> SUFFICES ASSUME child[d] \in Running PROVE stage[d] \in Piping /\ HeldEnd(d, "or") /\ HeldEnd(d, "iw")
      OBVIOUS
    <2>1. stage[d] \in Piping
      BY <1>1 DEF ChildOk, HttpdType, Stages, Running
    <2>2. <<Httpd, d, "or">> \in fdtab /\ <<Httpd, d, "iw">> \in fdtab
      BY <1>1, <2>1 DEF EndsOk, Needed, Piping
    <2> QED
      BY <2>1, <2>2 DEF HeldEnd
  <1>3. ASSUME NEW to \in {"reads", "zombie", "writes"}, child[d] \in Running, child' = [child EXCEPT ![d] = to],
               UNCHANGED <<pout, got, wrote>>,
               fdtab' \in SUBSET ((Clients \cup {Httpd}) \X Clients \X Ends),
               \A c \in Clients : (c # d \/ to # "zombie") /\ <<c, c, "ow">> \in fdtab => <<c, c, "ow">> \in fdtab',
               \A c \in Clients, e \in Ends : <<Httpd, c, e>> \in fdtab' <=> <<Httpd, c, e>> \in fdtab,
               to = "reads" => wrote[d] = 0,
               to = "writes" => got[d] = ToRead(req[d]),
               to = "zombie" /\ wrote[d] > 0 => got[d] = ToRead(req[d]) /\ wrote[d] = OutBytes
        PROVE  TidyInv'
    <2>1. HttpdType' /\ child'[d] = to /\ stage'[d] \in Piping
      BY <1>1, <1>2, <1>3 DEF HttpdType, Running
    <2>2. \A c \in Clients \ {d} : Apart(c)
      BY <1>1, <1>3 DEF Apart, HttpdType
    <2>3. ChildOk(d)'
      BY <1>1, <1>3, <2>1 DEF ChildOk, Early, Piping, Running
    <2>4. Failed(d)' = Failed(d)
      BY <1>1 DEF Failed
    <2>5. EndsOk(d)'
      <3>1. to \in Running => <<d, d, "ow">> \in fdtab'
        BY <1>1, <1>3 DEF EndsOk, Running
      <3>2. Needed(stage[d]) \subseteq Ends
        BY DEF Needed, Ends
      <3> QED
        BY <1>1, <1>3, <2>1, <2>4, <3>1, <3>2 DEF EndsOk
    <2> QED
      BY <2>1, <2>2, <2>3, <2>5, OneClient
  <1>4. CASE Execl(d)
    <2>1. child[d] = "forked" /\ wrote[d] = 0 /\ UNCHANGED <<pout, got, wrote>>
      BY <1>1, <1>4 DEF Execl, ChildOk
    <2>2. CASE child' = [child EXCEPT ![d] = "reads"] /\ fdtab' = fdtab \ {<<d, d, "or">>, <<d, d, "iw">>}
      <3>1. /\ fdtab' \in SUBSET ((Clients \cup {Httpd}) \X Clients \X Ends)
            /\ \A c \in Clients : <<c, c, "ow">> \in fdtab => <<c, c, "ow">> \in fdtab'
            /\ \A c \in Clients, e \in Ends : <<Httpd, c, e>> \in fdtab' <=> <<Httpd, c, e>> \in fdtab
        BY <1>1, <2>2, HttpdAssumption DEF HttpdType
      <3> QED
        BY <1>3, <2>1, <2>2, <3>1 DEF Running
    <2>3. CASE child' = [child EXCEPT ![d] = "zombie"] /\ Exits(d)
      <3>1. /\ fdtab' \in SUBSET ((Clients \cup {Httpd}) \X Clients \X Ends)
            /\ \A c \in Clients : c # d /\ <<c, c, "ow">> \in fdtab => <<c, c, "ow">> \in fdtab'
            /\ \A c \in Clients, e \in Ends : <<Httpd, c, e>> \in fdtab' <=> <<Httpd, c, e>> \in fdtab
        BY <1>1, <2>3, ExitFacts
      <3> QED
        BY <1>3, <2>1, <2>3, <3>1 DEF Running
    <2> QED
      BY <1>4, <2>2, <2>3 DEF Execl
  <1>5. CASE ScriptReads(d)
    <2>1. child[d] = "reads" /\ UNCHANGED <<pout, wrote, fdtab>> /\ fdtab' \in SUBSET ((Clients \cup {Httpd}) \X Clients \X Ends)
      BY <1>1, <1>5 DEF ScriptReads, HttpdType
    <2>2. CASE got' = [got EXCEPT ![d] = @ + 1] /\ child' = child
      <3>1. HttpdType' /\ \A c \in Clients \ {d} : Apart(c)
        BY <1>1, <2>1, <2>2 DEF HttpdType, Apart
      <3>2. ChildOk(d)'
        BY <1>1, <2>1, <2>2 DEF ChildOk
      <3>3. EndsOk(d)'
        BY <1>1, <2>1, <2>2 DEF EndsOk, Failed
      <3> QED
        BY <3>1, <3>2, <3>3, OneClient
    <2>3. CASE got[d] = ToRead(req[d]) /\ child' = [child EXCEPT ![d] = "writes"] /\ got' = got
      BY <1>3, <2>1, <2>3 DEF Running
    <2> QED
      BY <1>2, <1>5, <2>1, <2>2, <2>3 DEF ScriptReads, Running
  <1>6. CASE ScriptWrites(d)
    <2>1. /\ child[d] = "writes" /\ pout' = [pout EXCEPT ![d] = @ + 1] /\ wrote' = [wrote EXCEPT ![d] = @ + 1]
          /\ UNCHANGED <<child, got, fdtab>> /\ stage[d] \in Piping
      BY <1>2, <1>6 DEF ScriptWrites, Running
    <2>2. HttpdType' /\ pout'[d] = pout[d] + 1 /\ wrote'[d] = wrote[d] + 1 /\ pout[d] \in Int /\ wrote[d] \in Int /\ relayed[d] \in Int
      BY <1>1, <2>1 DEF HttpdType
    <2>3. \A c \in Clients \ {d} : Apart(c)
      BY <1>1, <2>1 DEF HttpdType, Apart
    <2>4. ChildOk(d)'
      BY <1>1, <2>1, <2>2 DEF ChildOk, Piping, Early
    <2>5. EndsOk(d)'
      BY <1>1, <2>1 DEF EndsOk, Failed
    <2> QED
      BY <2>2, <2>3, <2>4, <2>5, OneClient
  <1>7. CASE ScriptEnds(d)
    <2>1. child[d] = "writes" /\ child' = [child EXCEPT ![d] = "zombie"] /\ Exits(d) /\ UNCHANGED <<pout, got, wrote>>
      BY <1>7 DEF ScriptEnds
    <2>2. wrote[d] = OutBytes /\ got[d] = ToRead(req[d])
      BY <1>1, <1>2, <1>7 DEF ScriptEnds, ChildOk, Running
    <2>3. /\ fdtab' \in SUBSET ((Clients \cup {Httpd}) \X Clients \X Ends)
          /\ \A c \in Clients : c # d /\ <<c, c, "ow">> \in fdtab => <<c, c, "ow">> \in fdtab'
          /\ \A c \in Clients, e \in Ends : <<Httpd, c, e>> \in fdtab' <=> <<Httpd, c, e>> \in fdtab
      BY <1>1, <2>1, ExitFacts
    <2> QED
      BY <1>3, <2>1, <2>2, <2>3 DEF Running
  <1> QED
    BY <1>4, <1>5, <1>6, <1>7 DEF Script

LEMMA HttpdStep == TidyInv /\ [HttpdNext]_httpdVars => TidyInv'
  <1> SUFFICES ASSUME TidyInv, [HttpdNext]_httpdVars PROVE TidyInv'
    OBVIOUS
  <1>1. CASE UNCHANGED <<alive, req, stage, reply, fdtab, pout, child, got, wrote, relayed>>
    BY <1>1 DEF TidyInv, HttpdType, ChildOk, EndsOk, Failed
  <1>2. CASE UNCHANGED httpdVars
    BY <1>1, <1>2 DEF httpdVars, serverVars, pipeVars, cgiVars
  <1>3. CASE error_die
    BY <1>3 DEF error_die, TidyInv
  <1>4. ASSUME alive, NEW d \in Clients, ClientSends(d) \/ ClientGoes(d) PROVE TidyInv'
    BY <1>1, <1>4 DEF ClientSends, ClientGoes, serverVars, pipeVars, cgiVars
  <1>5. ASSUME NEW d \in Clients, ServeFails(d) PROVE TidyInv'
    BY <1>5 DEF ServeFails, TidyInv
  <1>6. ASSUME alive, NEW d \in Clients, PostByte(d) PROVE TidyInv'
    <2>1. CASE alive'
      BY <1>1, <1>6, <2>1 DEF PostByte
    <2>2. CASE ~alive'
      BY <2>2 DEF TidyInv
    <2> QED
      BY <2>1, <2>2
  <1> QED
    BY <1>2, <1>3, <1>4, <1>5, <1>6, ServerKeeps, AnswersKeep, ForkCgiKeeps, WaitpidKeeps, RelayKeeps, ScriptKeeps
       DEF HttpdNext, Thread

(* httpd.c, for any clients, sizes of bodies and of what a script prints, *)
(* and whichever pipe, fork, fopen or accept fails: a thread that is done *)
(* has reaped its child and relayed all that the child wrote, the script  *)
(* was given its whole body, and the server has no descriptor of the      *)
(* connection left unless it answered 500.                               *)
THEOREM HttpdKept == HttpdSpec => []HttpdTidy
  <1>1. ASSUME TidyInv PROVE HttpdTidy
    <2> SUFFICES ASSUME alive, NEW c \in Clients, stage[c] = "closed"
                 PROVE  /\ child[c] \in {"none", "reaped"} /\ relayed[c] = wrote[c] /\ pout[c] = 0
                        /\ wrote[c] > 0 => got[c] = ToRead(req[c]) /\ wrote[c] = OutBytes
                        /\ 500 \notin {reply[c][k] : k \in DOMAIN reply[c]} => \A d \in fdtab : d[1] = Httpd => d[2] # c
      BY DEF HttpdTidy
    <2>1. HttpdType /\ ChildOk(c) /\ EndsOk(c)
      BY <1>1 DEF TidyInv
    <2>2. child[c] \in {"none", "reaped"} /\ pout[c] = 0 /\ wrote[c] = relayed[c] + pout[c] /\ relayed[c] \in Int
      BY <2>1 DEF ChildOk, HttpdType
    <2>3. wrote[c] > 0 => got[c] = ToRead(req[c]) /\ wrote[c] = OutBytes
      BY <2>1, <2>2 DEF ChildOk
    <2>4. ASSUME 500 \notin {reply[c][k] : k \in DOMAIN reply[c]}, NEW d \in fdtab, d[1] = Httpd, d[2] = c PROVE FALSE
      <3>1. ~Failed(c)
        BY <2>4 DEF Failed
      <3>2. d = <<Httpd, c, d[3]>> /\ d[3] \in Ends
        BY <2>1, <2>4 DEF HttpdType
      <3>3. Allowed(stage[c]) = {}
        BY DEF Allowed
      <3> QED
        BY <2>1, <2>4, <3>1, <3>2, <3>3 DEF EndsOk
    <2> QED
      BY <2>2, <2>3, <2>4
  <1> QED
    BY <1>1, HttpdStart, HttpdStep, PTL DEF HttpdSpec

-----------------------------------------------------------------------------
(* The unified event source: the names of the users, the timers and the    *)
(* descriptors are apart.                                                  *)
LEMMA Names == /\ NoTimer \notin Users /\ FreedTimer \notin Users /\ NoTimer # FreedTimer /\ ListenFd # PipeFd
               /\ ListenFd \notin Users /\ PipeFd \notin Users /\ Lst!NamesOk
  BY NonActiveAssumption DEF Lst!NamesOk

-----------------------------------------------------------------------------
(* The calls of L are those of Lst. *)
LEMMA SameLast == \A l, e, p : Lst!LastBefore(l, e, p) = L!LastBefore(l, e, p)
  BY Zenon DEF Lst!LastBefore, L!LastBefore

LEMMA SameMembers == \A l : Lst!Members(l) = L!Members(l)
  BY Zenon DEF Lst!Members, L!Members

LEMMA SameDue == \A l, cur : Lst!FirstNotDue(l, cur) = L!FirstNotDue(l, cur)
  BY Zenon DEF Lst!FirstNotDue, L!FirstNotDue

(* The private add_timer, once it is known after which timer. *)
InsertAfter(l, t, p) ==
    IF l.next[p] = NoTimer
    THEN [l EXCEPT !.next[p] = t, !.prev[t] = p, !.next[t] = NoTimer, !.tail = t]
    ELSE [l EXCEPT !.next[p] = t, !.next[t] = l.next[p], !.prev[l.next[p]] = t, !.prev[t] = p]

LEMMA SameInsert == \A l, t, h : Lst!Insert(l, t, h) = L!Insert(l, t, h)
  <1> SUFFICES ASSUME NEW l, NEW t, NEW h PROVE Lst!Insert(l, t, h) = L!Insert(l, t, h)
    OBVIOUS
  <1> DEFINE p == Lst!LastBefore(l, l.expire[t], h)
  <1>1. p = L!LastBefore(l, l.expire[t], h)
    BY SameLast
  <1>2. Lst!Insert(l, t, h) = InsertAfter(l, t, p)
    BY DEF Lst!Insert, InsertAfter
  <1>3. L!Insert(l, t, h) = InsertAfter(l, t, L!LastBefore(l, l.expire[t], h))
    BY DEF L!Insert, InsertAfter
  <1> QED
    BY <1>1, <1>2, <1>3

LEMMA SameAdd == \A l, t, e : Lst!add_timer(Lst!New(l, t, e), t) = L!add_timer(L!New(l, t, e), t)
  BY SameInsert DEF Lst!add_timer, L!add_timer, Lst!New, L!New

LEMMA SameAdjust == \A l, t : Lst!adjust_timer(l, t) = L!adjust_timer(l, t)
  BY SameInsert DEF Lst!adjust_timer, L!adjust_timer

LEMMA SameDel == \A l, t : Lst!del_timer(l, t) = L!del_timer(l, t)
  BY DEF Lst!del_timer, L!del_timer, Lst!Delete, L!Delete

(* tick, once it is known where it stops and who is cut. *)
Swept(l, h, cut) ==
    LET swept == [l EXCEPT !.head = h,
                           !.next = [t \in Users |-> IF t \in cut THEN FreedTimer ELSE @[t]],
                           !.prev = [t \in Users |-> IF t \in cut THEN FreedTimer ELSE @[t]],
                           !.expire = [t \in Users |-> IF t \in cut THEN 0 ELSE @[t]]]
    IN  IF cut = {} \/ h = NoTimer THEN swept ELSE [swept EXCEPT !.prev[h] = NoTimer]

LEMMA SameTick == \A l, cur : Lst!tick(l, cur) = L!tick(l, cur)
  <1> SUFFICES ASSUME NEW l, NEW cur PROVE Lst!tick(l, cur) = L!tick(l, cur)
    OBVIOUS
  <1> DEFINE h == Lst!FirstNotDue(l, cur)
             g == Lst!Members(l) \ Lst!Members([l EXCEPT !.head = h])
  <1>1. Lst!tick(l, cur) = Swept(l, h, g)
    BY DEF Lst!tick, Swept
  <1>2. L!tick(l, cur) = Swept(l, L!FirstNotDue(l, cur), L!Members(l) \ L!Members([l EXCEPT !.head = L!FirstNotDue(l, cur)]))
    BY DEF L!tick, Swept
  <1>3. L!FirstNotDue(l, cur) = h
    BY SameDue
  <1>4. g = L!Members(l) \ L!Members([l EXCEPT !.head = h])
    BY SameMembers
  <1> QED
    BY <1>1, <1>2, <1>3, <1>4

LEMMA SameLinked == Lst!ListLinked <=> L!ListLinked
  BY SameMembers DEF Lst!ListLinked, L!ListLinked

(* What Lst shows of its calls, for those of L. *)
LEMMA AddKeeps ==
  ASSUME NEW l, NEW C, NEW r, Lst!Linked(l, C, r), NEW t \in Users \ C, NEW e \in Int,
         NEW m, m = L!add_timer(L!New(l, t, e), t)
  PROVE  Lst!Grown(m, l, C, t, e)
  BY Names, SameAdd, Lst!AddKeeps

LEMMA DelKeeps ==
  ASSUME NEW l, NEW C, NEW r, Lst!Linked(l, C, r), NEW t \in C, \A x \in Users \ C : l.next[x] = FreedTimer,
         NEW m, m = L!del_timer(l, t)
  PROVE  /\ Lst!Linked(m, C \ {t}, r) /\ m.next[t] = FreedTimer
         /\ \A x \in C \ {t} : m.expire[x] = l.expire[x]
         /\ \A x \in Users \ C : m.next[x] = FreedTimer
  BY Names, SameDel, Lst!DelKeeps

LEMMA AdjustKeeps ==
  ASSUME NEW l, NEW C, NEW r, Lst!Linked(l, C, r), NEW t \in C, \A x \in Users \ C : l.next[x] = FreedTimer,
         NEW e \in Int, l.expire[t] <= e, NEW m, m = L!adjust_timer([l EXCEPT !.expire[t] = e], t)
  PROVE  /\ \E q : Lst!Linked(m, C, q)
         /\ m.expire = [l.expire EXCEPT ![t] = e] /\ \A x \in Users \ C : m.next[x] = FreedTimer
  <1>1. m = Lst!adjust_timer(Lst!PutOff(l, t, e), t)
    <2>1. Lst!adjust_timer(Lst!PutOff(l, t, e), t) = L!adjust_timer(Lst!PutOff(l, t, e), t)
      BY SameAdjust, Zenon
    <2> QED
      BY <2>1 DEF Lst!PutOff
  <1>2. Lst!Moved(m, l, C, t, e)
    BY <1>1, Names, Lst!AdjustMoves, Zenon
  <1> QED
    BY <1>2 DEF Lst!Moved

LEMMA TickKeeps ==
  ASSUME NEW l, NEW C, NEW r, Lst!Linked(l, C, r), \A x \in Users \ C : l.next[x] = FreedTimer,
         NEW cur \in Int, NEW m, m = L!tick(l, cur), NEW B, B = {x \in C : cur < l.expire[x]}
  PROVE  /\ Lst!Linked(m, B, r) /\ \A x \in Users \ B : m.next[x] = FreedTimer
         /\ \A x \in B : m.expire[x] = l.expire[x]
         /\ L!Members(l) = C /\ L!Members(m) = B
  <1>1. m = Lst!tick(l, cur)
    BY SameTick
  <1>2. /\ Lst!Linked(m, B, r) /\ \A x \in Users \ B : m.next[x] = FreedTimer
        /\ \A x \in B : m.expire[x] = l.expire[x]
        /\ Lst!Members(l) = C /\ Lst!Members(m) = B
    BY <1>1, Names, Lst!TickKeeps
  <1> QED
    BY <1>2, SameMembers

LEMMA AllMembers == ASSUME NEW l, NEW C, NEW r, Lst!Linked(l, C, r) PROVE L!Members(l) = C
  BY Names, SameMembers, Lst!AllMembers

LEMMA LinkedFacts ==
  ASSUME NEW l, NEW C, NEW r, Lst!Linked(l, C, r)
  PROVE  /\ l \in Lst!TimerList /\ C \in SUBSET Users /\ r \in [Users -> Nat] /\ l.expire \in [Users -> Int]
         /\ l.head \in Users \cup {NoTimer} /\ l.tail \in Users \cup {NoTimer}
         /\ l.next \in [Users -> Lst!Links] /\ l.prev \in [Users -> Lst!Links]
         /\ Lst!Chain(l.next, C, r) /\ Lst!Back(l, C, r)
         /\ \A x \in C : r[x] \in Nat /\ l.expire[x] \in Int /\ x \in Users
         /\ NoTimer \notin C /\ FreedTimer \notin C
  BY Names, Lst!LinkedFacts

-----------------------------------------------------------------------------
(* 11-3nonactive_conn.cpp and 10-1unievent.cpp, the loop. *)
Opened == {c \in Users : user[c] = "open"}
OnList == {c \in Users : timer_lst.next[c] # FreedTimer}
NcFds == Users \cup {ListenFd, PipeFd}
NcType ==
    /\ timed \in BOOLEAN /\ clock \in Nat /\ alarmAt \in Nat /\ late \in Nat /\ loop \in {"wait", "events", "stopped", "lost"}
    /\ user \in [Users -> {"idle", "queued", "open", "closed"}] /\ heard \in [Users -> Nat]
    /\ unread \in [Users -> Nat] /\ left \in [Users -> BOOLEAN]
    /\ queue \in Seq(Users) /\ ready \in Seq(NcFds) /\ news \in SUBSET NcFds
    /\ timeout \in BOOLEAN /\ stop_server \in BOOLEAN

(* Nobody is in the accept queue twice, an event is reported once, and     *)
(* what it reports is still so when its turn comes.                        *)
Once(s) == \A j, k \in DOMAIN s : s[j] = s[k] => j = k
Waiting == \A k \in DOMAIN queue : user[queue[k]] = "queued"
StillSo == \A k \in DOMAIN ready : /\ ready[k] = ListenFd => queue # <<>>
                                   /\ ready[k] \in Users => user[ready[k]] = "open"
Reported == Waiting /\ Once(queue) /\ StillSo /\ Once(ready) /\ (loop = "wait" => ready = <<>>)

(* The alarm that is set rings before four slots have passed since any     *)
(* connection was heard.                                                   *)
TimersRun ==
    /\ missed = {} /\ alarmAt <= clock + TIMESLOT
    /\ \A c \in Opened : /\ timer_lst.expire[c] = heard[c] + 3 * TIMESLOT /\ heard[c] <= clock
                       /\ clock <= heard[c] + 4 * TIMESLOT + late /\ alarmAt < heard[c] + 4 * TIMESLOT
Hangs == OnList = Opened /\ \E r : Lst!Linked(timer_lst, OnList, r)
Timing == timed => TimersRun /\ Hangs
NcInv == NcType /\ Reported /\ NcSignals /\ Timing

(* The list is the one whose timers D are the open connections. *)
LEMMA HangsOn ==
  ASSUME Opened' = {c \in Users : timer_lst'.next[c] # FreedTimer}, \E r : Lst!Linked(timer_lst', Opened', r)
  PROVE  Hangs'
  <1>1. OnList' = Opened'
    BY DEF OnList
  <1> QED
    BY <1>1 DEF Hangs

LEMMA StaysOn ==
  ASSUME NEW m, NEW D, \E q : Lst!Linked(m, D, q), \A x \in Users \ D : m.next[x] = FreedTimer
  PROVE  D = {c \in Users : m.next[c] # FreedTimer}
  <1>1. PICK q : Lst!Linked(m, D, q)
    OBVIOUS
  <1>2. Lst!Chain(m.next, D, q) /\ FreedTimer \notin D /\ FreedTimer # NoTimer
    BY <1>1, LinkedFacts, Names
  <1>3. D \in SUBSET Users /\ \A x \in D : m.next[x] \in D \cup {NoTimer}
    BY <1>2 DEF Lst!Chain
  <1> QED
    BY <1>2, <1>3

LEMMA SameTimers ==
  ASSUME Timing, UNCHANGED <<timed, timer_lst, clock, alarmAt, late, heard, missed>>, Opened' = Opened
  PROVE  Timing'
  BY DEF Timing, TimersRun, Hangs, OnList

(* An event is taken out of ready. *)
Rest(t, s) == t = Tail(s)
LEMMA Dropped ==
  ASSUME NEW S, NEW s \in Seq(S), s # <<>>, Once(s), NEW t, Rest(t, s)
  PROVE  /\ t \in Seq(S) /\ Once(t) /\ 1 \in DOMAIN s /\ Head(s) = s[1] /\ s[1] \in S
         /\ \A k \in DOMAIN t : k + 1 \in DOMAIN s /\ t[k] = s[k + 1] /\ t[k] # s[1]
         /\ \A k \in DOMAIN s : s[k] # s[1] => \E j \in DOMAIN t : t[j] = s[k]
  <1>1. /\ Len(s) \in Nat /\ Len(s) > 0 /\ DOMAIN s = 1 .. Len(s) /\ Head(s) = s[1] /\ s[1] \in S
        /\ t \in Seq(S) /\ Len(t) = Len(s) - 1 /\ DOMAIN t = 1 .. Len(t) /\ \A k \in 1 .. Len(t) : t[k] = s[k + 1]
    BY DEF Rest
  <1>2. \A k \in DOMAIN t : k + 1 \in DOMAIN s /\ t[k] = s[k + 1] /\ k + 1 # 1 /\ k \in Int
    BY <1>1
  <1>3. \A k \in DOMAIN t : t[k] # s[1]
    BY <1>1, <1>2 DEF Once
  <1>4. Once(t)
    BY <1>2 DEF Once
  <1>5. ASSUME NEW k \in DOMAIN s, s[k] # s[1] PROVE \E j \in DOMAIN t : t[j] = s[k]
    <2>1. k - 1 \in DOMAIN t /\ t[k - 1] = s[(k - 1) + 1] /\ (k - 1) + 1 = k
      BY <1>1, <1>5
    <2> QED
      BY <2>1
  <1> QED
    BY <1>1, <1>2, <1>3, <1>4, <1>5

LEMMA EventFacts ==
  ASSUME NcInv, NEW s, Event(s)
  PROVE  /\ loop = "events" /\ ready' \in Seq(NcFds) /\ Once(ready')
         /\ s \in NcFds /\ (s = ListenFd => queue # <<>>) /\ (s \in Users => user[s] = "open")
         /\ \A k \in DOMAIN ready' : ready'[k] # s /\ \E j \in DOMAIN ready : ready'[k] = ready[j]
         /\ s # PipeFd /\ PipeFd \in {ready[k] : k \in DOMAIN ready} => PipeFd \in {ready'[k] : k \in DOMAIN ready'}
  <1>1. /\ ready \in Seq(NcFds) /\ ready # <<>> /\ Once(ready) /\ ready' = Tail(ready) /\ loop = "events" /\ s = Head(ready)
        /\ StillSo
    BY DEF NcInv, NcType, Reported, Event
  <1> DEFINE t == Tail(ready)
  <1>2. Rest(t, ready) /\ ready \in Seq(NcFds) /\ ready # <<>> /\ Once(ready)
    BY <1>1 DEF Rest
  <1> HIDE DEF t
  <1>3. /\ t \in Seq(NcFds) /\ Once(t) /\ 1 \in DOMAIN ready /\ Head(ready) = ready[1] /\ ready[1] \in NcFds
        /\ \A k \in DOMAIN t : k + 1 \in DOMAIN ready /\ t[k] = ready[k + 1] /\ t[k] # ready[1]
        /\ \A k \in DOMAIN ready : ready[k] # ready[1] => \E j \in DOMAIN t : t[j] = ready[k]
    BY <1>2, Dropped
  <1>4. (s = ListenFd => queue # <<>>) /\ (s \in Users => user[s] = "open")
    BY <1>1, <1>3 DEF StillSo
  <1>5. s # PipeFd /\ PipeFd \in {ready[k] : k \in DOMAIN ready} => PipeFd \in {t[k] : k \in DOMAIN t}
    BY <1>1, <1>3
  <1> QED
    <2>1. ready' = t
      BY <1>1 DEF t
    <2>2. \A k \in DOMAIN t : t[k] # s /\ \E j \in DOMAIN ready : t[k] = ready[j]
      BY <1>1, <1>3
    <2>3. loop = "events" /\ s \in NcFds /\ t \in Seq(NcFds) /\ Once(t)
      BY <1>1, <1>3
    <2> QED
      BY <1>4, <1>5, <2>1, <2>2, <2>3, Zenon

(* What is in the pipe stays reported while another event is handled. *)
LEMMA OtherEvent ==
  ASSUME NcInv, NEW s, Event(s), s # PipeFd, UNCHANGED <<timed, alarmAt, sigs, timeout, loop>>,
         PipeFd \in news => PipeFd \in news'
  PROVE  NcSignals'
  <1>1. PipeFd \in {ready[k] : k \in DOMAIN ready} => PipeFd \in {ready'[k] : k \in DOMAIN ready'}
    BY EventFacts
  <1>2. loop = "events"
    BY DEF Event
  <1>3. NcSignals
    BY DEF NcInv
  <1> QED
    BY <1>1, <1>2, <1>3 DEF NcSignals, Loops

-----------------------------------------------------------------------------
LEMMA NcStarts == NcInit => NcInv
  <1> SUFFICES ASSUME NcInit PROVE NcInv
    OBVIOUS
  <1> DEFINE z == [c \in Users |-> 0]
             l == L!Empty
  <1>1. /\ TIMESLOT \in Nat /\ TIMESLOT # 0 /\ NoTimer # FreedTimer /\ 0 \in Nat
        /\ NoTimer \in Lst!Links /\ FreedTimer \in Lst!Links /\ FreedTimer \notin Users
    BY NonActiveAssumption, Names DEF Lst!Links
  <1>2. NcType
    <2>1. timed \in BOOLEAN /\ clock \in Nat /\ alarmAt \in Nat /\ late \in Nat /\ loop = "wait"
      BY <1>1 DEF NcInit
    <2>2. /\ user \in [Users -> {"idle", "queued", "open", "closed"}] /\ heard \in [Users -> Nat]
          /\ unread \in [Users -> Nat] /\ left \in [Users -> BOOLEAN]
      BY <1>1 DEF NcInit
    <2>3. /\ queue \in Seq(Users) /\ ready \in Seq(NcFds) /\ news \in SUBSET NcFds
          /\ timeout \in BOOLEAN /\ stop_server \in BOOLEAN
      <3>1. queue = <<>> /\ ready = <<>> /\ news = {} /\ timeout = FALSE /\ stop_server = FALSE
        BY DEF NcInit
      <3>2. <<>> \in Seq(Users) /\ <<>> \in Seq(NcFds)
        OBVIOUS
      <3> QED
        BY <3>1, <3>2
    <2> QED
      BY <2>1, <2>2, <2>3 DEF NcType
  <1>3. Reported
    BY DEF NcInit, Reported, Waiting, StillSo, Once
  <1>4. NcSignals
    BY <1>1 DEF NcInit, NcSignals, Loops
  <1>5. Opened = {}
    BY DEF NcInit, Opened
  <1>6. /\ l \in Lst!TimerList /\ l.head = NoTimer
        /\ l.next = [t \in Users |-> FreedTimer]
    BY <1>1 DEF L!Empty, Lst!TimerList
  <1>7. Lst!Linked(l, {}, z)
    <2>1. Lst!Chain(l.next, {}, z)
      BY <1>1, <1>6 DEF Lst!Chain
    <2>2. Lst!Back(l, {}, z)
      BY <1>6 DEF Lst!Back
    <2> QED
      BY <1>6, <2>1, <2>2 DEF Lst!Linked
  <1>8. timer_lst = l
    BY DEF NcInit
  <1> HIDE DEF l, z
  <1>9. OnList = {}
    BY <1>6, <1>8 DEF OnList
  <1>10. Hangs
    BY <1>5, <1>7, <1>8, <1>9 DEF Hangs
  <1>11. TimersRun \/ ~timed
    BY <1>1, <1>5 DEF NcInit, TimersRun
  <1> QED
    BY <1>2, <1>3, <1>4, <1>10, <1>11 DEF NcInv, Timing

(* What the invariant says of a user's place in the queue and in ready. *)
LEMMA NcFacts ==
  ASSUME NcInv
  PROVE  /\ \A k \in DOMAIN queue : queue[k] \in Users /\ user[queue[k]] = "queued"
         /\ \A k \in DOMAIN ready : ready[k] \in NcFds /\ (ready[k] \in Users => user[ready[k]] = "open")
         /\ Users \subseteq NcFds /\ ListenFd \in NcFds /\ PipeFd \in NcFds
         /\ TIMESLOT \in Nat /\ TIMESLOT # 0
  BY NonActiveAssumption DEF NcInv, NcType, Reported, Waiting, StillSo, NcFds

LEMMA ConnectsKeeps == ASSUME NcInv, NEW c \in Users, UserConnects(c) PROVE NcInv'
  <1>1. /\ user[c] = "idle" /\ user' = [user EXCEPT ![c] = "queued"] /\ queue' = Append(queue, c)
        /\ news' = news \cup {ListenFd}
        /\ UNCHANGED <<timed, clock, alarmAt, sigs, unread, left, timer_lst, loop, ready, timeout, stop_server, heard, missed, late>>
    BY DEF UserConnects, mainVars, histVars
  <1>2. /\ user \in [Users -> {"idle", "queued", "open", "closed"}] /\ queue \in Seq(Users) /\ ready \in Seq(NcFds)
        /\ Once(queue) /\ (loop = "wait" => ready = <<>>) /\ Once(ready) /\ StillSo
    BY DEF NcInv, NcType, Reported
  <1>3. NcType'
    BY <1>1, NcFacts DEF NcInv, NcType
  <1>4. /\ Len(queue) \in Nat /\ DOMAIN queue = 1 .. Len(queue) /\ DOMAIN queue' = 1 .. Len(queue) + 1
        /\ \A k \in 1 .. Len(queue) : queue'[k] = queue[k] /\ queue'[k] \in Users
        /\ queue'[Len(queue) + 1] = c /\ queue' # <<>>
    BY <1>1, <1>2
  <1>5. \A k \in DOMAIN queue : user[queue[k]] = "queued" /\ queue[k] # c
    BY <1>1, NcFacts
  <1>6. \A k \in DOMAIN queue' : k \in DOMAIN queue \/ k = Len(queue) + 1
    BY <1>4
  <1>7. Waiting'
    BY <1>1, <1>2, <1>4, <1>5, <1>6 DEF Waiting
  <1>8. Once(queue)'
    BY <1>2, <1>4, <1>5, <1>6 DEF Once
  <1>9. StillSo'
    BY <1>1, <1>2, <1>4 DEF StillSo
  <1>10. Reported'
    BY <1>1, <1>2, <1>7, <1>8, <1>9 DEF Reported, Once
  <1>11. NcSignals'
    BY <1>1 DEF NcInv, NcSignals, Loops
  <1>12. Opened' = Opened
    BY <1>1, <1>2 DEF Opened
  <1> QED
    BY <1>1, <1>3, <1>10, <1>11, <1>12, SameTimers DEF NcInv

(* A step of the environment that leaves queue, ready and user alone. *)
LEMMA AroundKeeps ==
  ASSUME NcInv, NcType', NcSignals', Timing', UNCHANGED <<user, queue, ready, loop>>
  PROVE  NcInv'
  <1>1. Reported'
    BY DEF NcInv, Reported, Waiting, StillSo, Once
  <1> QED
    BY <1>1 DEF NcInv

LEMMA SendsKeeps == ASSUME NcInv, NEW c \in Users, UserSends(c) \/ UserLeaves(c) PROVE NcInv'
  <1>1. /\ UNCHANGED <<timed, clock, alarmAt, sigs, user, queue, timer_lst, loop, ready, timeout, stop_server, heard, missed, late>>
        /\ news' \in {news, news \cup {c}}
    BY Zenon DEF UserSends, UserLeaves, Changed, mainVars, histVars
  <1>2. unread' \in [Users -> Nat] /\ left' \in [Users -> BOOLEAN]
    <2>1. unread \in [Users -> Nat] /\ left \in [Users -> BOOLEAN]
      BY DEF NcInv, NcType
    <2>2. CASE UserSends(c)
      BY <2>1, <2>2 DEF UserSends
    <2>3. CASE UserLeaves(c)
      BY <2>1, <2>3 DEF UserLeaves
    <2> QED
      BY <2>2, <2>3
  <1>3. NcType'
    BY <1>1, <1>2, NcFacts DEF NcInv, NcType
  <1>4. NcSignals'
    BY <1>1 DEF NcInv, NcSignals, Loops
  <1>5. Timing'
    BY <1>1, SameTimers DEF NcInv, Opened
  <1> QED
    BY <1>1, <1>3, <1>4, <1>5, AroundKeeps

LEMMA SignalKeeps == ASSUME NcInv, Signal PROVE NcInv'
  <1>1. /\ UNCHANGED <<timed, alarmAt, clock, user, unread, left, queue, timer_lst, loop, ready, timeout, stop_server, heard, missed, late>>
        /\ news' = news \cup {PipeFd} /\ sigs \subseteq sigs'
    BY DEF Signal, sig_handler, envVars, mainVars, histVars
  <1>2. NcType'
    BY <1>1, NcFacts DEF NcInv, NcType
  <1>3. NcSignals'
    BY <1>1 DEF NcInv, NcSignals, Loops
  <1>4. Timing'
    BY <1>1, SameTimers DEF NcInv, Opened
  <1> QED
    BY <1>1, <1>2, <1>3, <1>4, AroundKeeps

LEMMA AlarmKeeps == ASSUME NcInv, AlarmRings PROVE NcInv'
  <1>1. /\ UNCHANGED <<timed, clock, user, unread, left, queue, timer_lst, loop, ready, timeout, stop_server, heard, missed, late>>
        /\ news' = news \cup {PipeFd} /\ sigs' = sigs \cup {"ALRM"} /\ alarmAt' = 0
    BY DEF AlarmRings, sig_handler, envVars, mainVars, histVars
  <1>2. NcType'
    BY <1>1, NcFacts DEF NcInv, NcType
  <1>3. NcSignals'
    BY <1>1 DEF NcInv, NcSignals, Loops
  <1>4. TimersRun => TimersRun'
    <2>1. \A x \in Opened : heard[x] \in Nat /\ 0 < heard[x] + 4 * TIMESLOT
      BY NcFacts DEF NcInv, NcType, Opened
    <2>2. 0 <= clock + TIMESLOT
      BY NcFacts DEF NcInv, NcType
    <2> QED
      BY <1>1, <2>1, <2>2 DEF TimersRun, Opened
  <1>5. Timing'
    BY <1>1, <1>4 DEF NcInv, Timing, Hangs, OnList, Opened
  <1> QED
    BY <1>1, <1>2, <1>3, <1>5, AroundKeeps

LEMMA TimeKeeps == ASSUME NcInv, TimePasses PROVE NcInv'
  <1>1. /\ UNCHANGED <<timed, alarmAt, sigs, user, unread, left, queue, timer_lst, loop, ready, timeout, stop_server, heard, missed, news>>
        /\ clock' = clock + 1 /\ timed
        /\ late' = IF loop = "wait" /\ ToReport = {} /\ clock < alarmAt THEN late ELSE late + 1
    BY DEF TimePasses, mainVars
  <1>2. clock \in Nat /\ late \in Nat /\ alarmAt \in Nat /\ heard \in [Users -> Nat]
    BY DEF NcInv, NcType
  <1>3. NcType'
    BY <1>1, <1>2 DEF NcInv, NcType
  <1>4. NcSignals'
    BY <1>1 DEF NcInv, NcSignals, Loops
  <1>5. TimersRun'
    <2>1. TimersRun
      BY <1>1 DEF NcInv, Timing
    <2>2. ASSUME NEW x \in Opened
          PROVE  /\ timer_lst.expire[x] = heard[x] + 3 * TIMESLOT /\ heard[x] <= clock + 1
                 /\ clock + 1 <= heard[x] + 4 * TIMESLOT + late' /\ alarmAt < heard[x] + 4 * TIMESLOT
      <3>1. /\ timer_lst.expire[x] = heard[x] + 3 * TIMESLOT /\ heard[x] <= clock /\ heard[x] \in Nat
            /\ clock <= heard[x] + 4 * TIMESLOT + late /\ alarmAt < heard[x] + 4 * TIMESLOT
        BY <1>2, <2>1 DEF TimersRun, Opened
      <3>2. clock < alarmAt \/ late' = late + 1
        BY <1>1
      <3>3. late' \in Nat /\ late <= late'
        BY <1>1, <1>2
      <3> QED
        BY <1>2, <3>1, <3>2, <3>3, NcFacts
    <2>3. alarmAt <= clock + 1 + TIMESLOT
      BY <1>2, <2>1, NcFacts DEF TimersRun
    <2> QED
      BY <1>1, <2>1, <2>2, <2>3 DEF TimersRun, Opened
  <1>6. Timing'
    BY <1>1, <1>5 DEF NcInv, Timing, Hangs, OnList, Opened
  <1> QED
    BY <1>1, <1>3, <1>4, <1>6, AroundKeeps

(* An order of a finite set has each of its elements once. *)
LEMMA Ordered ==
  ASSUME NEW S, IsFiniteSet(S), NEW o \in SetToSeqs(S)
  PROVE  o \in Seq(S) /\ Once(o) /\ \A d \in S : \E k \in DOMAIN o : o[k] = d
  <1> DEFINE N == Cardinality(S)
             D == 1 .. N
  <1>1. N \in Nat /\ o \in [D -> S] /\ \A i, j \in D : i # j => o[i] # o[j]
    BY FS_CardinalityType DEF SetToSeqs
  <1>2. IsFiniteSet(D) /\ Cardinality(D) = N
    <2> HIDE DEF N
    <2>1. N - 1 + 1 = N /\ 1 \in Int /\ N \in Int
      BY <1>1
    <2> QED
      BY <1>1, <2>1, FS_Interval
  <1> HIDE DEF D
  <1>3. o \in Injection(D, S)
    BY <1>1 DEF Injection, IsInjective
  <1>4. o \in Surjection(D, S)
    BY <1>2, <1>3, FS_Injection
  <1>5. o \in Seq(S)
    BY <1>1 DEF D
  <1>6. \A d \in S : \E k \in D : o[k] = d
    BY <1>4 DEF Surjection
  <1> QED
    BY <1>1, <1>5, <1>6 DEF Once

(* epoll_wait reports everything there is to report, each once. *)
LEMMA PollKeeps == ASSUME NcInv, epoll_wait PROVE NcInv'
  <1> DEFINE R == ToReport
             o == ready'
  <1>1. /\ loop' = "events" /\ o \in SetToSeqs(R) /\ loop = "wait"
        /\ UNCHANGED <<timed, alarmAt, sigs, clock, user, unread, left, queue, timeout, stop_server, timer_lst, heard, missed, late>>
        /\ news' = {}
    BY DEF epoll_wait, envVars, histVars
  <1>2. /\ R \in SUBSET NcFds
        /\ PipeFd \in news /\ sigs # {} => PipeFd \in R
        /\ ListenFd \in R => queue # <<>>
        /\ \A c \in Users : c \in R => user[c] = "open"
    <2>1. R \in SUBSET NcFds
      BY DEF ToReport, NcInv, NcType
    <2>2. PipeFd \in news /\ sigs # {} => PipeFd \in R
      BY Names DEF ToReport, InputAt
    <2>3. ListenFd \in R => queue # <<>>
      <3>1. InputAt(ListenFd) => queue # <<>>
        BY Names, Zenon DEF InputAt
      <3> QED
        BY <3>1 DEF ToReport
    <2>4. ASSUME NEW c \in Users, c \in R PROVE user[c] = "open"
      BY <2>4, Names DEF ToReport, InputAt
    <2> QED
      BY <2>1, <2>2, <2>3, <2>4
  <1>3. IsFiniteSet(R)
    <2>1. IsFiniteSet({ListenFd, PipeFd})
      <3>1. IsFiniteSet({ListenFd}) /\ IsFiniteSet({PipeFd}) /\ {ListenFd, PipeFd} = {ListenFd} \cup {PipeFd}
        BY FS_Singleton
      <3> QED
        BY <3>1, FS_Union
    <2>2. IsFiniteSet(NcFds)
      BY <2>1, FS_Union, NonActiveAssumption DEF NcFds
    <2> QED
      BY <1>2, <2>2, FS_Subset
  <1> HIDE DEF R
  <1>4. o \in Seq(R) /\ Once(o) /\ \A d \in R : \E k \in DOMAIN o : o[k] = d
    BY <1>1, <1>3, Ordered
  <1>5. \A k \in DOMAIN o : o[k] \in R
    BY <1>4
  <1>6. o \in Seq(NcFds)
    BY <1>2, <1>4
  <1>7. NcType'
    BY <1>1, <1>6 DEF NcInv, NcType
  <1>8. StillSo'
    BY <1>1, <1>2, <1>5 DEF StillSo
  <1>9. Once(ready')
    BY <1>4
  <1>10. Reported'
    BY <1>1, <1>8, <1>9 DEF NcInv, Reported, Waiting, Once
  <1>11. NcSignals'
    <2>1. ready = <<>>
      BY <1>1 DEF NcInv, Reported
    <2>2. sigs # {} => PipeFd \in news
      BY <1>1, <2>1 DEF NcInv, NcSignals, Loops
    <2>3. sigs # {} => PipeFd \in {o[k] : k \in DOMAIN o}
      BY <1>2, <1>4, <2>2
    <2> QED
      BY <1>1, <2>3 DEF NcInv, NcSignals, Loops
  <1>12. Timing'
    BY <1>1, SameTimers DEF NcInv, Opened
  <1> QED
    BY <1>7, <1>10, <1>11, <1>12 DEF NcInv

LEMMA SignalsKeeps == ASSUME NcInv, HandleSignals PROVE NcInv'
  <1>1. /\ Event(PipeFd) /\ sigs' = {}
        /\ timeout' = (timeout \/ "ALRM" \in sigs) /\ stop_server' = (stop_server \/ "TERM" \in sigs)
        /\ UNCHANGED <<timed, alarmAt, news, clock, user, unread, left, queue, loop, timer_lst, heard, missed, late>>
    BY DEF HandleSignals, envVars, histVars
  <1>2. /\ loop = "events" /\ ready' \in Seq(NcFds) /\ Once(ready')
        /\ \A k \in DOMAIN ready' : \E j \in DOMAIN ready : ready'[k] = ready[j]
    BY <1>1, EventFacts
  <1>3. NcType'
    BY <1>1, <1>2 DEF NcInv, NcType
  <1>4. StillSo'
    BY <1>1, <1>2 DEF NcInv, Reported, StillSo
  <1>5. Reported'
    BY <1>1, <1>2, <1>4 DEF NcInv, Reported, Waiting, Once
  <1>6. NcSignals'
    BY <1>1, <1>2 DEF NcInv, NcSignals, Loops
  <1>7. Timing'
    BY <1>1, SameTimers DEF NcInv, Opened
  <1> QED
    BY <1>3, <1>5, <1>6, <1>7 DEF NcInv

LEMMA IgnoreKeeps == ASSUME NcInv, NEW c \in Users, IgnoreData(c) PROVE NcInv'
  <1>1. /\ Event(c) /\ c # PipeFd
        /\ UNCHANGED <<timed, alarmAt, sigs, news, clock, user, unread, left, queue, loop, timeout, stop_server, timer_lst, heard, missed, late>>
    BY Names DEF IgnoreData, envVars, histVars
  <1>2. /\ loop = "events" /\ ready' \in Seq(NcFds) /\ Once(ready')
        /\ \A k \in DOMAIN ready' : \E j \in DOMAIN ready : ready'[k] = ready[j]
    BY <1>1, EventFacts
  <1>3. NcType'
    BY <1>1, <1>2 DEF NcInv, NcType
  <1>4. StillSo'
    BY <1>1, <1>2 DEF NcInv, Reported, StillSo
  <1>5. Reported'
    BY <1>1, <1>2, <1>4 DEF NcInv, Reported, Waiting, Once
  <1>6. NcSignals'
    BY <1>1, OtherEvent
  <1>7. Timing'
    BY <1>1, SameTimers DEF NcInv, Opened
  <1> QED
    BY <1>3, <1>5, <1>6, <1>7 DEF NcInv

LEMMA AcceptFailsKeeps == ASSUME NcInv, AcceptUserFails PROVE NcInv'
  <1>1. /\ Event(ListenFd) /\ loop' \in {"events", "lost"}
        /\ UNCHANGED <<timed, alarmAt, sigs, news, clock, user, unread, left, queue, timeout, stop_server, timer_lst, heard, missed, late>>
    BY DEF AcceptUserFails, envVars, histVars, Event
  <1>2. /\ loop = "events" /\ ready' \in Seq(NcFds) /\ Once(ready') /\ ListenFd # PipeFd
        /\ \A k \in DOMAIN ready' : \E j \in DOMAIN ready : ready'[k] = ready[j]
    BY <1>1, EventFacts, Names
  <1>3. NcType'
    BY <1>1, <1>2 DEF NcInv, NcType
  <1>4. StillSo'
    BY <1>1, <1>2 DEF NcInv, Reported, StillSo
  <1>5. Reported'
    BY <1>1, <1>2, <1>4 DEF NcInv, Reported, Waiting, Once
  <1>6. NcSignals'
    <2>1. CASE loop' = "events"
      BY <1>1, <1>2, <2>1, OtherEvent
    <2>2. CASE loop' = "lost"
      BY <2>2 DEF NcSignals, Loops
    <2> QED
      BY <1>1, <2>1, <2>2
  <1>7. Timing'
    BY <1>1, SameTimers DEF NcInv, Opened
  <1> QED
    BY <1>3, <1>5, <1>6, <1>7 DEF NcInv

LEMMA LoopEndsKeeps == ASSUME NcInv, LoopEnds PROVE NcInv'
  <1>1. /\ loop' \in {"stopped", "wait"} /\ ready = <<>> /\ loop = "events"
        /\ UNCHANGED <<timed, alarmAt, sigs, news, clock, user, unread, left, queue, ready, timeout, stop_server, timer_lst, heard, missed, late>>
    BY DEF LoopEnds, envVars, histVars
  <1>2. NcType'
    BY <1>1 DEF NcInv, NcType
  <1>3. Reported'
    BY <1>1 DEF NcInv, Reported, Waiting, StillSo, Once
  <1>4. NcSignals'
    BY <1>1 DEF NcInv, NcSignals, Loops
  <1>5. Timing'
    BY <1>1, SameTimers DEF NcInv, Opened
  <1> QED
    BY <1>2, <1>3, <1>4, <1>5 DEF NcInv

-----------------------------------------------------------------------------
(* The steps that change the list. *)
LEMMA TimingFacts ==
  ASSUME NcInv, timed
  PROVE  /\ TimersRun /\ OnList = Opened /\ (\E r : Lst!Linked(timer_lst, OnList, r))
         /\ \A x \in Users \ OnList : timer_lst.next[x] = FreedTimer
         /\ clock \in Nat /\ alarmAt \in Nat /\ late \in Nat /\ heard \in [Users -> Nat] /\ TIMESLOT \in Nat /\ TIMESLOT # 0
         /\ user \in [Users -> {"idle", "queued", "open", "closed"}]
  BY NonActiveAssumption DEF NcInv, NcType, Timing, Hangs, OnList

LEMMA AcceptsKeeps == ASSUME NcInv, AcceptUser PROVE NcInv'
  <1> DEFINE c == Head(queue)
  <1>1. /\ Event(ListenFd) /\ user' = [user EXCEPT ![c] = "open"] /\ queue' = Tail(queue) /\ news' = news \cup {c}
        /\ UNCHANGED <<timed, clock, alarmAt, sigs, unread, left, loop, timeout, stop_server, missed, late>>
    BY DEF AcceptUser
  <1>2. /\ timed => timer_lst' = L!add_timer(L!New(timer_lst, c, Expire), c) /\ heard' = [heard EXCEPT ![c] = clock]
        /\ ~timed => heard' = heard
    BY DEF AcceptUser
  <1>3. /\ queue \in Seq(Users) /\ Once(queue) /\ Waiting /\ StillSo /\ user \in [Users -> {"idle", "queued", "open", "closed"}]
        /\ news \in SUBSET NcFds /\ heard \in [Users -> Nat] /\ clock \in Nat
    BY DEF NcInv, NcType, Reported
  <1>4. /\ loop = "events" /\ ready' \in Seq(NcFds) /\ Once(ready') /\ queue # <<>>
        /\ \A k \in DOMAIN ready' : ready'[k] # ListenFd /\ \E j \in DOMAIN ready : ready'[k] = ready[j]
    BY <1>1, EventFacts
  <1> DEFINE t == Tail(queue)
  <1>5. Rest(t, queue)
    BY DEF Rest
  <1> HIDE DEF t
  <1>6. /\ t \in Seq(Users) /\ Once(t) /\ 1 \in DOMAIN queue /\ c = queue[1] /\ queue[1] \in Users
        /\ \A k \in DOMAIN t : k + 1 \in DOMAIN queue /\ t[k] = queue[k + 1] /\ t[k] # queue[1]
    BY <1>3, <1>4, <1>5, Dropped
  <1> HIDE DEF c
  <1>7. c \in Users /\ user[c] = "queued" /\ queue' = t
    BY <1>1, <1>3, <1>6 DEF Waiting, t
  <1>8. NcType'
    <2>1. user' \in [Users -> {"idle", "queued", "open", "closed"}] /\ heard' \in [Users -> Nat] /\ news' \in SUBSET NcFds
      BY <1>1, <1>2, <1>3, <1>7, NcFacts
    <2> QED
      BY <1>1, <1>4, <1>6, <1>7, <2>1 DEF NcInv, NcType
  <1>9. Waiting'
    BY <1>1, <1>3, <1>6, <1>7 DEF Waiting
  <1>10. StillSo'
    BY <1>1, <1>3, <1>4, <1>7 DEF StillSo
  <1>11. Reported'
    <2>1. Once(queue')
      BY <1>6, <1>7
    <2> QED
      BY <1>1, <1>4, <1>9, <1>10, <2>1 DEF Reported, Once
  <1>12. NcSignals'
    BY <1>1, OtherEvent, Names
  <1>13. Opened' = Opened \cup {c} /\ c \notin Opened
    BY <1>1, <1>3, <1>7 DEF Opened
  <1>14. ASSUME timed PROVE TimersRun' /\ Hangs'
    <2> DEFINE l == timer_lst
               C == OnList
               e == Expire
               m == L!add_timer(L!New(l, c, e), c)
    <2>1. PICK r : Lst!Linked(l, C, r)
      BY <1>14, TimingFacts
    <2>2. c \in Users \ C /\ e \in Int /\ C = Opened
      BY <1>3, <1>7, <1>13, <1>14, TimingFacts DEF Expire
    <2>3. m = L!add_timer(L!New(l, c, e), c)
      OBVIOUS
    <2>4. timer_lst' = m
      BY <1>2, <1>14
    <2> HIDE DEF m, e, C
    <2>5. /\ \E q : Lst!Linked(m, C \cup {c}, q)
          /\ m.expire = [l.expire EXCEPT ![c] = e] /\ \A x \in Users \ (C \cup {c}) : m.next[x] = l.next[x]
      <3>1. c \in Users \ C
        BY <2>2
      <3>2. e \in Int
        BY <2>2
      <3>3. Lst!Grown(m, l, C, c, e)
        BY <2>1, <2>3, <3>1, <3>2, AddKeeps, Zenon
      <3> QED
        BY <3>3 DEF Lst!Grown
    <2>6. \A x \in Users \ (C \cup {c}) : m.next[x] = FreedTimer
      BY <1>14, <2>5, TimingFacts DEF C
    <2>7. Opened' = {x \in Users : m.next[x] # FreedTimer}
      BY <1>13, <2>2, <2>5, <2>6, StaysOn
    <2>8. Hangs'
      <3>1. \E r1 : Lst!Linked(timer_lst', Opened', r1)
        BY <1>13, <2>2, <2>4, <2>5
      <3>2. Opened' = {x \in Users : timer_lst'.next[x] # FreedTimer}
        BY <2>4, <2>7
      <3> QED
        BY <3>1, <3>2, HangsOn
    <2>9. l.expire \in [Users -> Int]
      BY <2>1, LinkedFacts
    <2>10. ASSUME NEW x \in Opened'
           PROVE  /\ m.expire[x] = heard'[x] + 3 * TIMESLOT /\ heard'[x] <= clock
                  /\ clock <= heard'[x] + 4 * TIMESLOT + late /\ alarmAt < heard'[x] + 4 * TIMESLOT
      <3>1. CASE x = c
        <4>1. m.expire[x] = clock + 3 * TIMESLOT /\ heard'[x] = clock
          BY <1>2, <1>3, <1>7, <1>14, <2>5, <2>9, <3>1 DEF e, Expire
        <4>2. alarmAt <= clock + TIMESLOT
          BY <1>14, TimingFacts DEF TimersRun
        <4> QED
          BY <1>14, <4>1, <4>2, TimingFacts
      <3>2. CASE x # c
        <4>1. x \in Opened /\ x \in Users /\ m.expire[x] = l.expire[x] /\ heard'[x] = heard[x]
          BY <1>2, <1>3, <1>7, <1>13, <1>14, <2>5, <2>9, <2>10, <3>2 DEF Opened
        <4> QED
          BY <1>14, <4>1, TimingFacts DEF TimersRun
      <3> QED
        BY <3>1, <3>2
    <2>11. TimersRun'
      BY <1>1, <1>14, <2>4, <2>10, TimingFacts DEF TimersRun
    <2> QED
      BY <2>8, <2>11
  <1> QED
    BY <1>1, <1>8, <1>11, <1>12, <1>14 DEF NcInv, Timing

LEMMA ReceiveKeeps == ASSUME NcInv, NEW c \in Users, Receive(c) PROVE NcInv'
  <1>1. /\ Event(c) /\ timed /\ unread[c] > 0 /\ unread' = [unread EXCEPT ![c] = @ - 1]
        /\ timer_lst' = L!adjust_timer([timer_lst EXCEPT !.expire[c] = Expire], c) /\ heard' = [heard EXCEPT ![c] = clock]
        /\ UNCHANGED <<timed, clock, alarmAt, sigs, user, left, queue, news, loop, timeout, stop_server, missed, late>>
        /\ c # PipeFd
    BY Names DEF Receive
  <1>2. /\ loop = "events" /\ ready' \in Seq(NcFds) /\ Once(ready') /\ user[c] = "open"
        /\ \A k \in DOMAIN ready' : \E j \in DOMAIN ready : ready'[k] = ready[j]
    BY <1>1, EventFacts
  <1>3. NcType'
    <2>1. unread \in [Users -> Nat] /\ heard \in [Users -> Nat] /\ clock \in Nat
      BY DEF NcInv, NcType
    <2>2. unread' \in [Users -> Nat] /\ heard' \in [Users -> Nat]
      BY <1>1, <2>1
    <2> QED
      BY <1>1, <1>2, <2>2 DEF NcInv, NcType
  <1>4. StillSo'
    BY <1>1, <1>2 DEF NcInv, Reported, StillSo
  <1>5. Reported'
    BY <1>1, <1>2, <1>4 DEF NcInv, Reported, Waiting, Once
  <1>6. NcSignals'
    BY <1>1, OtherEvent
  <1> DEFINE l == timer_lst
             C == OnList
             e == Expire
             m == L!adjust_timer([l EXCEPT !.expire[c] = e], c)
  <1>7. PICK r : Lst!Linked(l, C, r)
    BY <1>1, TimingFacts
  <1>8. c \in C /\ C = Opened /\ Opened' = Opened
    BY <1>1, <1>2, TimingFacts DEF Opened
  <1>9. e \in Int /\ l.expire[c] <= e
    <2>1. l.expire[c] = heard[c] + 3 * TIMESLOT /\ heard[c] <= clock /\ heard[c] \in Nat
      BY <1>1, <1>8, TimingFacts DEF TimersRun
    <2> QED
      BY <1>1, <2>1, TimingFacts DEF Expire
  <1>10. m = L!adjust_timer([l EXCEPT !.expire[c] = e], c) /\ timer_lst' = m
    BY <1>1
  <1>11. \A x \in Users \ C : l.next[x] = FreedTimer
    BY <1>1, TimingFacts
  <1> HIDE DEF m, e, C
  <1>12. /\ \E q : Lst!Linked(m, C, q)
         /\ m.expire = [l.expire EXCEPT ![c] = e] /\ \A x \in Users \ C : m.next[x] = FreedTimer
    BY <1>7, <1>8, <1>9, <1>10, <1>11, AdjustKeeps
  <1>13. Hangs'
    <2>1. C = {x \in Users : m.next[x] # FreedTimer}
      BY <1>12, StaysOn
    <2>2. \E r1 : Lst!Linked(timer_lst', Opened', r1)
      BY <1>8, <1>10, <1>12
    <2>3. Opened' = {x \in Users : timer_lst'.next[x] # FreedTimer}
      BY <1>8, <1>10, <2>1
    <2> QED
      BY <2>2, <2>3, HangsOn
  <1>14. l.expire \in [Users -> Int]
    BY <1>7, LinkedFacts
  <1>15. ASSUME NEW x \in Opened
         PROVE  /\ m.expire[x] = heard'[x] + 3 * TIMESLOT /\ heard'[x] <= clock
                /\ clock <= heard'[x] + 4 * TIMESLOT + late /\ alarmAt < heard'[x] + 4 * TIMESLOT
    <2>1. CASE x = c
      <3>1. m.expire[x] = clock + 3 * TIMESLOT /\ heard'[x] = clock
        BY <1>1, <1>12, <1>14, <2>1, TimingFacts DEF e, Expire
      <3>2. alarmAt <= clock + TIMESLOT
        BY <1>1, TimingFacts DEF TimersRun
      <3> QED
        BY <1>1, <3>1, <3>2, TimingFacts
    <2>2. CASE x # c
      <3>1. x \in Users /\ m.expire[x] = l.expire[x] /\ heard'[x] = heard[x]
        BY <1>1, <1>12, <1>14, <2>2, TimingFacts DEF Opened
      <3> QED
        BY <1>1, <3>1, TimingFacts DEF TimersRun
    <2> QED
      BY <2>1, <2>2
  <1>16. TimersRun'
    BY <1>1, <1>8, <1>10, <1>15, TimingFacts DEF TimersRun
  <1> QED
    BY <1>3, <1>5, <1>6, <1>13, <1>16 DEF NcInv, Timing

(* cb_func ends connections that were open. *)
LEMMA ClosesKeeps ==
  ASSUME NcInv, NEW S, S \subseteq Opened, cb_func(S), UNCHANGED <<clock, queue>>
  PROVE  /\ user' \in [Users -> {"idle", "queued", "open", "closed"}] /\ heard' \in [Users -> Nat]
         /\ unread' \in [Users -> Nat] /\ left' \in [Users -> BOOLEAN] /\ news' \in SUBSET NcFds
         /\ Opened' = Opened \ S /\ Waiting' /\ (PipeFd \in news => PipeFd \in news')
         /\ \A x \in Users \ S : user'[x] = user[x] /\ heard'[x] = heard[x]
  <1>1. /\ user \in [Users -> {"idle", "queued", "open", "closed"}] /\ heard \in [Users -> Nat]
        /\ unread \in [Users -> Nat] /\ left \in [Users -> BOOLEAN] /\ news \in SUBSET NcFds
    BY DEF NcInv, NcType
  <1>2. S \subseteq Users /\ PipeFd \notin S /\ \A x \in S : user[x] = "open"
    BY Names DEF Opened
  <1>3. /\ user' \in [Users -> {"idle", "queued", "open", "closed"}]
        /\ \A x \in Users : user'[x] = IF x \in S THEN "closed" ELSE user[x]
    BY <1>1 DEF cb_func
  <1>4. heard' \in [Users -> Nat] /\ \A x \in Users \ S : heard'[x] = heard[x]
    BY <1>1 DEF cb_func
  <1>5. unread' \in [Users -> Nat]
    BY <1>1 DEF cb_func
  <1>6. left' \in [Users -> BOOLEAN]
    BY DEF cb_func
  <1>7. news' \in SUBSET NcFds /\ (PipeFd \in news => PipeFd \in news')
    BY <1>1, <1>2 DEF cb_func
  <1>8. Opened' = Opened \ S
    BY <1>3 DEF Opened
  <1>9. \A k \in DOMAIN queue : queue[k] \in Users /\ user[queue[k]] = "queued" /\ queue[k] \notin S
    BY <1>2, NcFacts
  <1>10. Waiting'
    BY <1>3, <1>9 DEF Waiting
  <1> QED
    BY <1>3, <1>4, <1>5, <1>6, <1>7, <1>8, <1>10

(* What remains of the timers' promises when some connections end. *)
LEMMA FewerTimers ==
  ASSUME NcInv, timed, Opened' \subseteq Opened, missed' = {}, UNCHANGED <<clock, late>>,
         alarmAt' <= clock + TIMESLOT,
         \A x \in Opened' : /\ timer_lst'.expire[x] = timer_lst.expire[x] /\ heard'[x] = heard[x]
                          /\ alarmAt' < heard[x] + 4 * TIMESLOT
  PROVE  TimersRun'
  <1>1. \A x \in Opened' : /\ timer_lst.expire[x] = heard[x] + 3 * TIMESLOT /\ heard[x] <= clock
                         /\ clock <= heard[x] + 4 * TIMESLOT + late
    BY TimingFacts DEF TimersRun
  <1> QED
    BY <1>1 DEF TimersRun

LEMMA ReceiveEndKeeps == ASSUME NcInv, NEW c \in Users, ReceiveEnd(c) PROVE NcInv'
  <1>1. /\ Event(c) /\ timed /\ cb_func({c}) /\ timer_lst' = L!del_timer(timer_lst, c)
        /\ UNCHANGED <<timed, clock, alarmAt, sigs, queue, loop, timeout, stop_server, missed, late>>
        /\ c # PipeFd
    BY Names DEF ReceiveEnd
  <1>2. /\ loop = "events" /\ ready' \in Seq(NcFds) /\ Once(ready') /\ user[c] = "open"
        /\ \A k \in DOMAIN ready' : ready'[k] # c /\ \E j \in DOMAIN ready : ready'[k] = ready[j]
    BY <1>1, EventFacts
  <1>3. c \in Opened
    BY <1>2 DEF Opened
  <1>4. /\ user' \in [Users -> {"idle", "queued", "open", "closed"}] /\ heard' \in [Users -> Nat]
        /\ unread' \in [Users -> Nat] /\ left' \in [Users -> BOOLEAN] /\ news' \in SUBSET NcFds
        /\ Opened' = Opened \ {c} /\ Waiting' /\ (PipeFd \in news => PipeFd \in news')
        /\ \A x \in Users \ {c} : user'[x] = user[x] /\ heard'[x] = heard[x]
    <2> DEFINE S == {c}
    <2>1. S \subseteq Opened /\ cb_func(S) /\ UNCHANGED <<clock, queue>>
      BY <1>1, <1>3
    <2> HIDE DEF S
    <2>2. /\ user' \in [Users -> {"idle", "queued", "open", "closed"}] /\ heard' \in [Users -> Nat]
          /\ unread' \in [Users -> Nat] /\ left' \in [Users -> BOOLEAN] /\ news' \in SUBSET NcFds
          /\ Opened' = Opened \ S /\ Waiting' /\ (PipeFd \in news => PipeFd \in news')
          /\ \A x \in Users \ S : user'[x] = user[x] /\ heard'[x] = heard[x]
      BY <2>1, ClosesKeeps
    <2> QED
      BY <2>2 DEF S
  <1>5. NcType'
    BY <1>1, <1>2, <1>4 DEF NcInv, NcType
  <1>6. StillSo'
    BY <1>1, <1>2, <1>4 DEF NcInv, Reported, StillSo
  <1>7. Reported'
    BY <1>1, <1>2, <1>4, <1>6 DEF NcInv, Reported, Once
  <1>8. NcSignals'
    BY <1>1, <1>4, OtherEvent
  <1> DEFINE l == timer_lst
             C == OnList
             m == L!del_timer(l, c)
  <1>9. PICK r : Lst!Linked(l, C, r)
    BY <1>1, TimingFacts
  <1>10. c \in C /\ C = Opened /\ \A x \in Users \ C : l.next[x] = FreedTimer
    BY <1>1, <1>3, TimingFacts
  <1>11. m = L!del_timer(l, c) /\ timer_lst' = m
    BY <1>1
  <1> HIDE DEF m, C
  <1>12. /\ Lst!Linked(m, C \ {c}, r) /\ m.next[c] = FreedTimer
         /\ \A x \in C \ {c} : m.expire[x] = l.expire[x]
         /\ \A x \in Users \ C : m.next[x] = FreedTimer
    BY <1>9, <1>10, <1>11, DelKeeps
  <1>13. Hangs'
    <2> DEFINE D == C \ {c}
    <2>1. (\E q : Lst!Linked(m, D, q)) /\ \A x \in Users \ D : m.next[x] = FreedTimer
      BY <1>12
    <2> HIDE DEF D
    <2>2. D = {x \in Users : m.next[x] # FreedTimer}
      BY <2>1, StaysOn
    <2>3. Opened' = D
      BY <1>4, <1>10 DEF D
    <2>4. \E q : Lst!Linked(timer_lst', Opened', q)
      BY <1>11, <2>1, <2>3
    <2>5. Opened' = {x \in Users : timer_lst'.next[x] # FreedTimer}
      BY <1>11, <2>2, <2>3
    <2> QED
      BY <2>4, <2>5, HangsOn
  <1>14. TimersRun'
    <2>1. Opened' \subseteq Opened /\ missed' = {} /\ UNCHANGED <<clock, late>> /\ alarmAt' <= clock + TIMESLOT
      BY <1>1, <1>4, TimingFacts DEF TimersRun
    <2>2. \A x \in Opened' : /\ timer_lst'.expire[x] = timer_lst.expire[x] /\ heard'[x] = heard[x]
                           /\ alarmAt' < heard[x] + 4 * TIMESLOT
      <3> SUFFICES ASSUME NEW x \in Opened'
                   PROVE  /\ timer_lst'.expire[x] = timer_lst.expire[x] /\ heard'[x] = heard[x]
                          /\ alarmAt' < heard[x] + 4 * TIMESLOT
        OBVIOUS
      <3>1. x \in C \ {c} /\ x \in Users /\ x \in Opened
        BY <1>4, <1>10 DEF Opened
      <3> QED
        BY <1>1, <1>4, <1>11, <1>12, <3>1, TimingFacts DEF TimersRun
    <2> QED
      BY <1>1, <2>1, <2>2, FewerTimers
  <1> QED
    BY <1>1, <1>5, <1>7, <1>8, <1>13, <1>14 DEF NcInv, Timing

(* 10-1 sets no alarm. *)
NoAlarm == ~timed => alarmAt = 0 /\ ~timeout /\ "ALRM" \notin sigs

LEMMA HandlerKeeps == ASSUME NcInv, NoAlarm, timer_handler PROVE NcInv'
  <1>1. /\ loop = "events" /\ ready = <<>> /\ timeout /\ timer_lst' = L!tick(timer_lst, clock)
        /\ cb_func(L!Members(timer_lst) \ L!Members(timer_lst'))
        /\ missed' = {c \in Users : user'[c] = "open" /\ heard[c] + 3 * TIMESLOT <= clock}
        /\ alarmAt' = clock + TIMESLOT /\ timeout' = FALSE /\ loop' \in {"stopped", "wait"}
        /\ UNCHANGED <<timed, sigs, clock, queue, ready, stop_server, late>>
    BY DEF timer_handler, SetAlarm
  <1>2. timed
    BY <1>1 DEF NoAlarm, NcInv, NcType
  <1> DEFINE l == timer_lst
             C == OnList
             m == L!tick(l, clock)
             B == {x \in C : clock < l.expire[x]}
             S == C \ B
  <1>3. PICK r : Lst!Linked(l, C, r)
    BY <1>2, TimingFacts
  <1>4. C = Opened /\ clock \in Int /\ \A x \in Users \ C : l.next[x] = FreedTimer
    BY <1>2, TimingFacts
  <1>5. m = L!tick(l, clock) /\ timer_lst' = m /\ B = {x \in C : clock < l.expire[x]}
    BY <1>1
  <1> HIDE DEF m, C, B
  <1>6. /\ Lst!Linked(m, B, r) /\ \A x \in Users \ B : m.next[x] = FreedTimer
        /\ \A x \in B : m.expire[x] = l.expire[x]
        /\ L!Members(l) = C /\ L!Members(m) = B
    BY <1>3, <1>4, <1>5, TickKeeps
  <1>7. S \subseteq Opened /\ cb_func(S) /\ UNCHANGED <<clock, queue>>
    BY <1>1, <1>4, <1>5, <1>6
  <1>8. B \subseteq C
    BY <1>5
  <1> HIDE DEF S
  <1>9. /\ user' \in [Users -> {"idle", "queued", "open", "closed"}] /\ heard' \in [Users -> Nat]
        /\ unread' \in [Users -> Nat] /\ left' \in [Users -> BOOLEAN] /\ news' \in SUBSET NcFds
        /\ Opened' = Opened \ S /\ Waiting' /\ (PipeFd \in news => PipeFd \in news')
        /\ \A x \in Users \ S : user'[x] = user[x] /\ heard'[x] = heard[x]
    BY <1>7, ClosesKeeps
  <1>10. Opened' = B /\ \A x \in B : x \in Users /\ x \in Opened /\ x \notin S
    <2>1. Opened' = C \ (C \ B)
      BY <1>4, <1>9 DEF S
    <2>2. C \subseteq Users
      BY <1>4 DEF Opened
    <2> QED
      BY <1>4, <1>8, <2>1, <2>2 DEF S
  <1>11. NcType'
    <2>1. alarmAt' \in Nat
      BY <1>1, <1>2, TimingFacts
    <2>2. NcType
      BY DEF NcInv
    <2> QED
      BY <1>1, <1>9, <2>1, <2>2 DEF NcType
  <1>12. Reported'
    BY <1>1, <1>9 DEF NcInv, Reported, StillSo, Once
  <1>13. NcSignals'
    <2>1. sigs # {} => PipeFd \in news
      BY <1>1 DEF NcInv, NcSignals, Loops
    <2>2. alarmAt' # 0
      BY <1>1, <1>2, TimingFacts
    <2> QED
      BY <1>1, <1>9, <2>1, <2>2 DEF NcSignals, Loops
  <1>14. Hangs'
    <2>1. B = {x \in Users : m.next[x] # FreedTimer}
      BY <1>6, StaysOn
    <2>2. \E q : Lst!Linked(timer_lst', Opened', q)
      BY <1>5, <1>6, <1>10
    <2>3. Opened' = {x \in Users : timer_lst'.next[x] # FreedTimer}
      BY <1>5, <1>10, <2>1
    <2> QED
      BY <2>2, <2>3, HangsOn
  <1>15. ASSUME NEW x \in B
         PROVE  /\ m.expire[x] = l.expire[x] /\ heard'[x] = heard[x] /\ clock < heard[x] + 3 * TIMESLOT
                /\ clock + TIMESLOT < heard[x] + 4 * TIMESLOT
    <2>1. clock < l.expire[x] /\ m.expire[x] = l.expire[x] /\ heard'[x] = heard[x]
      BY <1>5, <1>6, <1>9, <1>10
    <2>2. l.expire[x] = heard[x] + 3 * TIMESLOT /\ heard[x] \in Nat
      BY <1>2, <1>10, TimingFacts DEF TimersRun
    <2> QED
      BY <1>2, <2>1, <2>2, TimingFacts
  <1>16. missed' = {}
    <2> SUFFICES ASSUME NEW x \in Users, user'[x] = "open", heard[x] + 3 * TIMESLOT <= clock PROVE FALSE
      BY <1>1
    <2>1. x \in B
      BY <1>10 DEF Opened
    <2>2. heard[x] \in Nat
      BY <1>2, TimingFacts
    <2> QED
      BY <1>2, <1>15, <2>1, <2>2, TimingFacts
  <1>17. TimersRun'
    <2>1. Opened' \subseteq Opened /\ UNCHANGED <<clock, late>> /\ alarmAt' <= clock + TIMESLOT
      BY <1>1, <1>2, <1>10, TimingFacts
    <2>2. \A x \in Opened' : /\ timer_lst'.expire[x] = timer_lst.expire[x] /\ heard'[x] = heard[x]
                           /\ alarmAt' < heard[x] + 4 * TIMESLOT
      BY <1>1, <1>5, <1>10, <1>15
    <2> QED
      BY <1>2, <1>16, <2>1, <2>2, FewerTimers
  <1> QED
    BY <1>1, <1>11, <1>12, <1>13, <1>14, <1>17 DEF NcInv, Timing

LEMMA NcStutters == ASSUME NcInv, UNCHANGED ncVars PROVE NcInv'
  <1>1. UNCHANGED <<timed, alarmAt, sigs, news, timer_lst, clock, user, unread, left, queue, loop, ready, timeout, stop_server, heard, missed, late>>
    BY DEF ncVars, envVars, mainVars, histVars
  <1>2. NcType' /\ NcSignals' /\ Timing'
    BY <1>1 DEF NcInv, NcType, NcSignals, Loops, Timing, TimersRun, Hangs, OnList, Opened
  <1> QED
    BY <1>1, <1>2, AroundKeeps

LEMMA NoAlarmKept == ASSUME NoAlarm, NcNext PROVE NoAlarm'
  <1>1. CASE UNCHANGED <<timed, alarmAt, sigs, timeout>>
    BY <1>1 DEF NoAlarm
  <1>2. CASE Signal
    <2>1. UNCHANGED <<timed, alarmAt, timeout>> /\ \E sig \in Handled : sigs' = sigs \cup {sig}
      BY <1>2 DEF Signal, sig_handler, mainVars
    <2>2. ~timed => "ALRM" \notin Handled
      BY DEF Handled
    <2> QED
      BY <2>1, <2>2 DEF NoAlarm
  <1>3. CASE AlarmRings
    BY <1>3 DEF AlarmRings, NoAlarm
  <1>4. CASE HandleSignals
    BY <1>4 DEF HandleSignals, NoAlarm
  <1>5. CASE timer_handler
    BY <1>5 DEF timer_handler, NoAlarm
  <1>6. CASE epoll_wait \/ AcceptUser \/ AcceptUserFails \/ LoopEnds \/ \E c \in Users : IgnoreData(c) \/ Receive(c) \/ ReceiveEnd(c)
    <2>1. UNCHANGED <<timed, alarmAt, sigs, timeout>>
      BY <1>6, Zenon DEF epoll_wait, AcceptUser, AcceptUserFails, LoopEnds, IgnoreData, Receive, ReceiveEnd
    <2> QED
      BY <1>1, <2>1
  <1>7. CASE TimePasses \/ NcOver \/ \E c \in Users : UserConnects(c) \/ UserSends(c) \/ UserLeaves(c)
    <2>1. UNCHANGED <<timed, alarmAt, sigs, timeout>>
      BY <1>7, Zenon DEF TimePasses, NcOver, UserConnects, UserSends, UserLeaves, mainVars, ncVars
    <2> QED
      BY <1>1, <2>1
  <1> QED
    BY <1>2, <1>3, <1>4, <1>5, <1>6, <1>7 DEF NcNext, NcMain

LEMMA NcNextKeeps == ASSUME NcInv, NoAlarm, NcNext PROVE NcInv'
  <1>1. CASE epoll_wait
    BY <1>1, PollKeeps
  <1>2. CASE AcceptUser \/ AcceptUserFails
    BY <1>2, AcceptsKeeps, AcceptFailsKeeps
  <1>3. CASE HandleSignals
    BY <1>3, SignalsKeeps
  <1>4. CASE timer_handler
    BY <1>4, HandlerKeeps
  <1>5. CASE LoopEnds
    BY <1>5, LoopEndsKeeps
  <1>6. CASE \E c \in Users : IgnoreData(c) \/ Receive(c) \/ ReceiveEnd(c)
    BY <1>6, IgnoreKeeps, ReceiveKeeps, ReceiveEndKeeps
  <1>7. CASE Signal
    BY <1>7, SignalKeeps
  <1>8. CASE AlarmRings
    BY <1>8, AlarmKeeps
  <1>9. CASE TimePasses
    BY <1>9, TimeKeeps
  <1>10. CASE \E c \in Users : UserConnects(c) \/ UserSends(c) \/ UserLeaves(c)
    BY <1>10, ConnectsKeeps, SendsKeeps
  <1>11. CASE NcOver
    BY <1>11, NcStutters DEF NcOver
  <1> QED
    BY <1>1, <1>2, <1>3, <1>4, <1>5, <1>6, <1>7, <1>8, <1>9, <1>10, <1>11 DEF NcNext, NcMain

(* Nothing a reader of the list follows leads to a freed timer. *)
LEMMA NcInvMeans == NcInv => NcSound
  <1> SUFFICES ASSUME NcInv, timed PROVE NcTimers
    BY DEF NcSound, NcTimers, NcInv
  <1>1. PICK r : Lst!Linked(timer_lst, OnList, r)
    BY TimingFacts
  <1>2. OnList = Opened /\ TimersRun /\ L!Members(timer_lst) = OnList
    BY <1>1, TimingFacts, AllMembers
  <1>3. OnList = Lst!HungOn(timer_lst)
    BY DEF OnList, Lst!HungOn
  <1>4. Lst!ListSound(timer_lst)
    BY <1>1, <1>3 DEF Lst!ListSound
  <1>5. L!ListLinked
    BY <1>4, Names, SameLinked, Lst!SoundLinked
  <1> QED
    BY <1>2, <1>5 DEF NcTimers, TimersRun, Opened

(* Exactly the open connections have timers, the list of the timers hangs   *)
(* together, no connection that is due survives a tick, and no signal is    *)
(* lost between its handler and the loop: for any number of users and any   *)
(* length of the slot.                                                      *)
THEOREM NonActiveKept == NcSpec => []NcSound
  <1>1. NcInit => NcInv /\ NoAlarm
    BY NcStarts DEF NcInit, NoAlarm
  <1>2. NcInv /\ NoAlarm /\ [NcNext]_ncVars => (NcInv /\ NoAlarm)'
    <2>1. CASE NcNext
      BY <2>1, NcNextKeeps, NoAlarmKept
    <2>2. CASE UNCHANGED ncVars
      BY <2>2, NcStutters DEF NoAlarm, ncVars, mainVars
    <2> QED
      BY <2>1, <2>2
  <1> QED
    BY <1>1, <1>2, NcInvMeans, PTL DEF NcSpec

-----------------------------------------------------------------------------
(* 8-3httpparser.cpp.  Searches: what the first place with a property is.  *)
LEMMA MinIs == ASSUME NEW S \in SUBSET Nat, NEW m \in S, \A y \in S : m <= y PROVE Min(S) = m
  <1> DEFINE x == CHOOSE x \in S : \A y \in S : x <= y
  <1>1. x \in S /\ \A y \in S : x <= y
    OBVIOUS
  <1> HIDE DEF x
  <1>2. x <= m /\ m <= x /\ x \in Nat /\ m \in Nat
    BY <1>1
  <1>3. x = m
    BY <1>2
  <1> QED
    BY <1>3 DEF Min, x

NoBlank(t, i) == \A j \in 1 .. i : t[j] # "blank"
AllBlank(t, i, k) == \A j \in i .. k : t[j] = "blank"
NoEnd(b, c, r) == \A j \in c + 1 .. r : b[j] \notin {"CR", "LF"}

LEMMA BlankAt ==
  ASSUME NEW t \in Seq(Symbols), NEW i \in 1 .. Len(t), t[i] = "blank", NoBlank(t, i - 1)
  PROVE  FirstBlank(t) = i
  <1> DEFINE S == {j \in 1 .. Len(t) : t[j] = "blank"}
  <1>1. S \in SUBSET Nat /\ i \in S /\ S # {}
    OBVIOUS
  <1>2. \A y \in S : i <= y
    BY DEF NoBlank
  <1>3. Min(S) = i
    BY <1>1, <1>2, MinIs
  <1> QED
    BY <1>1, <1>3 DEF FirstBlank, SelectInSeq
LEMMA BlankNowhere == ASSUME NEW t \in Seq(Symbols), NoBlank(t, Len(t)) PROVE FirstBlank(t) = 0
  <1>1. {j \in 1 .. Len(t) : t[j] = "blank"} = {}
    BY DEF NoBlank
  <1> QED
    BY <1>1 DEF FirstBlank, SelectInSeq
LEMMA BlankFirst ==
  ASSUME NEW t \in Seq(Symbols), ~NoBlank(t, Len(t))
  PROVE  \E i \in 1 .. Len(t) : t[i] = "blank" /\ NoBlank(t, i - 1)
  <1> DEFINE S == {j \in 1 .. Len(t) : t[j] = "blank"}
  <1>1. S \in SUBSET Nat /\ S # {}
    BY DEF NoBlank
  <1>2. PICK i \in S : \A y \in S : i <= y
    BY <1>1, Least
  <1>3. NoBlank(t, i - 1)
    BY <1>2 DEF NoBlank
  <1> QED
    BY <1>2, <1>3
LEMMA SkipTo ==
  ASSUME NEW t \in Seq(Symbols), NEW i \in 1 .. Len(t), t[i] # "blank", AllBlank(t, 1, i - 1)
  PROVE  SkipBlanks(t) = SubSeq(t, i, Len(t))
  <1> DEFINE S == {j \in 1 .. Len(t) : t[j] # "blank"}
  <1>1. S \in SUBSET Nat /\ i \in S /\ S # {}
    OBVIOUS
  <1>2. \A y \in S : i <= y
    BY DEF AllBlank
  <1>3. Min(S) = i
    BY <1>1, <1>2, MinIs
  <1>4. i # 0
    OBVIOUS
  <1> QED
    BY <1>1, <1>3, <1>4 DEF SkipBlanks, SelectInSeq
LEMMA SkipAll == ASSUME NEW t \in Seq(Symbols), AllBlank(t, 1, Len(t)) PROVE SkipBlanks(t) = <<>>
  <1>1. {j \in 1 .. Len(t) : t[j] # "blank"} = {}
    BY DEF AllBlank
  <1> QED
    BY <1>1 DEF SkipBlanks, SelectInSeq
LEMMA SkipFirst ==
  ASSUME NEW t \in Seq(Symbols), ~AllBlank(t, 1, Len(t))
  PROVE  \E i \in 1 .. Len(t) : t[i] # "blank" /\ AllBlank(t, 1, i - 1)
  <1> DEFINE S == {j \in 1 .. Len(t) : t[j] # "blank"}
  <1>1. S \in SUBSET Nat /\ S # {}
    BY DEF AllBlank
  <1>2. PICK i \in S : \A y \in S : i <= y
    BY <1>1, Least
  <1>3. AllBlank(t, 1, i - 1)
    BY <1>2 DEF AllBlank
  <1> QED
    BY <1>2, <1>3

LEMMA EndAt ==
  ASSUME NEW b, NEW c \in Nat, NEW r \in Nat, NEW e \in c + 1 .. r, b[e] \in {"CR", "LF"}, NoEnd(b, c, e - 1)
  PROVE  NextEnd(b, c, r) = e - 1
  <1> DEFINE S == {j \in c + 1 .. r : b[j] \in {"CR", "LF"}}
  <1>1. S \in SUBSET Nat /\ e \in S /\ S # {}
    OBVIOUS
  <1>2. \A y \in S : e <= y
    BY DEF NoEnd
  <1>3. Min(S) = e
    BY <1>1, <1>2, MinIs
  <1> QED
    BY <1>1, <1>3 DEF NextEnd, SelectInSubSeq
LEMMA EndNowhere == ASSUME NEW b, NEW c \in Nat, NEW r \in Nat, NoEnd(b, c, r) PROVE NextEnd(b, c, r) = -1
  <1>1. {j \in c + 1 .. r : b[j] \in {"CR", "LF"}} = {}
    BY DEF NoEnd
  <1> QED
    BY <1>1 DEF NextEnd, SelectInSubSeq
LEMMA EndFirst ==
  ASSUME NEW b, NEW c \in Nat, NEW r \in Nat, ~NoEnd(b, c, r)
  PROVE  \E e \in c + 1 .. r : b[e] \in {"CR", "LF"} /\ NoEnd(b, c, e - 1)
  <1> DEFINE S == {j \in c + 1 .. r : b[j] \in {"CR", "LF"}}
  <1>1. S \in SUBSET Nat /\ S # {}
    BY DEF NoEnd
  <1>2. PICK i \in S : \A y \in S : i <= y
    BY <1>1, Least
  <1>3. NoEnd(b, c, i - 1)
    BY <1>2 DEF NoEnd
  <1> QED
    BY <1>2, <1>3

(* parse_line, by the first end of a line it meets. *)
LEMMA LineOpen ==
  ASSUME NEW b, NEW c \in Nat, NEW r \in Nat, NoEnd(b, c, r)
  PROVE  parse_line(b, c, r) = [status |-> "OPEN", checked |-> r]
  <1>1. NextEnd(b, c, r) = -1
    BY EndNowhere
  <1> QED
    BY <1>1 DEF parse_line
LEMMA LineAtEnd ==
  ASSUME NEW b, NEW c \in Nat, NEW r \in Nat, NEW e \in c + 1 .. r, b[e] \in {"CR", "LF"}, NoEnd(b, c, e - 1)
  PROVE  /\ b[e] = "CR" /\ e = r => parse_line(b, c, r) = [status |-> "OPEN", checked |-> e - 1]
         /\ b[e] = "CR" /\ e < r /\ b[e + 1] = "LF" => parse_line(b, c, r) = [status |-> "OK", checked |-> e + 1]
         /\ b[e] = "CR" /\ e < r /\ b[e + 1] # "LF" => parse_line(b, c, r) = [status |-> "BAD", checked |-> e - 1]
         /\ b[e] = "LF" /\ e > 2 /\ b[e - 1] = "CR" => parse_line(b, c, r) = [status |-> "OK", checked |-> e]
         /\ b[e] = "LF" /\ ~(e > 2 /\ b[e - 1] = "CR") => parse_line(b, c, r) = [status |-> "BAD", checked |-> e - 1]
  <1>1. NextEnd(b, c, r) = e - 1
    BY EndAt
  <1>2. e \in Nat /\ ~(e - 1 < 0) /\ (e - 1) + 1 = e /\ (e - 1) + 2 = e + 1 /\ (e - 1 > 1 <=> e > 2)
    OBVIOUS
  <1>3. parse_line(b, c, r) =
          IF b[e] = "CR"
          THEN IF e = r THEN [status |-> "OPEN", checked |-> e - 1]
               ELSE IF b[e + 1] = "LF" THEN [status |-> "OK", checked |-> e + 1]
               ELSE [status |-> "BAD", checked |-> e - 1]
          ELSE IF e > 2 /\ b[e - 1] = "CR" THEN [status |-> "OK", checked |-> e]
          ELSE [status |-> "BAD", checked |-> e - 1]
    BY <1>1, <1>2 DEF parse_line
  <1> QED
    BY <1>2, <1>3

LEMMA SubIs ==
  ASSUME NEW t \in Seq(Symbols), NEW i \in Nat \ {0}, NEW k \in Nat, k <= Len(t), i <= k + 1
  PROVE  /\ SubSeq(t, i, k) \in Seq(Symbols) /\ Len(SubSeq(t, i, k)) = k - i + 1
         /\ \A j \in 1 .. k - i + 1 : SubSeq(t, i, k)[j] = t[i + j - 1]
  OBVIOUS
LEMMA SubOf ==
  ASSUME NEW t \in Seq(Symbols), NEW i \in Nat \ {0}, NEW k \in Nat, NEW l \in Nat, k <= Len(t), i <= k + 1, l = k - i + 1
  PROVE  /\ SubSeq(t, i, k) \in Seq(Symbols) /\ Len(SubSeq(t, i, k)) = l
         /\ \A j \in 1 .. l : SubSeq(t, i, k)[j] = t[i + j - 1]
  BY SubIs

(* What parse_requestline has cut out of t, if its address is at j to k.   *)
Cuts(t, j, k) ==
    /\ FirstBlank(t) = 2
    /\ LET rest == SubSeq(t, j, Len(t)) IN
       /\ SkipBlanks(SubSeq(t, 3, Len(t))) = rest
       /\ FirstBlank(rest) = k - j + 2
       /\ SubSeq(rest, 1, k - j + 1) = SubSeq(t, j, k)
       /\ SubSeq(rest, k - j + 3, Len(rest)) = SubSeq(t, k + 2, Len(t))

LEMMA CutsAt ==
  ASSUME NEW t \in Seq(Symbols), NEW j \in 3 .. Len(t), NEW k \in 3 .. Len(t) - 1, j <= k,
         t[1] # "blank", t[2] = "blank", AllBlank(t, 3, j - 1), \A x \in j .. k : t[x] # "blank", t[k + 1] = "blank"
  PROVE  Cuts(t, j, k)
  <1> DEFINE n == Len(t)
             s == SubSeq(t, 3, n)
             rest == SubSeq(t, j, n)
  <1>1. n \in Nat /\ j \in Nat /\ k \in Nat /\ 3 <= j /\ j <= k /\ k <= n - 1
    OBVIOUS
  <1>2. FirstBlank(t) = 2
    <2>1. NoBlank(t, 1)
      BY DEF NoBlank
    <2> QED
      BY <1>1, <2>1, BlankAt
  <1>3. s \in Seq(Symbols) /\ Len(s) = n - 2 /\ \A x \in 1 .. n - 2 : s[x] = t[x + 2]
    BY <1>1, SubIs
  <1>4. rest \in Seq(Symbols) /\ Len(rest) = n - j + 1 /\ \A x \in 1 .. n - j + 1 : rest[x] = t[j + x - 1]
    BY <1>1, SubIs
  <1> HIDE DEF s, n
  <1>5. SkipBlanks(s) = SubSeq(s, j - 2, Len(s))
    <2>1. j - 2 \in 1 .. Len(s) /\ s[j - 2] = t[j]
      BY <1>1, <1>3
    <2>2. t[j] # "blank"
      BY <1>1
    <2>3. AllBlank(s, 1, (j - 2) - 1)
      <3> SUFFICES ASSUME NEW x \in 1 .. (j - 2) - 1 PROVE s[x] = "blank"
        BY DEF AllBlank
      <3>1. x + 2 \in 3 .. j - 1 /\ x \in 1 .. n - 2
        BY <1>1
      <3>2. t[x + 2] = "blank"
        BY <3>1 DEF AllBlank
      <3> QED
        BY <1>3, <3>1, <3>2
    <2> QED
      BY <1>3, <2>1, <2>2, <2>3, SkipTo
  <1>6. SubSeq(s, j - 2, Len(s)) = rest
    <2> DEFINE u == SubSeq(s, j - 2, Len(s))
    <2>1. u \in Seq(Symbols) /\ Len(u) = (n - 2) - (j - 2) + 1
          /\ \A x \in 1 .. (n - 2) - (j - 2) + 1 : u[x] = s[(j - 2) + x - 1]
      BY <1>1, <1>3, SubIs
    <2> HIDE DEF u
    <2>2. Len(u) = n - j + 1
      BY <1>1, <2>1
    <2>3. \A x \in 1 .. n - j + 1 : u[x] = rest[x]
      <3> SUFFICES ASSUME NEW x \in 1 .. n - j + 1 PROVE u[x] = rest[x]
        OBVIOUS
      <3>1. u[x] = s[(j - 2) + x - 1]
        BY <1>1, <2>1
      <3>2. (j - 2) + x - 1 \in 1 .. n - 2 /\ ((j - 2) + x - 1) + 2 = j + x - 1
        BY <1>1
      <3>3. s[(j - 2) + x - 1] = t[j + x - 1]
        BY <1>3, <3>2
      <3> QED
        BY <1>4, <3>1, <3>3
    <2> HIDE DEF rest
    <2>4. u = rest
      BY <1>4, <2>1, <2>2, <2>3
    <2> QED
      BY <2>4 DEF u
  <1> HIDE DEF rest
  <1>7. FirstBlank(rest) = k - j + 2
    <2>1. k - j + 2 \in 1 .. Len(rest) /\ j + (k - j + 2) - 1 = k + 1
      BY <1>1, <1>4
    <2>2. rest[k - j + 2] = "blank"
      BY <1>4, <2>1
    <2>3. NoBlank(rest, (k - j + 2) - 1)
      <3> SUFFICES ASSUME NEW x \in 1 .. (k - j + 2) - 1 PROVE rest[x] # "blank"
        BY DEF NoBlank
      <3>1. x \in 1 .. n - j + 1 /\ j + x - 1 \in j .. k
        BY <1>1
      <3> QED
        BY <1>4, <3>1
    <2> QED
      BY <1>4, <2>1, <2>2, <2>3, BlankAt
  <1>8. SubSeq(rest, 1, k - j + 1) = SubSeq(t, j, k)
    <2> DEFINE u == SubSeq(rest, 1, k - j + 1)
               w == SubSeq(t, j, k)
    <2>1. u \in Seq(Symbols) /\ Len(u) = k - j + 1 /\ \A x \in 1 .. k - j + 1 : u[x] = rest[x]
      <3>1. 1 \in Nat \ {0} /\ k - j + 1 \in Nat /\ k - j + 1 <= Len(rest) /\ 1 <= (k - j + 1) + 1
        BY <1>1, <1>4
      <3>2. u \in Seq(Symbols) /\ Len(u) = (k - j + 1) - 1 + 1 /\ \A x \in 1 .. (k - j + 1) - 1 + 1 : u[x] = rest[1 + x - 1]
        BY <1>4, <3>1, SubIs
      <3> HIDE DEF u
      <3>3. (k - j + 1) - 1 + 1 = k - j + 1
        BY <1>1
      <3>4. \A x \in 1 .. k - j + 1 : 1 + x - 1 = x
        BY <1>1
      <3> QED
        BY <3>2, <3>3, <3>4
    <2>2. w \in Seq(Symbols) /\ Len(w) = k - j + 1 /\ \A x \in 1 .. k - j + 1 : w[x] = t[j + x - 1]
      <3>1. j \in Nat \ {0} /\ k \in Nat /\ k - j + 1 \in Nat /\ k <= Len(t) /\ j <= k + 1
        BY <1>1 DEF n
      <3> QED
        BY <3>1, SubOf
    <2> HIDE DEF u, w
    <2>3. \A x \in 1 .. k - j + 1 : x \in 1 .. n - j + 1
      BY <1>1
    <2>4. \A x \in 1 .. k - j + 1 : u[x] = w[x]
      BY <1>4, <2>1, <2>2, <2>3
    <2>5. u = w
      BY <2>1, <2>2, <2>4
    <2> QED
      BY <2>5 DEF u, w
  <1>9. SubSeq(rest, k - j + 3, Len(rest)) = SubSeq(t, k + 2, n)
    <2> DEFINE u == SubSeq(rest, k - j + 3, Len(rest))
               w == SubSeq(t, k + 2, n)
    <2>1. u \in Seq(Symbols) /\ Len(u) = n - k - 1 /\ \A x \in 1 .. n - k - 1 : u[x] = rest[(k - j + 3) + x - 1]
      <3> DEFINE i == k - j + 3
                 m == Len(rest)
                 l == n - k - 1
      <3>1. i \in Nat \ {0} /\ m \in Nat /\ m <= Len(rest) /\ i <= m + 1 /\ l = m - i + 1 /\ l \in Nat
        BY <1>1, <1>4
      <3>2. u = SubSeq(rest, i, m)
        OBVIOUS
      <3> HIDE DEF i, m, l, u
      <3>3. u \in Seq(Symbols) /\ Len(u) = l /\ \A x \in 1 .. l : u[x] = rest[i + x - 1]
        BY <1>4, <3>1, <3>2, SubOf
      <3> QED
        BY <3>3 DEF i, l
    <2>2. w \in Seq(Symbols) /\ Len(w) = n - k - 1 /\ \A x \in 1 .. n - k - 1 : w[x] = t[(k + 2) + x - 1]
      <3>1. k + 2 \in Nat \ {0} /\ n <= Len(t) /\ k + 2 <= n + 1 /\ n - k - 1 = n - (k + 2) + 1
            /\ n - k - 1 \in Nat /\ n \in Nat
        BY <1>1 DEF n
      <3> QED
        BY <3>1, SubOf
    <2> HIDE DEF u, w
    <2>3. ASSUME NEW x \in 1 .. n - k - 1 PROVE u[x] = w[x]
      <3>1. (k - j + 3) + x - 1 \in 1 .. n - j + 1 /\ j + ((k - j + 3) + x - 1) - 1 = (k + 2) + x - 1
        BY <1>1
      <3>2. rest[(k - j + 3) + x - 1] = t[(k + 2) + x - 1]
        BY <1>4, <3>1
      <3> QED
        BY <2>1, <2>2, <3>2
    <2>4. u = w
      BY <2>1, <2>2, <2>3
    <2> QED
      BY <2>4 DEF u, w
  <1> QED
    BY <1>2, <1>5, <1>6, <1>7, <1>8, <1>9 DEF Cuts, s, rest, n

LEMMA SubOne == ASSUME NEW t \in Seq(Symbols), NEW i \in 1 .. Len(t) PROVE SubSeq(t, i, i) = <<t[i]>>
  <1> DEFINE s == SubSeq(t, i, i)
  <1>1. i \in Nat \ {0} /\ i \in Nat /\ i <= Len(t) /\ i <= i + 1 /\ 1 = i - i + 1 /\ 1 \in Nat
    OBVIOUS
  <1>2. s \in Seq(Symbols) /\ Len(s) = 1 /\ \A j \in 1 .. 1 : s[j] = t[i + j - 1]
    BY <1>1, SubOf
  <1> HIDE DEF s
  <1>3. s[1] = t[i]
    <2>1. 1 \in 1 .. 1 /\ i + 1 - 1 = i
      BY <1>1
    <2> QED
      BY <1>2, <2>1
  <1>4. s = <<t[i]>>
    BY <1>2, <1>3
  <1> QED
    BY <1>4 DEF s

LEMMA ParsedAddress ==
  ASSUME NEW t \in Seq(Symbols), NEW j, NEW k, Cuts(t, j, k), j \in Nat, k \in Nat, 1 <= j, j <= k, k < Len(t),
         SubSeq(t, 1, 1) = <<t[1]>>
  PROVE  parse_requestline(t) <=> /\ t[1] = "GET" /\ SkipBlanks(SubSeq(t, k + 2, Len(t))) = <<"HTTP/1.1">>
                                  /\ t[j] = "/" \/ (t[j] = "http://" /\ HasSlash(SubSeq(t, j + 1, k)))
  <1> DEFINE rest == SubSeq(t, j, Len(t))
             url == SubSeq(t, j, k)
  <1>1. FirstBlank(t) = 2 /\ SkipBlanks(SubSeq(t, 3, Len(t))) = rest /\ FirstBlank(rest) = k - j + 2
        /\ SubSeq(rest, 1, k - j + 1) = url /\ SubSeq(rest, k - j + 3, Len(rest)) = SubSeq(t, k + 2, Len(t))
    BY DEF Cuts
  <1>2. Head(url) = t[j] /\ Tail(url) = SubSeq(t, j + 1, k)
    <2>1. url \in Seq(Symbols) /\ Len(url) = k - j + 1 /\ \A x \in 1 .. k - j + 1 : url[x] = t[j + x - 1]
      BY SubIs
    <2> DEFINE w == SubSeq(t, j + 1, k)
               v == Tail(url)
    <2>2. w \in Seq(Symbols) /\ Len(w) = k - j /\ \A x \in 1 .. k - j : w[x] = t[j + x]
      <3> DEFINE i == j + 1
                 l == k - j
      <3>1. i \in Nat \ {0} /\ l \in Nat /\ k <= Len(t) /\ i <= k + 1 /\ l = k - i + 1
        OBVIOUS
      <3>2. w = SubSeq(t, i, k) /\ \A x \in 1 .. l : i + x - 1 = j + x
        OBVIOUS
      <3> HIDE DEF i, l, w
      <3>3. w \in Seq(Symbols) /\ Len(w) = l /\ \A x \in 1 .. l : w[x] = t[i + x - 1]
        BY <3>1, <3>2, SubOf
      <3> QED
        BY <3>2, <3>3 DEF l
    <2> HIDE DEF url, w
    <2>3. v \in Seq(Symbols) /\ Len(v) = k - j /\ \A x \in 1 .. k - j : v[x] = url[x + 1]
      BY <2>1
    <2>4. \A x \in 1 .. k - j : url[x + 1] = t[j + x]
      <3>1. \A x \in 1 .. k - j : x + 1 \in 1 .. k - j + 1 /\ j + (x + 1) - 1 = j + x
        OBVIOUS
      <3> QED
        BY <2>1, <3>1
    <2> HIDE DEF v
    <2>5. v = w
      BY <2>2, <2>3, <2>4
    <2>6. Head(url) = url[1]
      BY <2>1
    <2>7. url[1] = t[j]
      <3>1. 1 \in 1 .. k - j + 1 /\ j + 1 - 1 = j
        OBVIOUS
      <3> QED
        BY <2>1, <3>1
    <2> QED
      BY <2>5, <2>6, <2>7 DEF v, w
  <1> HIDE DEF rest, url
  <1>3. 2 > 0 /\ 2 - 1 = 1 /\ 2 + 1 = 3 /\ k - j + 2 > 0 /\ (k - j + 2) - 1 = k - j + 1 /\ (k - j + 2) + 1 = k - j + 3
    OBVIOUS
  <1>4. parse_requestline(t) <=>
          /\ <<t[1]>> = <<"GET">> /\ SkipBlanks(SubSeq(t, k + 2, Len(t))) = <<"HTTP/1.1">>
          /\ IF Head(url) = "http://" THEN HasSlash(Tail(url)) ELSE Head(url) = "/"
    BY <1>1, <1>3 DEF parse_requestline
  <1> QED
    BY <1>2, <1>4

(* The version, with the blanks before it. *)
LEMMA VersionIs ==
  ASSUME NEW t \in Seq(Symbols), NEW a \in Nat \ {0}, a <= Len(t) + 1
  PROVE  SkipBlanks(SubSeq(t, a, Len(t))) = <<"HTTP/1.1">> <=> a <= Len(t) /\ t[Len(t)] = "HTTP/1.1" /\ AllBlank(t, a, Len(t) - 1)
  <1> DEFINE n == Len(t)
             s == SubSeq(t, a, n)
             l == n - a + 1
  <1>1. n \in Nat /\ l \in Nat /\ l = n - a + 1 /\ a \in Nat /\ a >= 1
    OBVIOUS
  <1>2. s \in Seq(Symbols) /\ Len(s) = l /\ \A x \in 1 .. l : s[x] = t[a + x - 1]
    BY SubIs
  <1> HIDE DEF n, s, l
  <1>3. ASSUME SkipBlanks(s) = <<"HTTP/1.1">> PROVE a <= n /\ t[n] = "HTTP/1.1" /\ AllBlank(t, a, n - 1)
    <2>1. ~AllBlank(s, 1, l)
      <3>1. <<"HTTP/1.1">> # <<>>
        OBVIOUS
      <3> QED
        BY <1>2, <1>3, <3>1, SkipAll
    <2>2. PICK i \in 1 .. l : s[i] # "blank" /\ AllBlank(s, 1, i - 1)
      BY <1>2, <2>1, SkipFirst
    <2>3. SubSeq(s, i, l) = <<"HTTP/1.1">>
      BY <1>2, <1>3, <2>2, SkipTo
    <2>4. i = l /\ s[l] = "HTTP/1.1"
      <3> DEFINE u == SubSeq(s, i, l)
      <3>1. Len(u) = l - i + 1 /\ \A x \in 1 .. l - i + 1 : u[x] = s[i + x - 1]
        BY <1>1, <1>2, SubIs
      <3>2. u = <<"HTTP/1.1">>
        BY <2>3
      <3> HIDE DEF u
      <3>3. Len(u) = 1 /\ u[1] = "HTTP/1.1"
        BY <3>2
      <3>4. i = l
        <4>1. l - i + 1 = 1
          BY <3>1, <3>3
        <4> QED
          BY <1>1, <4>1
      <3>5. u[1] = s[i + 1 - 1] /\ i + 1 - 1 = l
        BY <1>1, <3>1, <3>4
      <3> QED
        BY <3>3, <3>4, <3>5
    <2>5. l \in 1 .. l /\ a + l - 1 = n /\ a <= n
      BY <1>1, <2>4
    <2>6. AllBlank(t, a, n - 1)
      <3> SUFFICES ASSUME NEW x \in a .. n - 1 PROVE t[x] = "blank"
        BY DEF AllBlank
      <3> DEFINE y == x - a + 1
      <3>1. y \in 1 .. i - 1 /\ y \in 1 .. l /\ a + y - 1 = x
        BY <1>1, <2>4
      <3> HIDE DEF y
      <3>2. s[y] = "blank"
        BY <2>2, <3>1 DEF AllBlank
      <3> QED
        BY <1>2, <3>1, <3>2
    <2> QED
      BY <1>2, <2>4, <2>5, <2>6
  <1>4. ASSUME a <= n, t[n] = "HTTP/1.1", AllBlank(t, a, n - 1) PROVE SkipBlanks(s) = <<"HTTP/1.1">>
    <2>1. l \in 1 .. l /\ a + l - 1 = n
      BY <1>1, <1>4
    <2>2. s[l] = "HTTP/1.1"
      BY <1>2, <1>4, <2>1
    <2>3. AllBlank(s, 1, l - 1)
      <3> SUFFICES ASSUME NEW x \in 1 .. l - 1 PROVE s[x] = "blank"
        BY DEF AllBlank
      <3>1. a + x - 1 \in a .. n - 1 /\ x \in 1 .. l
        BY <1>1
      <3>2. t[a + x - 1] = "blank"
        BY <1>4, <3>1 DEF AllBlank
      <3> QED
        BY <1>2, <3>1, <3>2
    <2>4. SkipBlanks(s) = SubSeq(s, l, l)
      <3>1. s[l] # "blank"
        BY <2>2
      <3> QED
        BY <1>2, <2>1, <2>3, <3>1, SkipTo
    <2>5. SubSeq(s, l, l) = <<s[l]>>
      BY <1>2, <2>1, SubOne
    <2> QED
      BY <2>2, <2>4, <2>5
  <1> QED
    BY <1>3, <1>4 DEF n, s

BlanksAre(t, j, k) == \A x \in 2 .. Len(t) - 1 : (t[x] = "blank") <=> ~(j <= x /\ x <= k)

LEMMA RequestLineIs ==
  ASSUME NEW t
  PROVE  RequestLine(t) <=>
           \E j, k \in 3 .. Len(t) - 2 :
              /\ j <= k /\ t[1] = "GET" /\ t[Len(t)] = "HTTP/1.1" /\ BlanksAre(t, j, k)
              /\ t[j] = "/" \/ (t[j] = "http://" /\ HasSlash(SubSeq(t, j + 1, k)))
  <1>1. \A j, k \in 3 .. Len(t) - 2 :
          (\A x \in 2 .. Len(t) - 1 : (t[x] = "blank") = (x \notin j .. k)) <=> BlanksAre(t, j, k)
    <2> SUFFICES ASSUME NEW j \in 3 .. Len(t) - 2, NEW k \in 3 .. Len(t) - 2
                 PROVE  (\A x \in 2 .. Len(t) - 1 : (t[x] = "blank") = (x \notin j .. k)) <=> BlanksAre(t, j, k)
      OBVIOUS
    <2>1. \A x \in 2 .. Len(t) - 1 : x \notin j .. k <=> ~(j <= x /\ x <= k)
      OBVIOUS
    <2>2. \A x \in 2 .. Len(t) - 1 : ((t[x] = "blank") = (x \notin j .. k)) <=> ((t[x] = "blank") <=> ~(j <= x /\ x <= k))
      BY <2>1
    <2> QED
      BY <2>2 DEF BlanksAre
  <1> QED
    BY <1>1 DEF RequestLine

(* parse_requestline accepts exactly the lines that are GET, an address    *)
(* and HTTP/1.1, with blanks between them.                                 *)
LEMMA LineAgrees == ASSUME NEW t \in Seq(Symbols) PROVE parse_requestline(t) <=> RequestLine(t)
  <1> DEFINE n == Len(t)
             Addr(j, k) == t[j] = "/" \/ (t[j] = "http://" /\ HasSlash(SubSeq(t, j + 1, k)))
  <1>1. n \in Nat
    OBVIOUS
  <1>2. ASSUME RequestLine(t) PROVE parse_requestline(t)
    <2>1. PICK j \in 3 .. n - 2, k \in 3 .. n - 2 : j <= k /\ t[1] = "GET" /\ t[n] = "HTTP/1.1"
          /\ BlanksAre(t, j, k) /\ Addr(j, k)
      BY <1>2, RequestLineIs
    <2>2. 3 <= j /\ j <= k /\ k <= n - 2 /\ j \in Nat /\ k \in Nat /\ n \in Nat
      BY <1>1, <2>1
    <2>3. \A x \in 2 .. n - 1 : (t[x] = "blank") <=> ~(j <= x /\ x <= k)
      BY <2>1 DEF BlanksAre
    <2> HIDE DEF n, Addr
    <2>4. t[2] = "blank" /\ t[k + 1] = "blank" /\ t[1] # "blank"
      <3>1. 2 \in 2 .. n - 1 /\ ~(j <= 2) /\ k + 1 \in 2 .. n - 1 /\ ~(k + 1 <= k)
        BY <2>2
      <3>2. t[2] = "blank" /\ t[k + 1] = "blank"
        BY <2>3, <3>1
      <3> QED
        BY <2>1, <3>2
    <2>5. AllBlank(t, 3, j - 1) /\ AllBlank(t, k + 2, n - 1)
      <3>1. \A x \in 3 .. j - 1 : x \in 2 .. n - 1 /\ ~(j <= x)
        BY <2>2
      <3>2. \A x \in k + 2 .. n - 1 : x \in 2 .. n - 1 /\ ~(x <= k)
        BY <2>2
      <3> QED
        BY <2>3, <3>1, <3>2 DEF AllBlank
    <2>6. \A x \in j .. k : t[x] # "blank"
      <3>1. \A x \in j .. k : x \in 2 .. n - 1 /\ j <= x /\ x <= k
        BY <2>2
      <3> QED
        BY <2>3, <3>1
    <2>7. j \in 3 .. n /\ k \in 3 .. n - 1
      BY <2>2
    <2>8. Cuts(t, j, k)
      BY <2>1, <2>4, <2>5, <2>6, <2>7, CutsAt DEF n
    <2>9. k + 2 \in Nat \ {0} /\ k + 2 <= n + 1 /\ k + 2 <= n /\ 1 <= j /\ k < n /\ 1 \in 1 .. n
      BY <2>2
    <2>10. SkipBlanks(SubSeq(t, k + 2, n)) = <<"HTTP/1.1">>
      BY <2>1, <2>5, <2>9, VersionIs DEF n
    <2>11. SubSeq(t, 1, 1) = <<t[1]>>
      BY <2>9, SubOne DEF n
    <2>12. parse_requestline(t) <=> t[1] = "GET" /\ SkipBlanks(SubSeq(t, k + 2, n)) = <<"HTTP/1.1">> /\ Addr(j, k)
      BY <2>1, <2>2, <2>8, <2>9, <2>11, ParsedAddress DEF n, Addr
    <2> QED
      BY <2>1, <2>10, <2>12
  <1>3. ASSUME parse_requestline(t) PROVE RequestLine(t)
    <2> DEFINE u == FirstBlank(t)
               rest == SkipBlanks(SubSeq(t, u + 1, n))
    <2>1. u > 0 /\ SubSeq(t, 1, u - 1) = <<"GET">> /\ FirstBlank(rest) > 0
      BY <1>3 DEF parse_requestline
    <2>2. ~NoBlank(t, n)
      <3>1. NoBlank(t, n) => u = 0
        BY BlankNowhere
      <3> QED
        BY <2>1, <3>1
    <2>3. PICK a \in 1 .. n : t[a] = "blank" /\ NoBlank(t, a - 1)
      BY <2>2, BlankFirst
    <2>4. u = a
      BY <2>3, BlankAt
    <2>5. a = 2 /\ t[1] = "GET"
      <3> DEFINE g == SubSeq(t, 1, a - 1)
      <3>1. a - 1 \in Nat /\ a - 1 <= Len(t) /\ 1 \in Nat \ {0} /\ 1 <= (a - 1) + 1 /\ a - 1 = (a - 1) - 1 + 1
        OBVIOUS
      <3>2. Len(g) = a - 1 /\ \A x \in 1 .. a - 1 : g[x] = t[1 + x - 1]
        BY <3>1, SubOf
      <3>3. g = <<"GET">>
        BY <2>1, <2>4
      <3> HIDE DEF g
      <3>4. Len(g) = 1 /\ g[1] = "GET"
        BY <3>3
      <3>5. a - 1 = 1
        BY <3>2, <3>4
      <3>6. g[1] = t[1 + 1 - 1]
        BY <3>2, <3>5
      <3>7. 1 + 1 - 1 = 1 /\ a = 2
        BY <3>5
      <3> QED
        BY <3>4, <3>6, <3>7
    <2> DEFINE s == SubSeq(t, 3, n)
               l == n - 2
    <2>6. rest = SkipBlanks(s) /\ n >= 2
      BY <2>3, <2>4, <2>5
    <2>7. l \in Nat /\ s \in Seq(Symbols) /\ Len(s) = l /\ \A x \in 1 .. l : s[x] = t[x + 2]
      <3>1. l \in Nat /\ 3 \in Nat \ {0} /\ n \in Nat /\ n <= Len(t) /\ 3 <= n + 1 /\ l = n - 3 + 1
        BY <1>1, <2>6
      <3>2. s \in Seq(Symbols) /\ Len(s) = l /\ \A x \in 1 .. l : s[x] = t[3 + x - 1]
        BY <3>1, SubOf
      <3>3. \A x \in 1 .. l : 3 + x - 1 = x + 2
        BY <3>1
      <3> QED
        BY <3>1, <3>2, <3>3
    <2> HIDE DEF u, s, rest
    <2>8. ~AllBlank(s, 1, l)
      <3>1. AllBlank(s, 1, l) => rest = <<>>
        BY <2>6, <2>7, SkipAll
      <3>2. FirstBlank(<<>>) = 0
        <4>1. <<>> \in Seq(Symbols) /\ NoBlank(<<>>, Len(<<>>))
          BY DEF NoBlank
        <4> QED
          BY <4>1, BlankNowhere
      <3> QED
        BY <2>1, <3>1, <3>2
    <2>9. PICK i \in 1 .. l : s[i] # "blank" /\ AllBlank(s, 1, i - 1)
      BY <2>7, <2>8, SkipFirst
    <2> DEFINE j == i + 2
               m == n - j + 1
    <2>10. j \in 3 .. n /\ j \in Nat \ {0} /\ m \in Nat /\ m = n - j + 1 /\ i \in Nat /\ l = n - 2 /\ m >= 1
      BY <1>1, <2>7
    <2>11. t[j] # "blank" /\ AllBlank(t, 3, j - 1)
      <3>1. t[j] = s[i]
        BY <2>7
      <3>2. ASSUME NEW x \in 3 .. j - 1 PROVE t[x] = "blank"
        <4> DEFINE y == x - 2
        <4>1. y \in 1 .. i - 1 /\ y \in 1 .. l /\ y + 2 = x
          BY <2>10
        <4> HIDE DEF y
        <4>2. s[y] = "blank"
          BY <2>9, <4>1 DEF AllBlank
        <4> QED
          BY <2>7, <4>1, <4>2
      <3> QED
        BY <2>9, <3>1, <3>2 DEF AllBlank
    <2>12. rest = SubSeq(s, i, l)
      BY <2>6, <2>7, <2>9, SkipTo
    <2> HIDE DEF j, m, l
    <2>13. rest \in Seq(Symbols) /\ Len(rest) = m /\ \A x \in 1 .. m : rest[x] = t[j + x - 1]
      <3>1. i \in Nat \ {0} /\ l \in Nat /\ l <= Len(s) /\ i <= l + 1 /\ m = l - i + 1
        BY <2>7, <2>10 DEF j
      <3>2. rest \in Seq(Symbols) /\ Len(rest) = m /\ \A x \in 1 .. m : rest[x] = s[i + x - 1]
        <4> DEFINE w == SubSeq(s, i, l)
        <4>1. m \in Nat /\ i \in Nat \ {0} /\ l \in Nat /\ l <= Len(s) /\ i <= l + 1 /\ m = l - i + 1 /\ s \in Seq(Symbols)
          BY <2>7, <2>10, <3>1
        <4>2. w \in Seq(Symbols) /\ Len(w) = m /\ \A x \in 1 .. m : w[x] = s[i + x - 1]
          BY <4>1, SubOf
        <4>3. rest = w
          BY <2>12
        <4> HIDE DEF w
        <4> QED
          BY <4>2, <4>3
      <3>3. \A x \in 1 .. m : i + x - 1 \in 1 .. l /\ (i + x - 1) + 2 = j + x - 1
        BY <2>10, <3>1 DEF j
      <3>4. \A x \in 1 .. m : s[i + x - 1] = t[j + x - 1]
        BY <2>7, <3>3
      <3> QED
        BY <3>2, <3>4
    <2>14. ~NoBlank(rest, m)
      <3>1. NoBlank(rest, m) => FirstBlank(rest) = 0
        BY <2>13, BlankNowhere
      <3> QED
        BY <2>1, <3>1
    <2>15. PICK v \in 1 .. m : rest[v] = "blank" /\ NoBlank(rest, v - 1)
      BY <2>13, <2>14, BlankFirst
    <2> DEFINE k == j + v - 2
    <2>16. v >= 2
      <3>1. rest[1] = t[j]
        <4>1. 1 \in 1 .. m /\ j + 1 - 1 = j
          BY <2>10
        <4> QED
          BY <2>13, <4>1
      <3>2. v # 1
        BY <2>11, <2>15, <3>1
      <3> QED
        BY <2>10, <3>2
    <2>17. j <= k /\ k \in 3 .. n - 1 /\ j + v - 1 = k + 1 /\ k \in Nat /\ k + 2 <= n + 1
          /\ k + 2 \in Nat \ {0} /\ k < n /\ 1 <= j /\ n \in Nat
           /\ 1 \in 1 .. n
      BY <1>1, <2>10, <2>16
    <2> HIDE DEF n
    <2>18. t[k + 1] = "blank"
      BY <2>13, <2>15, <2>17
    <2>19. \A x \in j .. k : t[x] # "blank"
      <3> SUFFICES ASSUME NEW x \in j .. k PROVE t[x] # "blank"
        OBVIOUS
      <3> DEFINE y == x - j + 1
      <3>1. y \in 1 .. v - 1 /\ y \in 1 .. m /\ j + y - 1 = x
        BY <2>10, <2>17
      <3> HIDE DEF y
      <3>2. rest[y] # "blank"
        BY <2>15, <3>1 DEF NoBlank
      <3> QED
        BY <2>13, <3>1, <3>2
    <2> HIDE DEF k
    <2>20. t[2] = "blank" /\ t[1] # "blank"
      BY <2>3, <2>5
    <2>21. Cuts(t, j, k)
      BY <2>10, <2>11, <2>17, <2>18, <2>19, <2>20, CutsAt DEF n
    <2>22. SubSeq(t, 1, 1) = <<t[1]>>
      BY <2>17, SubOne DEF n
    <2>23. parse_requestline(t) <=> t[1] = "GET" /\ SkipBlanks(SubSeq(t, k + 2, n)) = <<"HTTP/1.1">> /\ Addr(j, k)
      BY <2>10, <2>17, <2>21, <2>22, ParsedAddress DEF n
    <2>24. k + 2 <= n /\ t[n] = "HTTP/1.1" /\ AllBlank(t, k + 2, n - 1)
      BY <1>3, <2>17, <2>23, VersionIs DEF n
    <2> HIDE DEF Addr
    <2>25. j \in 3 .. n - 2 /\ k \in 3 .. n - 2
      BY <2>10, <2>17, <2>24
    <2>26. BlanksAre(t, j, k)
      <3> SUFFICES ASSUME NEW x \in 2 .. n - 1 PROVE (t[x] = "blank") <=> ~(j <= x /\ x <= k)
        BY DEF BlanksAre, n
      <3>1. x = 2 \/ x \in 3 .. j - 1 \/ x \in j .. k \/ x = k + 1 \/ x \in k + 2 .. n - 1
        BY <2>25
      <3>2. x = 2 \/ x \in 3 .. j - 1 \/ x = k + 1 \/ x \in k + 2 .. n - 1 => t[x] = "blank"
        BY <2>11, <2>18, <2>20, <2>24 DEF AllBlank
      <3>3. x = 2 \/ x \in 3 .. j - 1 \/ x = k + 1 \/ x \in k + 2 .. n - 1 => ~(j <= x /\ x <= k)
        BY <2>25
      <3>4. x \in j .. k => j <= x /\ x <= k
        BY <2>25
      <3> QED
        BY <2>19, <3>1, <3>2, <3>3, <3>4
    <2>27. Addr(j, k)
      BY <1>3, <2>23
    <2> QED
      BY <2>5, <2>17, <2>24, <2>25, <2>26, <2>27, RequestLineIs DEF n, Addr
  <1> QED
    BY <1>2, <1>3

-----------------------------------------------------------------------------
(* parse_content is a recursive function of the place it stands at.  Turn  *)
(* is one turn of its loop, of which p is parse_line and more what the     *)
(* loop makes of the rest.                                                 *)
Places(r) == [checked : 0 .. r, start : 0 .. r, state : {"REQUESTLINE", "HEADER"}]
PastLine(p) == [checked |-> p.checked, start |-> p.checked, state |-> "HEADER"]
Halts(p, at, code, begins) == [code |-> code, checked |-> p.checked, start |-> begins, state |-> at.state]
Turn(b, p, at, more) ==
    CASE p.status = "OPEN" -> Halts(p, at, "NO_REQUEST", at.start)
      [] p.status = "BAD" -> Halts(p, at, "BAD_REQUEST", at.start)
      [] p.status = "OK" /\ at.state = "REQUESTLINE" ->
           IF parse_requestline(SubSeq(b, at.start + 1, p.checked - 2)) THEN more ELSE Halts(p, at, "BAD_REQUEST", p.checked)
      [] p.status = "OK" /\ at.state = "HEADER" ->
           IF parse_headers(SubSeq(b, at.start + 1, p.checked - 2)) = "GET_REQUEST" THEN Halts(p, at, "GET_REQUEST", p.checked) ELSE more
TurnAt(b, r, f, at) == Turn(b, parse_line(b, at.checked, r), at, f[PastLine(parse_line(b, at.checked, r))])
LinesFrom(b, r, f, m) == f = [at \in {a \in Places(r) : a.checked >= m} |-> TurnAt(b, r, f, at)]
IsLines(b, r, f) == f = [at \in Places(r) |-> TurnAt(b, r, f, at)]

LEMMA ContentIs == ASSUME NEW b, NEW r, NEW at PROVE parse_content(b, r, at) = (CHOOSE f : IsLines(b, r, f))[at]
  BY Zenon DEF parse_content, IsLines, TurnAt, Turn, Halts, PastLine, Places

(* A turn that goes on does so further on. *)
LEMMA LineMoves ==
  ASSUME NEW b, NEW c \in Nat, NEW r \in Nat
  PROVE  parse_line(b, c, r).status = "OK" => parse_line(b, c, r).checked \in c + 1 .. r
  <1> DEFINE p == parse_line(b, c, r)
  <1>1. CASE NoEnd(b, c, r)
    <2>1. p = [status |-> "OPEN", checked |-> r]
      BY <1>1, LineOpen
    <2> HIDE DEF p
    <2>2. p.status # "OK"
      BY <2>1
    <2> QED
      BY <2>2 DEF p
  <1>2. CASE ~NoEnd(b, c, r)
    <2>1. PICK e \in c + 1 .. r : b[e] \in {"CR", "LF"} /\ NoEnd(b, c, e - 1)
      BY <1>2, EndFirst
    <2>2. /\ b[e] = "CR" /\ e = r => p = [status |-> "OPEN", checked |-> e - 1]
          /\ b[e] = "CR" /\ e < r /\ b[e + 1] = "LF" => p = [status |-> "OK", checked |-> e + 1]
          /\ b[e] = "CR" /\ e < r /\ b[e + 1] # "LF" => p = [status |-> "BAD", checked |-> e - 1]
          /\ b[e] = "LF" /\ e > 2 /\ b[e - 1] = "CR" => p = [status |-> "OK", checked |-> e]
          /\ b[e] = "LF" /\ ~(e > 2 /\ b[e - 1] = "CR") => p = [status |-> "BAD", checked |-> e - 1]
      BY <2>1, LineAtEnd
    <2> HIDE DEF p
    <2>3. e = r \/ e < r
      BY <2>1
    <2>4. \/ p = [status |-> "OPEN", checked |-> e - 1] \/ p = [status |-> "BAD", checked |-> e - 1]
          \/ (p = [status |-> "OK", checked |-> e + 1] /\ e < r) \/ p = [status |-> "OK", checked |-> e]
      BY <2>1, <2>2, <2>3
    <2>5. p.status = "OK" => p.checked \in c + 1 .. r
      BY <2>1, <2>4
    <2> QED
      BY <2>5 DEF p
  <1> QED
    BY <1>1, <1>2

LEMMA BehindIsPlace ==
  ASSUME NEW r \in Nat, NEW at \in Places(r), NEW p, p.checked \in at.checked + 1 .. r
  PROVE  PastLine(p) \in Places(r) /\ PastLine(p).checked = p.checked /\ PastLine(p).checked >= at.checked + 1
  <1>1. at.checked \in Nat
    BY DEF Places
  <1>2. p.checked \in 0 .. r
    BY <1>1
  <1> QED
    BY <1>1, <1>2 DEF PastLine, Places

LEMMA TurnNeeds ==
  ASSUME NEW b, NEW r \in Nat, NEW f, NEW g, NEW at \in Places(r),
         \A a \in Places(r) : a.checked >= at.checked + 1 => f[a] = g[a]
  PROVE  TurnAt(b, r, f, at) = TurnAt(b, r, g, at)
  <1> DEFINE p == parse_line(b, at.checked, r)
  <1>1. at.checked \in Nat
    BY DEF Places
  <1>2. p.status = "OK" => p.checked \in at.checked + 1 .. r
    BY <1>1, LineMoves
  <1> HIDE DEF p
  <1>3. p.status = "OK" => f[PastLine(p)] = g[PastLine(p)]
    BY <1>2, BehindIsPlace
  <1>4. Turn(b, p, at, f[PastLine(p)]) = Turn(b, p, at, g[PastLine(p)])
    <2>1. CASE p.status = "OK"
      BY <1>3, <2>1
    <2>2. CASE p.status # "OK"
      BY <2>2 DEF Turn
    <2> QED
      BY <2>1, <2>2
  <1> QED
    BY <1>4 DEF TurnAt, p

LEMMA LinesExist == ASSUME NEW b, NEW r \in Nat PROVE \E f : IsLines(b, r, f)
  <1> DEFINE S == {d \in 0 .. r + 1 : ~\E f : LinesFrom(b, r, f, r + 1 - d)}
  <1> SUFFICES ASSUME S # {} PROVE FALSE
    <2>1. r + 1 \notin S
      OBVIOUS
    <2>2. PICK f : LinesFrom(b, r, f, 0)
      <3>1. r + 1 \in 0 .. r + 1 /\ r + 1 - (r + 1) = 0
        OBVIOUS
      <3> QED
        BY <2>1, <3>1
    <2>3. {a \in Places(r) : a.checked >= 0} = Places(r)
      <3>1. \A a \in Places(r) : a.checked >= 0
        BY DEF Places
      <3> QED
        BY <3>1, Zenon
    <2> QED
      BY <2>2, <2>3 DEF LinesFrom, IsLines
  <1>1. S \in SUBSET Nat
    OBVIOUS
  <1>2. PICK d \in S : \A y \in S : d <= y
    BY <1>1, Least
  <1>3. d \in 0 .. r + 1 /\ ~\E f : LinesFrom(b, r, f, r + 1 - d)
    BY <1>2
  <1>4. CASE d = 0
    <2>1. {a \in Places(r) : a.checked >= r + 1} = {}
      BY DEF Places
    <2> DEFINE f == [a \in {} |-> 0]
    <2>2. f = [a \in {} |-> TurnAt(b, r, f, a)]
      OBVIOUS
    <2> HIDE DEF f
    <2>3. LinesFrom(b, r, f, r + 1)
      BY <2>1, <2>2 DEF LinesFrom
    <2>4. r + 1 - d = r + 1
      BY <1>4
    <2> QED
      BY <1>3, <2>3, <2>4
  <1>5. CASE d # 0
    <2> DEFINE m == r + 1 - d
               Now == {a \in Places(r) : a.checked >= m}
               Later == {a \in Places(r) : a.checked >= m + 1}
    <2>1. d - 1 \in 0 .. r + 1 /\ r + 1 - (d - 1) = m + 1 /\ m \in Nat /\ d - 1 \notin S
      <3>1. d - 1 \in 0 .. r + 1 /\ r + 1 - (d - 1) = m + 1 /\ m \in Nat /\ ~(d <= d - 1)
        BY <1>3, <1>5
      <3> QED
        BY <1>2, <3>1
    <2>2. PICK f : LinesFrom(b, r, f, m + 1)
      BY <2>1
    <2> DEFINE g == [a \in Now |-> IF a.checked >= m + 1 THEN f[a] ELSE TurnAt(b, r, f, a)]
    <2>3. \A a \in Later : f[a] = TurnAt(b, r, f, a)
      BY <2>2 DEF LinesFrom
    <2> HIDE DEF m
    <2>4. \A a \in Later : a \in Now /\ g[a] = f[a]
      <3> SUFFICES ASSUME NEW a \in Later PROVE a \in Now /\ g[a] = f[a]
        OBVIOUS
      <3>1. a \in Now /\ a.checked >= m + 1
        BY <2>1 DEF Places
      <3> QED
        BY <3>1
    <2>5. \A a \in Now : a \notin Later => g[a] = TurnAt(b, r, f, a)
      OBVIOUS
    <2>6. g = [a \in Now |-> g[a]]
      OBVIOUS
    <2> HIDE DEF g
    <2>7. ASSUME NEW a \in Now PROVE g[a] = TurnAt(b, r, g, a)
      <3>1. a \in Places(r) /\ a.checked \in Nat /\ a.checked >= m
        BY DEF Places
      <3>2. ASSUME NEW x \in Places(r), x.checked >= a.checked + 1 PROVE f[x] = g[x]
        <4>1. x.checked \in Nat /\ x.checked >= m + 1
          BY <2>1, <3>1, <3>2 DEF Places
        <4> QED
          BY <2>4, <4>1
      <3>3. TurnAt(b, r, f, a) = TurnAt(b, r, g, a)
        BY <3>1, <3>2, TurnNeeds
      <3> QED
        BY <2>3, <2>4, <2>5, <3>3
    <2>8. g = [a \in Now |-> TurnAt(b, r, g, a)]
      BY <2>6, <2>7
    <2>9. LinesFrom(b, r, g, m)
      BY <2>8 DEF LinesFrom
    <2> QED
      BY <1>3, <2>9 DEF m
  <1> QED
    BY <1>4, <1>5

(* So the loop is its next turn and what it makes of the rest. *)
LEMMA ContentStep ==
  ASSUME NEW b, NEW r \in Nat, NEW at \in Places(r), NEW p, p = parse_line(b, at.checked, r)
  PROVE  parse_content(b, r, at) = Turn(b, p, at, parse_content(b, r, PastLine(p)))
  <1> DEFINE F == CHOOSE f : IsLines(b, r, f)
  <1>1. IsLines(b, r, F)
    BY LinesExist
  <1>2. \A a : parse_content(b, r, a) = F[a]
    BY ContentIs
  <1> HIDE DEF F
  <1>3. F[at] = TurnAt(b, r, F, at)
    BY <1>1 DEF IsLines
  <1> QED
    BY <1>2, <1>3 DEF TurnAt

-----------------------------------------------------------------------------
(* The verdict on the first r symbols of w, by the places in w.            *)
StrayIn(w, r, i) == \/ w[i] = "CR" /\ i < r /\ w[i + 1] # "LF"
                    \/ w[i] = "LF" /\ (i = 1 \/ w[i - 1] # "CR")
EndIn(w, r, i) == i \in 2 .. r /\ w[i] = "LF" /\ \A j \in 1 .. i : ~StrayIn(w, r, j)
NoneFound(w, r) == IF \E j \in 1 .. r : StrayIn(w, r, j) THEN "BAD_REQUEST" ELSE "NO_REQUEST"

LEMMA StrayAgrees ==
  ASSUME NEW w \in Seq(Symbols), NEW r \in 1 .. Len(w), NEW b, b = SubSeq(w, 1, r)
  PROVE  /\ b \in Seq(Symbols) /\ Len(b) = r /\ \A i \in 1 .. r : b[i] = w[i]
         /\ \A i \in 1 .. r : Stray(b, i) <=> StrayIn(w, r, i)
         /\ \A i : i \in LineEnds(b) <=> EndIn(w, r, i)
         /\ Sound(b) # 0 .. Len(b) <=> \E j \in 1 .. r : StrayIn(w, r, j)
  <1>1. b \in Seq(Symbols) /\ Len(b) = r /\ \A i \in 1 .. r : b[i] = w[i]
    <2>1. r \in Nat /\ r <= Len(w) /\ 1 \in Nat \ {0} /\ 1 <= r + 1 /\ r = r - 1 + 1
      OBVIOUS
    <2>2. b \in Seq(Symbols) /\ Len(b) = r /\ \A i \in 1 .. r : b[i] = w[1 + i - 1]
      BY <2>1, SubOf
    <2>3. \A i \in 1 .. r : 1 + i - 1 = i
      OBVIOUS
    <2> QED
      BY <2>2, <2>3
  <1>2. ASSUME NEW i \in 1 .. r PROVE Stray(b, i) <=> StrayIn(w, r, i)
    <2>1. b[i] = w[i] /\ (i < r => b[i + 1] = w[i + 1]) /\ (i # 1 => b[i - 1] = w[i - 1])
      <3>1. i < r => i + 1 \in 1 .. r
        OBVIOUS
      <3>2. i # 1 => i - 1 \in 1 .. r
        OBVIOUS
      <3> QED
        BY <1>1, <3>1, <3>2
    <2> QED
      BY <1>1, <2>1 DEF Stray, StrayIn
  <1>3. r \in Nat
    OBVIOUS
  <1>4. \A i : i \in Sound(b) <=> i \in 0 .. r /\ \A j \in 1 .. i : ~StrayIn(w, r, j)
    <2>1. ASSUME NEW i \in 0 .. r PROVE (\A j \in 1 .. i : ~Stray(b, j)) <=> \A j \in 1 .. i : ~StrayIn(w, r, j)
      <3>1. \A j \in 1 .. i : j \in 1 .. r
        OBVIOUS
      <3> QED
        BY <1>2, <3>1
    <2> QED
      BY <1>1, <2>1 DEF Sound
  <1>5. \A i : i \in LineEnds(b) <=> EndIn(w, r, i)
    <2>1. \A i : i \in LineEnds(b) <=> i \in Sound(b) /\ i > 1 /\ b[i] = "LF"
      BY DEF LineEnds
    <2>2. \A i \in 0 .. r : i > 1 => i \in 2 .. r /\ b[i] = w[i]
      BY <1>1
    <2>3. \A i \in 2 .. r : i \in 0 .. r /\ i > 1
      OBVIOUS
    <2> QED
      BY <1>4, <2>1, <2>2, <2>3 DEF EndIn
  <1>6. Sound(b) # 0 .. Len(b) <=> \E j \in 1 .. r : StrayIn(w, r, j)
    <2>1. ASSUME \E j \in 1 .. r : StrayIn(w, r, j) PROVE Sound(b) # 0 .. r
      <3>1. r \in 0 .. r
        OBVIOUS
      <3> QED
        BY <1>4, <2>1, <3>1
    <2>2. ASSUME ~\E j \in 1 .. r : StrayIn(w, r, j) PROVE Sound(b) = 0 .. r
      <3>1. \A i \in 0 .. r : \A j \in 1 .. i : j \in 1 .. r
        OBVIOUS
      <3>2. \A i : i \in Sound(b) <=> i \in 0 .. r
        BY <1>4, <2>2, <3>1
      <3> QED
        BY <3>2
    <2> QED
      BY <1>1, <2>1, <2>2
  <1> QED
    BY <1>1, <1>2, <1>5, <1>6

LEMMA FirstIs ==
  ASSUME NEW b \in Seq(Symbols), NEW D \in SUBSET (1 .. Len(b)), NEW f
  PROVE  LET first == SelectInSeq([i \in DOMAIN b |-> i \in D], LAMBDA x : x) IN
         /\ D = {} => first = 0
         /\ f \in D /\ (\A y \in D : f <= y) => first = f
  <1> DEFINE q == [i \in DOMAIN b |-> i \in D]
             n == Len(b)
             I == {i \in 1 .. n : q[i]}
             first == SelectInSeq(q, LAMBDA x : x)
  <1>1. n \in Nat /\ DOMAIN b = 1 .. n
    OBVIOUS
  <1>2. Len(q) = n
    <2>1. q \in [1 .. n -> BOOLEAN]
      BY <1>1
    <2>2. q \in Seq(BOOLEAN)
      BY <1>1, <2>1
    <2> HIDE DEF q
    <2> QED
      BY <1>1, <2>1, <2>2
  <1>3. first = IF I # {} THEN Min(I) ELSE 0
    BY <1>2 DEF SelectInSeq
  <1>4. I = D
    <2>1. \A i \in 1 .. n : q[i] = (i \in D)
      BY <1>1, Zenon
    <2> HIDE DEF q
    <2>2. \A i : i \in I <=> i \in D
      BY <1>1, <2>1
    <2> QED
      BY <2>2
  <1> HIDE DEF I, first, n
  <1>5. D \in SUBSET Nat
    OBVIOUS
  <1>6. D = {} => first = 0
    BY <1>3, <1>4
  <1>7. ASSUME f \in D, \A y \in D : f <= y PROVE first = f
    <2>1. Min(D) = f
      BY <1>5, <1>7, MinIs
    <2> QED
      BY <1>3, <1>4, <1>7, <2>1
  <1> QED
    BY <1>6, <1>7 DEF first

LEMMA VerdictNone ==
  ASSUME NEW w \in Seq(Symbols), NEW r \in 1 .. Len(w), \A i : ~EndIn(w, r, i)
  PROVE  Verdict(SubSeq(w, 1, r)) = NoneFound(w, r)
  <1> DEFINE b == SubSeq(w, 1, r)
             D == LineEnds(b)
             first == SelectInSeq([i \in DOMAIN b |-> i \in D], LAMBDA x : x)
  <1>1. b \in Seq(Symbols) /\ Len(b) = r /\ (\A i : i \in D <=> EndIn(w, r, i)) /\ (Sound(b) # 0 .. Len(b) <=> \E j \in 1 .. r : StrayIn(w, r, j))
    BY StrayAgrees
  <1>2. D = {}
    BY <1>1
  <1>3. first = 0
    BY <1>1, <1>2, FirstIs
  <1>4. Verdict(b) = IF first > 0 /\ ~RequestLine(SubSeq(b, 1, first - 2)) THEN "BAD_REQUEST"
                     ELSE IF \E i \in D : i > first /\ i - 2 \in D THEN "GET_REQUEST"
                     ELSE IF Sound(b) # 0 .. Len(b) THEN "BAD_REQUEST" ELSE "NO_REQUEST"
    BY Zenon DEF Verdict
  <1> HIDE DEF first, D, b
  <1>5. Verdict(b) = NoneFound(w, r)
    BY <1>1, <1>2, <1>3, <1>4 DEF NoneFound
  <1> QED
    BY <1>5 DEF b

LEMMA VerdictSome ==
  ASSUME NEW w \in Seq(Symbols), NEW r \in 1 .. Len(w), NEW f, EndIn(w, r, f), \A i \in 2 .. f - 1 : w[i] # "LF"
  PROVE  Verdict(SubSeq(w, 1, r)) =
           IF ~RequestLine(SubSeq(w, 1, f - 2)) THEN "BAD_REQUEST"
           ELSE IF \E i \in f + 1 .. r : EndIn(w, r, i) /\ EndIn(w, r, i - 2) THEN "GET_REQUEST" ELSE NoneFound(w, r)
  <1> DEFINE b == SubSeq(w, 1, r)
             D == LineEnds(b)
             first == SelectInSeq([i \in DOMAIN b |-> i \in D], LAMBDA x : x)
  <1>1. b \in Seq(Symbols) /\ Len(b) = r /\ (\A i : i \in D <=> EndIn(w, r, i)) /\ (Sound(b) # 0 .. Len(b) <=> \E j \in 1 .. r : StrayIn(w, r, j))
        /\ \A i \in 1 .. r : b[i] = w[i]
    BY StrayAgrees
  <1>2. f \in 2 .. r /\ f \in D
    BY <1>1 DEF EndIn
  <1>3. D \in SUBSET (1 .. Len(b)) /\ \A y \in D : f <= y
    <2>1. \A y \in D : y \in 2 .. r /\ w[y] = "LF"
      BY <1>1 DEF EndIn
    <2>2. \A y \in 2 .. r : y < f => y \in 2 .. f - 1
      BY <1>2
    <2>3. \A y \in 2 .. r : y \in 1 .. r
      OBVIOUS
    <2>4. \A y \in D : ~(y < f)
      BY <2>1, <2>2
    <2>5. \A y \in 2 .. r : ~(y < f) => f <= y
      BY <1>2
    <2> QED
      BY <1>1, <2>1, <2>3, <2>4, <2>5
  <1>4. first = f
    BY <1>1, <1>2, <1>3, FirstIs
  <1>5. Verdict(b) = IF first > 0 /\ ~RequestLine(SubSeq(b, 1, first - 2)) THEN "BAD_REQUEST"
                     ELSE IF \E i \in D : i > first /\ i - 2 \in D THEN "GET_REQUEST"
                     ELSE IF Sound(b) # 0 .. Len(b) THEN "BAD_REQUEST" ELSE "NO_REQUEST"
    BY Zenon DEF Verdict
  <1>6. SubSeq(b, 1, f - 2) = SubSeq(w, 1, f - 2)
    <2> DEFINE x == SubSeq(b, 1, f - 2)
               y == SubSeq(w, 1, f - 2)
               l == f - 2
    <2>1. l \in Nat /\ l <= Len(b) /\ l <= Len(w) /\ 1 \in Nat \ {0} /\ 1 <= l + 1 /\ l = l - 1 + 1
      BY <1>1, <1>2
    <2> HIDE DEF b
    <2>2. x \in Seq(Symbols) /\ Len(x) = l /\ \A i \in 1 .. l : x[i] = b[1 + i - 1]
      BY <1>1, <2>1, SubOf
    <2>3. y \in Seq(Symbols) /\ Len(y) = l /\ \A i \in 1 .. l : y[i] = w[1 + i - 1]
      BY <2>1, SubOf
    <2>4. \A i \in 1 .. l : 1 + i - 1 \in 1 .. r
      BY <1>1, <2>1
    <2> HIDE DEF x, y, l
    <2>5. \A i \in 1 .. l : x[i] = y[i]
      BY <1>1, <2>2, <2>3, <2>4
    <2>6. x = y
      BY <2>2, <2>3, <2>5
    <2> QED
      BY <2>6 DEF x, y
  <1> HIDE DEF first, D, b
  <1>7. (\E i \in D : i > f /\ i - 2 \in D) <=> \E i \in f + 1 .. r : EndIn(w, r, i) /\ EndIn(w, r, i - 2)
    <2>1. \A i \in D : i \in 2 .. r
      BY <1>1 DEF EndIn
    <2>2. \A i \in 2 .. r : i > f <=> i \in f + 1 .. r
      BY <1>2
    <2>3. \A i \in f + 1 .. r : i \in 2 .. r
      BY <1>2
    <2> QED
      BY <1>1, <2>1, <2>2, <2>3
  <1>8. Verdict(b) = IF ~RequestLine(SubSeq(w, 1, f - 2)) THEN "BAD_REQUEST"
           ELSE IF \E i \in f + 1 .. r : EndIn(w, r, i) /\ EndIn(w, r, i - 2) THEN "GET_REQUEST" ELSE NoneFound(w, r)
    <2>1. f > 0
      BY <1>2
    <2> QED
      BY <1>1, <1>4, <1>5, <1>6, <1>7, <2>1 DEF NoneFound
  <1> QED
    BY <1>8 DEF b

-----------------------------------------------------------------------------
(* Where the parser may stand in w: the lines before start are whole, the  *)
(* first of them was accepted and none is empty, and no line ends between  *)
(* start and what is checked.  None of this depends on how much of w has   *)
(* arrived.                                                                *)
Broken(w, j) == \/ w[j] = "CR" /\ w[j + 1] # "LF"
                \/ w[j] = "LF" /\ (j = 1 \/ w[j - 1] # "CR")
FirstLine(w, f) == w[f] = "LF" /\ (\A i \in 1 .. f - 1 : w[i] # "LF") /\ RequestLine(SubSeq(w, 1, f - 2))
Stood(w, at) ==
    /\ at.start <= at.checked
    /\ NoEnd(w, at.start, at.checked)
    /\ \A j \in 1 .. at.start : ~Broken(w, j)
    /\ at.start # 0 => at.start >= 2 /\ w[at.start] = "LF"
    /\ at.state = "REQUESTLINE" => at.start = 0
    /\ at.state = "HEADER" => /\ at.start # 0 /\ \E f \in 2 .. at.start : FirstLine(w, f)
                              /\ \A i \in 3 .. at.start : ~(w[i] = "LF" /\ w[i - 2] = "LF")
(* The parser is right about the first r symbols of w if it says what they *)
(* are as a whole and, should it need more, stands where it may stand.     *)
Right(w, r, res) ==
    /\ res.code = Verdict(SubSeq(w, 1, r))
    /\ res.code = "NO_REQUEST" =>
         LET at == [checked |-> res.checked, start |-> res.start, state |-> res.state] IN at \in Places(r) /\ Stood(w, at)

LEMMA StrayBroken == ASSUME NEW w, NEW r, NEW j, ~Broken(w, j) PROVE ~StrayIn(w, r, j)
  BY DEF Broken, StrayIn

(* As long as every line behind start is broken somewhere, the verdict is  *)
(* that of what is broken. *)
LEMMA VerdictAt ==
  ASSUME NEW w \in Seq(Symbols), NEW r \in 1 .. Len(w), NEW at \in Places(r), Stood(w, at),
         \A i \in at.start + 1 .. r : w[i] = "LF" => \E j \in 1 .. i : StrayIn(w, r, j)
  PROVE  Verdict(SubSeq(w, 1, r)) = NoneFound(w, r)
  <1> DEFINE s == at.start
  <1>1. s \in 0 .. r /\ s \in Nat /\ r \in Nat /\ at.state \in {"REQUESTLINE", "HEADER"}
    BY DEF Places
  <1>2. \A i : EndIn(w, r, i) => i \in 2 .. s /\ w[i] = "LF"
    <2>1. ASSUME NEW i, EndIn(w, r, i) PROVE i \in 2 .. s /\ w[i] = "LF"
      <3>1. i \in 2 .. r /\ w[i] = "LF" /\ \A j \in 1 .. i : ~StrayIn(w, r, j)
        BY <2>1 DEF EndIn
      <3>2. i \notin s + 1 .. r
        BY <3>1
      <3> QED
        BY <1>1, <3>1, <3>2
    <2> QED
      BY <2>1
  <1>3. CASE s = 0
    <2>1. \A i : ~EndIn(w, r, i)
      <3>1. \A i : i \notin 2 .. s
        BY <1>3
      <3> QED
        BY <1>2, <3>1
    <2> QED
      BY <2>1, VerdictNone
  <1>4. CASE s # 0
    <2>1. at.state = "HEADER"
      BY <1>1, <1>4 DEF Stood
    <2>2. PICK f \in 2 .. s : FirstLine(w, f)
      BY <2>1 DEF Stood
    <2>3. w[f] = "LF" /\ (\A i \in 1 .. f - 1 : w[i] # "LF") /\ RequestLine(SubSeq(w, 1, f - 2))
      BY <2>2 DEF FirstLine
    <2>4. EndIn(w, r, f)
      <3>1. \A j \in 1 .. f : j \in 1 .. s
        BY <1>1, <2>2
      <3>2. \A j \in 1 .. f : ~StrayIn(w, r, j)
        BY <3>1, StrayBroken DEF Stood
      <3>3. f \in 2 .. r
        BY <1>1, <2>2
      <3> QED
        BY <2>3, <3>2, <3>3 DEF EndIn
    <2>5. \A i \in 2 .. f - 1 : w[i] # "LF"
      BY <2>3
    <2>6. ~\E i \in f + 1 .. r : EndIn(w, r, i) /\ EndIn(w, r, i - 2)
      <3> SUFFICES ASSUME NEW i \in f + 1 .. r, EndIn(w, r, i), EndIn(w, r, i - 2) PROVE FALSE
        OBVIOUS
      <3>1. i \in 2 .. s /\ w[i] = "LF" /\ w[i - 2] = "LF"
        BY <1>2
      <3>2. i \in 3 .. s
        BY <2>2, <3>1
      <3> QED
        BY <2>1, <3>1, <3>2 DEF Stood
    <2> QED
      BY <2>3, <2>4, <2>5, <2>6, VerdictSome
  <1> QED
    BY <1>3, <1>4

(* The end of a line that is whole. *)
LEMMA CleanTo ==
  ASSUME NEW w, NEW r \in Nat, NEW at \in Places(r), Stood(w, at), NEW e \in at.start + 1 .. r, NoEnd(w, at.start, e - 1),
         w[e] = "CR", w[e + 1] = "LF"
  PROVE  \A j \in 1 .. e + 1 : ~Broken(w, j)
  <1> SUFFICES ASSUME NEW j \in 1 .. e + 1 PROVE ~Broken(w, j)
    OBVIOUS
  <1>1. at.start \in Nat /\ e \in Nat /\ e >= 1
    BY DEF Places
  <1>2. j \in 1 .. at.start \/ j \in at.start + 1 .. e - 1 \/ j = e \/ j = e + 1
    BY <1>1
  <1>3. j \in at.start + 1 .. e - 1 => w[j] \notin {"CR", "LF"}
    BY DEF NoEnd
  <1>4. j = e + 1 => j # 1 /\ w[j - 1] = "CR"
    BY <1>1
  <1>5. j \in 1 .. at.start => ~Broken(w, j)
    BY DEF Stood
  <1> QED
    BY <1>2, <1>3, <1>4, <1>5 DEF Broken

LEMMA NoEndJoins ==
  ASSUME NEW w, NEW a \in Nat, NEW c \in Nat, NEW e \in Nat, NoEnd(w, a, c), NoEnd(w, c, e), a <= c, c <= e
  PROVE  NoEnd(w, a, e)
  <1>1. \A j \in a + 1 .. e : j \in a + 1 .. c \/ j \in c + 1 .. e
    OBVIOUS
  <1> QED
    BY <1>1 DEF NoEnd

(* The three ways in which a turn ends the loop for now or for good, and   *)
(* the two in which it goes on.                                            *)
LEMMA OpenRight ==
  ASSUME NEW w \in Seq(Symbols), NEW r \in 1 .. Len(w), NEW at \in Places(r), Stood(w, at), NEW k \in at.checked .. r,
         NoEnd(w, at.start, k), k = r \/ (k + 1 = r /\ w[r] = "CR"),
         NEW res, res = Halts([status |-> "OPEN", checked |-> k], at, "NO_REQUEST", at.start)
  PROVE  Right(w, r, res)
  <1> DEFINE to == [checked |-> k, start |-> at.start, state |-> at.state]
  <1>1. at.start \in 0 .. r /\ at.checked \in 0 .. r /\ at.state \in {"REQUESTLINE", "HEADER"}
        /\ at.start <= at.checked /\ r \in Nat
    BY DEF Places, Stood
  <1>2. res.code = "NO_REQUEST" /\ [checked |-> res.checked, start |-> res.start, state |-> res.state] = to
    BY DEF Halts
  <1>3. to \in Places(r) /\ Stood(w, to)
    <2>1. to.checked = k /\ to.start = at.start /\ to.state = at.state
      OBVIOUS
    <2>2. to \in Places(r)
      BY <1>1 DEF Places
    <2>3. at.start <= k
      BY <1>1
    <2> HIDE DEF to
    <2> QED
      BY <2>1, <2>2, <2>3 DEF Stood
  <1>4. \A j \in at.start + 1 .. r : w[j] # "LF" /\ (w[j] = "CR" => j = r)
    <2>1. \A j \in at.start + 1 .. r : j \in at.start + 1 .. k \/ (j = r /\ w[r] = "CR")
      BY <1>1
    <2> QED
      BY <2>1 DEF NoEnd
  <1>5. Verdict(SubSeq(w, 1, r)) = NoneFound(w, r)
    BY <1>4, VerdictAt
  <1>6. \A j \in 1 .. r : ~StrayIn(w, r, j)
    <2> SUFFICES ASSUME NEW j \in 1 .. r PROVE ~StrayIn(w, r, j)
      OBVIOUS
    <2>1. CASE j \in 1 .. at.start
      BY <2>1, StrayBroken DEF Stood
    <2>2. CASE j \in at.start + 1 .. r
      <3>1. w[j] # "LF" /\ (w[j] = "CR" => ~(j < r))
        BY <1>1, <1>4, <2>2
      <3> QED
        BY <3>1 DEF StrayIn
    <2> QED
      BY <1>1, <2>1, <2>2
  <1>7. NoneFound(w, r) = "NO_REQUEST"
    BY <1>6 DEF NoneFound
  <1> QED
    BY <1>2, <1>3, <1>5, <1>7 DEF Right

LEMMA BadRight ==
  ASSUME NEW w \in Seq(Symbols), NEW r \in 1 .. Len(w), NEW at \in Places(r), Stood(w, at), NEW e \in at.start + 1 .. r,
         NoEnd(w, at.start, e - 1), StrayIn(w, r, e), NEW res, res.code = "BAD_REQUEST"
  PROVE  Right(w, r, res)
  <1>1. at.start \in Nat /\ e \in 1 .. r
    BY DEF Places
  <1>2. \A i \in at.start + 1 .. r : w[i] = "LF" => e \in 1 .. i
    <2>1. \A i \in at.start + 1 .. r : i \in at.start + 1 .. e - 1 \/ e \in 1 .. i
      BY <1>1
    <2> QED
      BY <2>1 DEF NoEnd
  <1>3. Verdict(SubSeq(w, 1, r)) = NoneFound(w, r)
    BY <1>2, VerdictAt
  <1>4. NoneFound(w, r) = "BAD_REQUEST"
    BY <1>1 DEF NoneFound
  <1> QED
    BY <1>3, <1>4 DEF Right

LEMMA BadLineRight ==
  ASSUME NEW w \in Seq(Symbols), NEW r \in 1 .. Len(w), NEW at \in Places(r), Stood(w, at), NEW e \in at.start + 1 .. r, e < r,
         NoEnd(w, at.start, e - 1), w[e] = "CR", w[e + 1] = "LF", at.start = 0, ~RequestLine(SubSeq(w, 1, e - 1)),
         NEW res, res.code = "BAD_REQUEST"
  PROVE  Right(w, r, res)
  <1> DEFINE f == e + 1
  <1>1. f \in 2 .. r /\ f - 2 = e - 1 /\ r \in Nat /\ e \in Nat
    OBVIOUS
  <1>2. \A j \in 1 .. f : ~StrayIn(w, r, j)
    BY <1>1, CleanTo, StrayBroken
  <1>3. EndIn(w, r, f)
    BY <1>1, <1>2 DEF EndIn
  <1>4. \A i \in 2 .. f - 1 : w[i] # "LF"
    <2>1. \A i \in 2 .. f - 1 : i \in at.start + 1 .. e - 1 \/ i = e
      BY <1>1
    <2> QED
      BY <2>1 DEF NoEnd
  <1>5. Verdict(SubSeq(w, 1, r)) = "BAD_REQUEST"
    BY <1>1, <1>3, <1>4, VerdictSome
  <1> QED
    BY <1>5 DEF Right

LEMMA GetRight ==
  ASSUME NEW w \in Seq(Symbols), NEW r \in 1 .. Len(w), NEW at \in Places(r), Stood(w, at), at.state = "HEADER",
         NEW e, e = at.start + 1, e < r, w[e] = "CR", w[e + 1] = "LF", NEW res, res.code = "GET_REQUEST"
  PROVE  Right(w, r, res)
  <1>1. at.start \in Nat /\ r \in Nat /\ e \in Nat /\ e \in at.start + 1 .. r /\ at.start >= 2 /\ w[at.start] = "LF"
    BY DEF Places, Stood
  <1>2. NoEnd(w, at.start, e - 1)
    BY <1>1 DEF NoEnd
  <1>3. \A j \in 1 .. e + 1 : ~StrayIn(w, r, j)
    BY <1>1, <1>2, CleanTo, StrayBroken
  <1>4. PICK f \in 2 .. at.start : FirstLine(w, f)
    BY DEF Stood
  <1>5. \A i \in 2 .. e + 1 : w[i] = "LF" => EndIn(w, r, i)
    <2>1. \A i \in 2 .. e + 1 : i \in 2 .. r /\ \A j \in 1 .. i : j \in 1 .. e + 1
      BY <1>1
    <2> QED
      BY <1>3, <2>1 DEF EndIn
  <1>6. EndIn(w, r, f) /\ EndIn(w, r, e + 1) /\ EndIn(w, r, (e + 1) - 2) /\ e + 1 \in f + 1 .. r
    <2>1. f \in 2 .. e + 1 /\ e + 1 \in 2 .. e + 1 /\ (e + 1) - 2 \in 2 .. e + 1 /\ (e + 1) - 2 = at.start
          /\ e + 1 \in f + 1 .. r
      BY <1>1, <1>4
    <2>2. w[f] = "LF"
      BY <1>4 DEF FirstLine
    <2> QED
      BY <1>1, <1>5, <2>1, <2>2
  <1>7. RequestLine(SubSeq(w, 1, f - 2)) /\ \A i \in 2 .. f - 1 : w[i] # "LF"
    BY <1>4 DEF FirstLine
  <1>8. Verdict(SubSeq(w, 1, r)) = "GET_REQUEST"
    BY <1>6, <1>7, VerdictSome
  <1> QED
    BY <1>8 DEF Right

LEMMA StandsBehind ==
  ASSUME NEW w \in Seq(Symbols), NEW r \in 1 .. Len(w), NEW at \in Places(r), Stood(w, at), NEW e \in at.start + 1 .. r, e < r,
         NoEnd(w, at.start, e - 1), w[e] = "CR", w[e + 1] = "LF",
         \/ at.state = "REQUESTLINE" /\ RequestLine(SubSeq(w, 1, e - 1))
         \/ at.state = "HEADER" /\ e # at.start + 1,
         NEW to, to = [checked |-> e + 1, start |-> e + 1, state |-> "HEADER"]
  PROVE  to \in Places(r) /\ Stood(w, to)
  <1>1. at.start \in Nat /\ r \in Nat /\ e \in Nat /\ e >= 1 /\ to.checked = e + 1 /\ to.start = e + 1 /\ to.state = "HEADER"
    BY DEF Places
  <1>2. to \in Places(r)
    BY <1>1 DEF Places
  <1>3. \A j \in 1 .. e + 1 : ~Broken(w, j)
    BY <1>1, CleanTo
  <1>4. NoEnd(w, e + 1, e + 1)
    BY <1>1 DEF NoEnd
  <1>5. \A i \in at.start + 1 .. e : w[i] # "LF"
    <2>1. \A i \in at.start + 1 .. e : i \in at.start + 1 .. e - 1 \/ i = e
      BY <1>1
    <2> QED
      BY <2>1 DEF NoEnd
  <1>6. \E f \in 2 .. e + 1 : FirstLine(w, f)
    <2>1. CASE at.state = "REQUESTLINE" /\ RequestLine(SubSeq(w, 1, e - 1))
      <3>1. at.start = 0 /\ e + 1 \in 2 .. e + 1 /\ (e + 1) - 2 = e - 1 /\ (e + 1) - 1 = e
        BY <1>1, <2>1 DEF Stood
      <3>2. FirstLine(w, e + 1)
        BY <1>5, <2>1, <3>1 DEF FirstLine
      <3> QED
        BY <3>1, <3>2
    <2>2. CASE at.state = "HEADER"
      <3>1. PICK f \in 2 .. at.start : FirstLine(w, f)
        BY <2>2 DEF Stood
      <3>2. f \in 2 .. e + 1
        BY <1>1, <3>1
      <3> QED
        BY <3>1, <3>2
    <2> QED
      BY <2>1, <2>2
  <1>7. \A i \in 3 .. e + 1 : ~(w[i] = "LF" /\ w[i - 2] = "LF")
    <2> SUFFICES ASSUME NEW i \in 3 .. e + 1, w[i] = "LF", w[i - 2] = "LF" PROVE FALSE
      OBVIOUS
    <2>1. i \in 3 .. at.start \/ i \in at.start + 1 .. e \/ i = e + 1
      BY <1>1
    <2>2. i \notin 3 .. at.start
      <3>1. i \in 3 .. at.start => at.state = "HEADER"
        BY <1>1 DEF Stood
      <3> QED
        BY <3>1 DEF Stood
    <2>3. i = e + 1 /\ e >= 2
      BY <1>1, <1>5, <2>1, <2>2
    <2>4. e - 1 = i - 2 /\ w[e - 1] = "LF"
      BY <1>1, <2>3
    <2>5. e - 1 \notin at.start + 1 .. e
      BY <1>5, <2>4
    <2>6. e = at.start + 1
      BY <1>1, <2>5
    <2>7. at.start = 0
      BY <2>6 DEF Stood
    <2> QED
      BY <2>3, <2>6, <2>7
  <1>8. e + 1 <= e + 1 /\ e + 1 >= 2 /\ e + 1 # 0
    BY <1>1
  <1>9. Stood(w, to)
    BY <1>1, <1>3, <1>4, <1>6, <1>7, <1>8 DEF Stood
  <1> QED
    BY <1>2, <1>9

(* parse_content is right from wherever the parser may stand: by the turns *)
(* that are left.                                                          *)
LEMMA ContentRight ==
  ASSUME NEW w \in Seq(Symbols), NEW r \in 1 .. Len(w), NEW at0 \in Places(r), Stood(w, at0)
  PROVE  Right(w, r, parse_content(w, r, at0))
  <1> DEFINE S == {d \in 0 .. r : \E at \in Places(r) : at.checked = r - d /\ Stood(w, at) /\ ~Right(w, r, parse_content(w, r, at))}
  <1>1. r \in Nat /\ \A at \in Places(r) : at.checked \in 0 .. r /\ at.checked \in Nat
    BY DEF Places
  <1> SUFFICES ASSUME S # {} PROVE FALSE
    <2>1. r - at0.checked \in 0 .. r /\ r - (r - at0.checked) = at0.checked
      BY <1>1
    <2>2. r - at0.checked \notin S
      OBVIOUS
    <2> QED
      BY <2>1, <2>2
  <1>2. S \in SUBSET Nat
    OBVIOUS
  <1>3. PICK d \in S : \A y \in S : d <= y
    BY <1>2, Least
  <1>4. PICK at \in Places(r) : at.checked = r - d /\ Stood(w, at) /\ ~Right(w, r, parse_content(w, r, at))
    BY <1>3
  <1>5. d \in 0 .. r
    BY <1>3
  <1> DEFINE c == at.checked
             s == at.start
             p == parse_line(w, c, r)
             more == parse_content(w, r, PastLine(p))
             res == Turn(w, p, at, more)
  <1>6. parse_content(w, r, at) = res
    BY <1>1, ContentStep
  <1>7. c \in Nat /\ s \in Nat /\ c <= r /\ s <= c /\ NoEnd(w, s, c) /\ at.state \in {"REQUESTLINE", "HEADER"}
    BY <1>1, <1>4 DEF Places, Stood
  <1>8. ASSUME NEW to \in Places(r), to.checked >= c + 1, Stood(w, to) PROVE Right(w, r, parse_content(w, r, to))
    <2> DEFINE y == r - to.checked
    <2>1. y \in 0 .. r /\ to.checked = r - y /\ ~(d <= y)
      BY <1>1, <1>4, <1>5, <1>8
    <2> HIDE DEF y
    <2>2. y \notin S
      BY <1>3, <2>1
    <2> QED
      BY <1>8, <2>1, <2>2
  <1> HIDE DEF S, p, more
  <1>9. CASE NoEnd(w, c, r)
    <2>1. p = [status |-> "OPEN", checked |-> r]
      BY <1>1, <1>7, <1>9, LineOpen DEF p
    <2>2. res = Halts(p, at, "NO_REQUEST", s)
      BY <2>1 DEF Turn
    <2>3. NoEnd(w, s, r) /\ r \in c .. r
      BY <1>1, <1>7, <1>9, NoEndJoins
    <2> HIDE DEF res
    <2>4. Right(w, r, res)
      BY <1>4, <2>1, <2>2, <2>3, OpenRight
    <2> QED
      BY <1>4, <1>6, <2>4
  <1>10. CASE ~NoEnd(w, c, r)
    <2>1. PICK e \in c + 1 .. r : w[e] \in {"CR", "LF"} /\ NoEnd(w, c, e - 1)
      BY <1>1, <1>7, <1>10, EndFirst
    <2>2. e \in s + 1 .. r /\ e - 1 \in c .. r /\ e - 1 \in Nat /\ e \in Nat /\ e >= 1 /\ (e - 1) + 1 = e /\ (e = r \/ e < r)
      BY <1>1, <1>7, <2>1
    <2>3. NoEnd(w, s, e - 1)
      <3>1. c <= e - 1
        BY <2>2, <1>7
      <3> QED
        BY <1>7, <2>1, <2>2, <3>1, NoEndJoins
    <2>4. /\ w[e] = "CR" /\ e = r => p = [status |-> "OPEN", checked |-> e - 1]
          /\ w[e] = "CR" /\ e < r /\ w[e + 1] = "LF" => p = [status |-> "OK", checked |-> e + 1]
          /\ w[e] = "CR" /\ e < r /\ w[e + 1] # "LF" => p = [status |-> "BAD", checked |-> e - 1]
          /\ w[e] = "LF" /\ e > 2 /\ w[e - 1] = "CR" => p = [status |-> "OK", checked |-> e]
          /\ w[e] = "LF" /\ ~(e > 2 /\ w[e - 1] = "CR") => p = [status |-> "BAD", checked |-> e - 1]
      BY <1>1, <1>7, <2>1, LineAtEnd DEF p
    <2>5. CASE w[e] = "CR" /\ e = r
      <3>1. p = [status |-> "OPEN", checked |-> e - 1]
        BY <2>4, <2>5
      <3>2. res = Halts(p, at, "NO_REQUEST", s)
        BY <3>1 DEF Turn
      <3> DEFINE k == e - 1
      <3>3. p = [status |-> "OPEN", checked |-> k] /\ k \in c .. r /\ k + 1 = r /\ w[r] = "CR" /\ NoEnd(w, s, k)
        BY <2>2, <2>3, <2>5, <3>1
      <3> HIDE DEF res, k
      <3>4. Right(w, r, res)
        BY <1>4, <3>2, <3>3, OpenRight
      <3> QED
        BY <1>4, <1>6, <3>4
    <2>6. CASE p.status = "BAD" /\ StrayIn(w, r, e)
      <3>1. res = Halts(p, at, "BAD_REQUEST", s)
        BY <2>6 DEF Turn
      <3>2. res.code = "BAD_REQUEST"
        BY <3>1 DEF Halts
      <3> HIDE DEF res
      <3>3. Right(w, r, res)
        BY <1>4, <2>2, <2>3, <2>6, <3>2, BadRight
      <3> QED
        BY <1>4, <1>6, <3>3
    <2>7. CASE w[e] = "CR" /\ e < r /\ w[e + 1] # "LF"
      <3>1. p = [status |-> "BAD", checked |-> e - 1]
        BY <2>4, <2>7
      <3>2. p.status = "BAD"
        BY <3>1
      <3>3. StrayIn(w, r, e)
        BY <2>7 DEF StrayIn
      <3> QED
        BY <2>6, <3>2, <3>3
    <2>8. CASE w[e] = "LF"
      <3>1. e = 1 \/ w[e - 1] # "CR"
        <4>1. e - 1 \in s + 1 .. e - 1 \/ e - 1 = s
          BY <1>7, <2>2
        <4>2. e - 1 \in s + 1 .. e - 1 => w[e - 1] # "CR"
          BY <2>3 DEF NoEnd
        <4>3. e - 1 = s /\ s # 0 => w[e - 1] = "LF"
          BY <1>4 DEF Stood
        <4>4. e - 1 = s /\ s = 0 => e = 1
          BY <2>2
        <4> QED
          BY <4>1, <4>2, <4>3, <4>4
      <3>2. ~(e > 2 /\ w[e - 1] = "CR")
        BY <3>1
      <3>3. p = [status |-> "BAD", checked |-> e - 1]
        BY <2>4, <2>8, <3>2
      <3>4. p.status = "BAD" /\ StrayIn(w, r, e)
        BY <2>8, <3>1, <3>3 DEF StrayIn
      <3> QED
        BY <2>6, <3>4
    <2>9. CASE w[e] = "CR" /\ e < r /\ w[e + 1] = "LF"
      <3>1. p = [status |-> "OK", checked |-> e + 1]
        BY <2>4, <2>9
      <3>2. p.status = "OK" /\ p.checked = e + 1 /\ (e + 1) - 2 = e - 1
        BY <2>2, <3>1
      <3> DEFINE line_ == SubSeq(w, s + 1, e - 1)
      <3>3. /\ at.state = "REQUESTLINE" =>
                 res = IF parse_requestline(line_) THEN more ELSE Halts(p, at, "BAD_REQUEST", e + 1)
            /\ at.state = "HEADER" =>
                 res = IF parse_headers(line_) = "GET_REQUEST" THEN Halts(p, at, "GET_REQUEST", e + 1) ELSE more
        BY <3>2 DEF Turn
      <3>4. PastLine(p) = [checked |-> e + 1, start |-> e + 1, state |-> "HEADER"] /\ e + 1 >= c + 1
        BY <1>7, <2>1, <3>2 DEF PastLine
      <3>5. ASSUME \/ at.state = "REQUESTLINE" /\ RequestLine(SubSeq(w, 1, e - 1))
                   \/ at.state = "HEADER" /\ e # s + 1
            PROVE  Right(w, r, more)
        <4> DEFINE to == PastLine(p)
        <4>1. to.checked >= c + 1
          BY <3>4
        <4>2. to = [checked |-> e + 1, start |-> e + 1, state |-> "HEADER"]
          BY <3>4
        <4> HIDE DEF to
        <4>3. to \in Places(r) /\ Stood(w, to)
          BY <1>4, <2>2, <2>3, <2>9, <3>5, <4>2, StandsBehind
        <4>4. Right(w, r, parse_content(w, r, to))
          BY <1>8, <4>1, <4>3
        <4> QED
          BY <4>4 DEF to, more
      <3>6. line_ \in Seq(Symbols) /\ Len(line_) = (e - 1) - s
        <4>1. s + 1 \in Nat \ {0} /\ e - 1 \in Nat /\ e - 1 <= Len(w) /\ s + 1 <= (e - 1) + 1
              /\ (e - 1) - s = (e - 1) - (s + 1) + 1
              /\ (e - 1) - s \in Nat
          BY <1>7, <2>2
        <4> DEFINE a == s + 1
                   k == e - 1
                   l == (e - 1) - s
        <4>2. a \in Nat \ {0} /\ k \in Nat /\ l \in Nat /\ k <= Len(w) /\ a <= k + 1 /\ l = k - a + 1
          BY <4>1
        <4>3. line_ = SubSeq(w, a, k)
          OBVIOUS
        <4> HIDE DEF a, k, l, line_
        <4>4. line_ \in Seq(Symbols) /\ Len(line_) = l
          BY <4>2, <4>3, SubOf
        <4> QED
          BY <4>4 DEF l
      <3>7. CASE at.state = "REQUESTLINE"
        <4>1. s = 0 /\ line_ = SubSeq(w, 1, e - 1)
          BY <1>4, <3>7 DEF Stood
        <4>2. CASE RequestLine(line_)
          <5>1. parse_requestline(line_)
            BY <3>6, <4>2, LineAgrees
          <5>2. res = more
            BY <3>3, <3>7, <5>1
          <5>3. Right(w, r, more)
            BY <3>5, <3>7, <4>1, <4>2
          <5> QED
            BY <1>4, <1>6, <5>2, <5>3
        <4>3. CASE ~RequestLine(line_)
          <5>1. ~parse_requestline(line_)
            BY <3>6, <4>3, LineAgrees
          <5>2. res = Halts(p, at, "BAD_REQUEST", e + 1)
            BY <3>3, <3>7, <5>1
          <5> HIDE DEF res
          <5>3. res.code = "BAD_REQUEST"
            BY <5>2 DEF Halts
          <5>4. Right(w, r, res)
            BY <1>4, <2>2, <2>3, <2>9, <4>1, <4>3, <5>3, BadLineRight
          <5> QED
            BY <1>4, <1>6, <5>4
        <4> QED
          BY <4>2, <4>3
      <3>8. CASE at.state = "HEADER"
        <4>1. CASE e = s + 1
          <5>1. line_ = <<>>
            <6> HIDE DEF line_, s
            <6>1. Len(line_) = 0
              BY <1>7, <3>6, <4>1
            <6> QED
              BY <3>6, <6>1
          <5>2. res = Halts(p, at, "GET_REQUEST", e + 1)
            BY <3>3, <3>8, <5>1 DEF parse_headers
          <5> HIDE DEF res
          <5>3. res.code = "GET_REQUEST"
            BY <5>2 DEF Halts
          <5>4. Right(w, r, res)
            BY <1>4, <2>9, <3>8, <4>1, <5>3, GetRight
          <5> QED
            BY <1>4, <1>6, <5>4
        <4>2. CASE e # s + 1
          <5>1. Len(line_) # 0
            BY <1>7, <2>2, <3>6, <4>2
          <5>2. line_ # <<>>
            <6>1. Len(<<>>) = 0
              OBVIOUS
            <6> QED
              BY <5>1, <6>1
          <5>3. res = more
            BY <3>3, <3>8, <5>2 DEF parse_headers
          <5>4. Right(w, r, more)
            BY <3>5, <3>8, <4>2
          <5> QED
            BY <1>4, <1>6, <5>3, <5>4
        <4> QED
          BY <4>1, <4>2
      <3> QED
        BY <1>7, <3>7, <3>8
    <2> QED
      BY <2>1, <2>2, <2>5, <2>7, <2>8, <2>9
  <1> QED
    BY <1>9, <1>10

-----------------------------------------------------------------------------
(* The parser between two pieces: what it has read is a beginning of the   *)
(* request, it stands where it may stand, and it was right.                *)
Place == [checked |-> checked_index, start |-> start_line, state |-> checkstate]
HpInv ==
    /\ wire \in Seq(Symbols) /\ read_index \in 0 .. Len(wire)
    /\ answer = "NO_REQUEST" => Place \in Places(read_index) /\ Stood(wire, Place)
    /\ HttpChunks

(* A sequence with one place changed, filled in or left out is a sequence.  *)
LEMMA OneChange == ASSUME NEW t \in Seq(Symbols), NEW i \in 1 .. Len(t), NEW c \in Symbols
  PROVE  [t EXCEPT ![i] = c] \in Seq(Symbols) /\ InsertAt(t, i, c) \in Seq(Symbols) /\ RemoveAt(t, i) \in Seq(Symbols)
  <1>1. [t EXCEPT ![i] = c] \in Seq(Symbols)
    OBVIOUS
  <1>2. SubSeq(t, 1, i - 1) \in Seq(Symbols)
    OBVIOUS
  <1>3. SubSeq(t, i, Len(t)) \in Seq(Symbols)
    OBVIOUS
  <1>4. SubSeq(t, i + 1, Len(t)) \in Seq(Symbols)
    OBVIOUS
  <1>5. InsertAt(t, i, c) \in Seq(Symbols)
    BY <1>2, <1>3 DEF InsertAt
  <1>6. RemoveAt(t, i) \in Seq(Symbols)
    BY <1>2, <1>4 DEF RemoveAt
  <1> QED
    BY <1>1, <1>5, <1>6

(* Every request the model sends is a sequence of its symbols. *)
LEMMA WiresTyped == \A x \in Requests : x \in Seq(Symbols)
  <1>1. Proper \in Seq(Symbols) /\ DOMAIN Proper = 1 .. Len(Proper)
    BY DEF Proper, Symbols
  <1>2. ASSUME NEW x \in SeqOf(Symbols, MaxWire) PROVE x \in Seq(Symbols)
    <2>1. PICK m \in 0 .. MaxWire : x \in [1 .. m -> Symbols]
      BY DEF SeqOf
    <2>2. m \in Nat
      BY HttpParserAssumption
    <2> QED
      BY <2>1, <2>2
  <1>3. "CR" \in Symbols
    BY DEF Symbols
  <1> HIDE DEF Proper
  <1>4. \A i \in DOMAIN Proper : \A c \in Symbols : [Proper EXCEPT ![i] = c] \in Seq(Symbols)
    BY <1>1, OneChange
  <1>5. \A i \in DOMAIN Proper : \A c \in Symbols : InsertAt(Proper, i, c) \in Seq(Symbols)
    BY <1>1, OneChange
  <1>6. \A i \in DOMAIN Proper : RemoveAt(Proper, i) \in Seq(Symbols)
    BY <1>1, <1>3, OneChange
  <1>7. \A x \in {[Proper EXCEPT ![i] = c] : i \in DOMAIN Proper, c \in Symbols} : x \in Seq(Symbols)
    BY <1>4
  <1>8. \A x \in {InsertAt(Proper, i, c) : i \in DOMAIN Proper, c \in Symbols} : x \in Seq(Symbols)
    BY <1>5
  <1>9. \A x \in {RemoveAt(Proper, i) : i \in DOMAIN Proper} : x \in Seq(Symbols)
    BY <1>6
  <1> QED
    BY <1>2, <1>7, <1>8, <1>9 DEF Requests

LEMMA FromStart == ASSUME NEW w, NEW r \in Nat, NEW at, at = [checked |-> 0, start |-> 0, state |-> "REQUESTLINE"]
  PROVE at \in Places(r) /\ Stood(w, at)
  <1>1. at.checked = 0 /\ at.start = 0 /\ at.state = "REQUESTLINE"
    OBVIOUS
  <1>2. at \in Places(r)
    BY DEF Places
  <1>3. Stood(w, at)
    BY <1>1 DEF Stood, NoEnd
  <1> QED
    BY <1>2, <1>3

(* What may stand in a beginning may stand in more. *)
LEMMA PlacesGrow == ASSUME NEW q \in Nat, NEW r \in Nat, q <= r, NEW at \in Places(q) PROVE at \in Places(r)
  BY DEF Places

LEMMA HpKeeps == HpInv /\ [HpNext]_hpVars => HpInv'
  <1> SUFFICES ASSUME HpInv, [HpNext]_hpVars PROVE HpInv'
    OBVIOUS
  <1>1. wire \in Seq(Symbols) /\ read_index \in 0 .. Len(wire) /\ Len(wire) \in Nat
        /\ (answer = "NO_REQUEST" => Place \in Places(read_index) /\ Stood(wire, Place)) /\ HttpChunks
    BY DEF HpInv
  <1>2. ASSUME NEW n \in 1 .. BUFFER_SIZE, HpRecv(n) PROVE HpInv'
    <2> DEFINE r == read_index + n
               res == parse_content(wire, r, Place)
    <2>1. answer = "NO_REQUEST" /\ r <= Len(wire) /\ read_index' = r /\ checked_index' = res.checked
          /\ start_line' = res.start /\ checkstate' = res.state /\ answer' = res.code /\ wire' = wire
      BY <1>2 DEF HpRecv, Place
    <2>2. n \in Nat /\ n >= 1
      BY HttpParserAssumption
    <2>3. r \in 1 .. Len(wire) /\ r \in Nat /\ read_index <= r /\ read_index \in Nat
      BY <1>1, <2>1, <2>2
    <2>4. Place \in Places(r) /\ Stood(wire, Place)
      BY <1>1, <2>1, <2>3, PlacesGrow
    <2> HIDE DEF r
    <2>5. Right(wire, r, res)
      BY <1>1, <2>3, <2>4, ContentRight
    <2> HIDE DEF res
    <2>6. answer' = Verdict(SubSeq(wire', 1, read_index'))
      BY <2>1, <2>5 DEF Right
    <2>7. HttpChunks'
      BY <2>6 DEF HttpChunks
    <2>8. answer' = "NO_REQUEST" => Place' \in Places(read_index') /\ Stood(wire', Place')
      <3>1. Place' = [checked |-> res.checked, start |-> res.start, state |-> res.state]
        BY <2>1 DEF Place
      <3> QED
        BY <2>1, <2>5, <3>1 DEF Right
    <2>9. wire' \in Seq(Symbols) /\ read_index' \in 0 .. Len(wire')
      BY <1>1, <2>1, <2>3
    <2> QED
      BY <2>7, <2>8, <2>9 DEF HpInv
  <1>3. CASE HpEnd
    BY <1>1, <1>3 DEF HpEnd, HpInv, HttpChunks
  <1>4. CASE HpAgain
    <2>1. wire' = wire /\ read_index' = 0
      BY <1>4 DEF HpAgain
    <2>2. Place' = [checked |-> 0, start |-> 0, state |-> "REQUESTLINE"]
      BY <1>4 DEF HpAgain, Place
    <2>3. Place' \in Places(0) /\ Stood(wire, Place')
      BY <2>2, FromStart
    <2>4. HttpChunks'
      BY <2>1 DEF HttpChunks
    <2> QED
      BY <1>1, <2>1, <2>3, <2>4 DEF HpInv
  <1>5. CASE UNCHANGED hpVars
    BY <1>1, <1>5 DEF hpVars, HpInv, HttpChunks, Place
  <1> QED
    BY <1>2, <1>3, <1>4, <1>5 DEF HpNext

LEMMA HpStart == HpInit => HpInv
  <1> SUFFICES ASSUME HpInit PROVE HpInv
    OBVIOUS
  <1>1. wire \in Seq(Symbols) /\ read_index = 0
    BY WiresTyped DEF HpInit
  <1>2. Place = [checked |-> 0, start |-> 0, state |-> "REQUESTLINE"]
    BY DEF HpInit, Place
  <1>3. Place \in Places(0) /\ Stood(wire, Place)
    BY <1>2, FromStart
  <1>4. 0 \in 0 .. Len(wire)
    BY <1>1
  <1> QED
    BY <1>1, <1>3, <1>4 DEF HpInv, HttpChunks

(* However a request is cut into pieces, the parser's verdict after each   *)
(* is that on all it has received, for requests and buffers of any size.   *)
THEOREM ChunksParsed == HpSpec => []HttpChunks
  <1>1. HpInv => HttpChunks
    BY DEF HpInv
  <1> QED
    BY <1>1, HpStart, HpKeeps, PTL DEF HpSpec
=============================================================================
