------------------------ MODULE TalkAndStringsProof -------------------------
(***************************************************************************)
(* The chat servers of chapters 9 and 13 and the connect with a time-out:  *)
(* what unblock_connect reports, the table of the poll server and the      *)
(* table of the server with a process per client, for any number of        *)
(* clients, rows and messages.                                             *)
(* The string of sds stays within its memory, for every width of its       *)
(* headers, every text and every length: what each call makes of a string  *)
(* within its memory, header by header, and that no sequence of calls      *)
(* leaves it.  The loops over bytes are functions here; the two folds of   *)
(* sdscatfmt over its format are shown from the equation of the recursive  *)
(* function behind FoldLeft.                                               *)
(* The links of epollhttpd's directory pages lead back to their entries:   *)
(* encode_str and decode_str are inverse, character by character, as far   *)
(* as the buffer of the escaped name reaches.                              *)
(***************************************************************************)
EXTENDS MyTalk, ShmTalk, TimedConnect, Sds, EpollHttpd, FiniteSetTheorems, SequenceTheorems,
        WellFoundedInduction, NaturalsInduction, TLAPS

(* unblock_connect and timeout_connect: what is known where the function   *)
(* stands.  An error that is due is in SO_ERROR until it is asked for, and *)
(* the socket is only in blocking mode where the connect is to block.      *)
TcInv ==
    /\ tcVia \in {"unblock", "timeout"} /\ soError \in BOOLEAN /\ sockOpen \in BOOLEAN
    /\ tcPc \in {"socket", "connect", "select", "getsockopt", "asleep", "returned"}
    /\ hand \in {"none", "syn", "up", "refused", "reset"} /\ result \in {"none", "fd", "-1"}
    /\ tcPc # "returned" => result = "none"
    /\ hand \in {"up", "reset"} => wasUp
    /\ tcPc \in {"socket", "connect"} => hand = "none" /\ ~soError
    /\ tcPc \notin {"socket", "returned"} => sockOpen
    /\ tcPc \in {"connect", "asleep"} /\ tcVia = "timeout" => blocking
    /\ tcPc = "asleep" => tcVia = "timeout"
    /\ tcPc \in {"select", "getsockopt"} => (hand \in {"refused", "reset"} => soError)
    /\ tcPc = "getsockopt" => hand # "syn"
    /\ tcPc \in {"select", "getsockopt", "asleep"} => hand # "none"
    /\ ConnectHonest
    /\ result = "fd" => hand \in {"up", "reset"}

LEMMA TcStep == TcInv /\ [TcNext]_tcVars => TcInv'
  <1> SUFFICES ASSUME TcInv, [TcNext]_tcVars PROVE TcInv'
    OBVIOUS
  <1> USE DEF TcInv, ConnectHonest, caller
  <1>1. CASE Handshake
    BY <1>1 DEF Handshake
  <1>2. CASE PeerResetsIt
    BY <1>2 DEF PeerResetsIt
  <1>3. CASE MakeSocket
    BY <1>3 DEF MakeSocket
  <1>4. CASE Connects
    BY <1>4 DEF Connects, Return
  <1>5. CASE Selects
    BY <1>5 DEF Selects, GiveUp, Return
  <1>6. CASE GetError
    BY <1>6 DEF GetError, GiveUp, Return
  <1>7. CASE StartsConnect
    BY <1>7 DEF StartsConnect
  <1>8. CASE WakesUp
    BY <1>8 DEF WakesUp, Return
  <1>9. CASE UNCHANGED tcVars
    BY <1>9 DEF tcVars
  <1> QED
    BY <1>1, <1>2, <1>3, <1>4, <1>5, <1>6, <1>7, <1>8, <1>9 DEF TcNext, TcOver

(* Whenever the handshake ends and the peer resets, and whatever the       *)
(* caller's stack held: a descriptor is returned only for a connection     *)
(* that was made, in blocking mode, and no error that was due is lost.     *)
THEOREM ConnectReported == TcSpec => []ConnectHonest
  <1>1. TcInit => TcInv
    BY DEF TcInit, TcInv, ConnectHonest
  <1>2. TcInv => ConnectHonest
    BY DEF TcInv
  <1> QED
    BY <1>1, <1>2, TcStep, PTL DEF TcSpec

-----------------------------------------------------------------------------
(* A set of naturals has a least element. *)
LEMMA Least == ASSUME NEW S \in SUBSET Nat, S # {} PROVE \E x \in S : \A y \in S : x <= y
  <1>1. \E x \in S : \A y \in S : ~(<<y, x>> \in OpToRel(<, Nat))
    BY NatLessThanWellFounded, WFMin, Zenon
  <1>2. \A p \in Nat \X Nat : p[1] < p[2] => p \in OpToRel(<, Nat)
    BY Zenon DEF OpToRel
  <1>3. \A x, y \in Nat : y < x => <<y, x>> \in OpToRel(<, Nat)
    <2> SUFFICES ASSUME NEW x \in Nat, NEW y \in Nat, y < x PROVE <<y, x>> \in OpToRel(<, Nat)
      OBVIOUS
    <2>1. <<y, x>> \in Nat \X Nat /\ <<y, x>>[1] = y /\ <<y, x>>[2] = x
      OBVIOUS
    <2>2. <<y, x>>[1] < <<y, x>>[2]
      BY <2>1
    <2> QED
      BY <1>2, <2>1, <2>2, Zenon
  <1>4. \E x \in S : \A y \in S : ~(y < x)
    BY <1>1, <1>3, Zenon
  <1> QED
    BY <1>4

Events == {"in", "err", "rdhup", "out"}
MyType ==
    /\ st \in [Talkers -> {"idle", "queued", "open", "closed"}]
    /\ data \in [Talkers -> BOOLEAN] /\ eof \in [Talkers -> BOOLEAN] /\ err \in [Talkers -> BOOLEAN]
    /\ queue \in Seq(Talkers) /\ owner \in [Fds -> Talkers \cup {Null}]
    /\ fds \in [Rows -> Fds \cup {Null}] /\ events \in [Rows -> BOOLEAN]
    /\ revents \in [Rows \cup {0} -> SUBSET Events]
    /\ user_counter \in 0 .. LIMIT /\ row \in -1 .. user_counter
    /\ write_buf \in [Fds -> Fds \cup {Null, Wild}]

(* The connections that accept has not returned wait once each; when poll  *)
(* has reported the listening socket there is one.                         *)
InQueue ==
    /\ \A i \in DOMAIN queue : st[queue[i]] = "queued"
    /\ \A i, j \in DOMAIN queue : queue[i] = queue[j] => i = j
    /\ row = 0 /\ "in" \in revents[0] => queue # <<>>

(* Rows, descriptors in use and open connections are one to one. *)
RowsUsed == \A k \in 1 .. user_counter : fds[k] \in Fds /\ owner[fds[k]] # Null
RowsOnce == \A k, l \in 1 .. user_counter : fds[k] = fds[l] => k = l
OwnersOpen == \A f \in Fds : owner[f] # Null => /\ st[owner[f]] = "open"
                                               /\ \E k \in 1 .. user_counter : fds[k] = f
OwnersOnce == \A f, g \in Fds : owner[f] # Null /\ owner[f] = owner[g] => f = g
OpenOwned == \A c \in Talkers : st[c] = "open" => \E f \in Fds : owner[f] = c

(* Of the rows this turn has not passed yet: one of which poll reported    *)
(* POLLIN and not POLLRDHUP still has its data.                            *)
StillUnread ==
    row >= 0 => \A k \in 1 .. user_counter :
        k >= row /\ "in" \in revents[k] /\ "rdhup" \notin revents[k] => data[owner[fds[k]]]

MyInv == /\ MyType /\ InQueue /\ RowsUsed /\ RowsOnce /\ OwnersOpen /\ OwnersOnce /\ OpenOwned
         /\ StillUnread /\ MytalkWriteBuf

LEMMA MyStart == MyInit => MyInv
  <1> SUFFICES ASSUME MyInit PROVE MyInv
    OBVIOUS
  <1>1. MyType
    <2>1. queue \in Seq(Talkers) /\ user_counter \in 0 .. LIMIT /\ row \in -1 .. user_counter
      BY MyTalkAssumption DEF MyInit
    <2>2. revents \in [Rows \cup {0} -> SUBSET Events]
      BY DEF MyInit
    <2> QED
      BY <2>1, <2>2 DEF MyInit, MyType
  <1>2. 1 .. user_counter = {} /\ DOMAIN queue = {} /\ row = -1 /\ \A f \in Fds : owner[f] = Null
    BY DEF MyInit
  <1>3. \A c \in Talkers : st[c] = "idle"
    BY DEF MyInit
  <1> QED
    BY <1>1, <1>2, <1>3 DEF MyInv, InQueue, RowsUsed, RowsOnce, OwnersOpen, OwnersOnce, OpenOwned, StillUnread,
                            MytalkWriteBuf

(* accept finds a descriptor as long as the table has room. *)
LEMMA FreeFdExists ==
  ASSUME MyType, OwnersOpen, RowsUsed, user_counter < LIMIT PROVE FreeFd \in Fds /\ owner[FreeFd] = Null
  <1> DEFINE S == {f \in Fds : owner[f] = Null}
  <1>1. user_counter \in Nat /\ LIMIT \in Nat
    BY MyTalkAssumption DEF MyType
  <1>2. S # {}
    <2> SUFFICES ASSUME \A f \in Fds : owner[f] # Null PROVE FALSE
      OBVIOUS
    <2> DEFINE g == [k \in 1 .. user_counter |-> fds[k]]
    <2>1. g \in [1 .. user_counter -> Fds]
      BY DEF RowsUsed
    <2>2. \A f \in Fds : \E k \in 1 .. user_counter : g[k] = f
      BY DEF OwnersOpen
    <2>3. g \in Surjection(1 .. user_counter, Fds)
      BY <2>1, <2>2 DEF Surjection
    <2>4. IsFiniteSet(1 .. user_counter) /\ Cardinality(1 .. user_counter) = user_counter
      BY <1>1, FS_Interval
    <2>5. Cardinality(Fds) = LIMIT
      BY <1>1, FS_Interval DEF Fds
    <2>6. Cardinality(Fds) <= Cardinality(1 .. user_counter)
      BY <2>3, <2>4, FS_Surjection
    <2> QED
      BY <1>1, <2>4, <2>5, <2>6
  <1>3. S \in SUBSET Nat
    BY <1>1 DEF Fds
  <1>4. \E x \in S : \A y \in S : x <= y
    BY <1>2, <1>3, Least
  <1>5. \E f \in Fds : owner[f] = Null /\ \A g \in Fds : owner[g] = Null => f <= g
    BY <1>4
  <1> QED
    BY <1>5 DEF FreeFd

(* The clients. *)
LEMMA TalkerKeeps ==
  ASSUME MyInv, NEW c \in Talkers, TalkerConnects(c) \/ TalkerSends(c) \/ TalkerLeaves(c) \/ TalkerResets(c)
  PROVE  MyInv'
  <1>1. UNCHANGED <<fds, events, revents, user_counter, owner, row, write_buf>>
    BY DEF TalkerConnects, TalkerSends, TalkerLeaves, TalkerResets, pollVars
  <1>2. RowsUsed' /\ RowsOnce' /\ OwnersOnce' /\ MytalkWriteBuf'
    BY <1>1 DEF MyInv, RowsUsed, RowsOnce, OwnersOnce, MytalkWriteBuf
  <1>3. CASE TalkerConnects(c)
    <2>1. /\ st[c] = "idle" /\ st' = [st EXCEPT ![c] = "queued"] /\ queue' = Append(queue, c)
          /\ UNCHANGED <<data, eof, err>>
      BY <1>3 DEF TalkerConnects
    <2>2. st'[c] = "queued" /\ \A d \in Talkers \ {c} : st'[d] = st[d]
      BY <2>1 DEF MyInv, MyType
    <2>3. MyType'
      BY <1>1, <2>1 DEF MyInv, MyType
    <2>4. /\ Len(queue) \in Nat /\ DOMAIN queue = 1 .. Len(queue) /\ DOMAIN queue' = 1 .. Len(queue) + 1
          /\ queue'[Len(queue) + 1] = c /\ \A i \in DOMAIN queue : queue'[i] = queue[i] /\ queue[i] \in Talkers
      BY <2>1 DEF MyInv, MyType
    <2>5. \A i \in DOMAIN queue' : i \in DOMAIN queue \/ i = Len(queue) + 1
      BY <2>4
    <2>6. \A i \in DOMAIN queue : queue[i] # c
      BY <2>1 DEF MyInv, InQueue
    <2>7. InQueue'
      <3>1. queue' # <<>>
        BY <2>4
      <3>2. \A i \in DOMAIN queue' : st'[queue'[i]] = "queued"
        BY <2>2, <2>4, <2>5 DEF MyInv, InQueue
      <3>3. \A i, j \in DOMAIN queue' : queue'[i] = queue'[j] => i = j
        BY <2>4, <2>5, <2>6 DEF MyInv, InQueue
      <3> QED
        BY <3>1, <3>2, <3>3 DEF InQueue
    <2>8. OwnersOpen' /\ OpenOwned'
      BY <1>1, <2>1, <2>2 DEF MyInv, MyType, OwnersOpen, OpenOwned
    <2>9. StillUnread'
      BY <1>1, <2>1 DEF MyInv, StillUnread
    <2> QED
      BY <1>2, <2>3, <2>7, <2>8, <2>9 DEF MyInv
  <1>4. CASE TalkerSends(c) \/ TalkerLeaves(c) \/ TalkerResets(c)
    <2>1. UNCHANGED <<st, queue>> /\ data' \in [Talkers -> BOOLEAN] /\ eof' \in [Talkers -> BOOLEAN]
          /\ err' \in [Talkers -> BOOLEAN] /\ \A d \in Talkers : data[d] => data'[d]
      BY <1>4 DEF TalkerSends, TalkerLeaves, TalkerResets, MyInv, MyType
    <2>2. MyType'
      BY <1>1, <2>1 DEF MyInv, MyType
    <2>3. InQueue' /\ OwnersOpen' /\ OpenOwned'
      BY <1>1, <2>1 DEF MyInv, InQueue, OwnersOpen, OpenOwned
    <2>4. \A k \in 1 .. user_counter : owner[fds[k]] \in Talkers
      BY DEF MyInv, MyType, RowsUsed
    <2>5. StillUnread'
      BY <1>1, <2>1, <2>4 DEF MyInv, StillUnread
    <2> QED
      BY <1>2, <2>2, <2>3, <2>5 DEF MyInv
  <1> QED
    BY <1>3, <1>4

-----------------------------------------------------------------------------
(* Every row and its connection have their types. *)
LEMMA RowTypes ==
  ASSUME MyType, RowsUsed
  PROVE  /\ user_counter \in Nat /\ LIMIT \in Nat /\ user_counter <= LIMIT /\ row \in Int
         /\ \A k \in 1 .. user_counter : k \in Rows /\ fds[k] \in Fds /\ owner[fds[k]] \in Talkers
  <1>1. user_counter \in Nat /\ LIMIT \in Nat /\ user_counter <= LIMIT /\ row \in Int
    BY MyTalkAssumption DEF MyType
  <1>2. \A k \in 1 .. user_counter : fds[k] \in Fds /\ owner[fds[k]] \in Talkers
    BY DEF MyType, RowsUsed
  <1> QED
    BY <1>1, <1>2 DEF Rows

LEMMA PollKeeps == ASSUME MyInv, Poll PROVE MyInv'
  <1>1. /\ row = -1 /\ row' = 0 /\ UNCHANGED <<st, data, eof, err, queue, fds, events, user_counter, owner, write_buf>>
        /\ revents' = [k \in Rows \cup {0} |->
                          IF k = 0 THEN (IF queue = <<>> THEN {} ELSE {"in"})
                          ELSE IF k <= user_counter THEN Revents(k) ELSE revents[k]]
    BY DEF Poll, clientVars
  <1>2. \A k : Revents(k) \in SUBSET Events
    BY DEF Revents, Events
  <1>3. user_counter \in Nat /\ \A k \in 1 .. user_counter : k \in Rows /\ k # 0 /\ k <= user_counter
    BY RowTypes DEF MyInv
  <1>4. MyType'
    <2>1. revents' \in [Rows \cup {0} -> SUBSET Events]
      BY <1>1, <1>2 DEF MyInv, MyType, Events
    <2>2. row' \in -1 .. user_counter'
      BY <1>1, <1>3
    <2> QED
      BY <1>1, <2>1, <2>2 DEF MyInv, MyType
  <1>5. InQueue'
    <2>1. revents'[0] = IF queue = <<>> THEN {} ELSE {"in"}
      BY <1>1
    <2> QED
      BY <1>1, <2>1 DEF MyInv, InQueue
  <1>6. RowsUsed' /\ RowsOnce' /\ OwnersOpen' /\ OwnersOnce' /\ OpenOwned' /\ MytalkWriteBuf'
    BY <1>1 DEF MyInv, RowsUsed, RowsOnce, OwnersOpen, OwnersOnce, OpenOwned, MytalkWriteBuf
  <1>7. StillUnread'
    <2> SUFFICES ASSUME NEW k \in 1 .. user_counter, "in" \in revents'[k], "rdhup" \notin revents'[k]
                 PROVE  data[owner[fds[k]]]
      BY <1>1 DEF StillUnread
    <2>1. revents'[k] = Revents(k)
      BY <1>1, <1>3
    <2>2. "in" \in Revents(k) => data[owner[fds[k]]] \/ eof[owner[fds[k]]]
      BY DEF Revents
    <2>3. eof[owner[fds[k]]] => "rdhup" \in Revents(k)
      BY DEF Revents
    <2> QED
      BY <2>1, <2>2, <2>3
  <1> QED
    BY <1>4, <1>5, <1>6, <1>7 DEF MyInv

(* The next row is one further or none. *)
LEMMA NextRowType ==
  ASSUME MyType, row >= 0, user_counter' \in 0 .. LIMIT, NextRow
  PROVE  row' \in -1 .. user_counter' /\ row' # 0 /\ (row' >= 0 => row' > row)
  <1>1. row \in Int /\ user_counter' \in Nat /\ LIMIT \in Nat
    BY MyTalkAssumption DEF MyType
  <1> QED
    BY <1>1 DEF NextRow

(* A turn that only looks: the row is quiet, cannot be accepted, or has an *)
(* error that getsockopt clears.                                           *)
LEMMA LookKeeps ==
  ASSUME MyInv, row >= 0, user_counter' = user_counter, NextRow, err' \in [Talkers -> BOOLEAN],
         UNCHANGED <<st, data, eof, queue, fds, events, revents, owner, write_buf>>
  PROVE  MyInv'
  <1>1. row' \in -1 .. user_counter' /\ row' # 0 /\ (row' >= 0 => row' > row)
    BY NextRowType DEF MyInv, MyType
  <1>2. MyType'
    BY <1>1 DEF MyInv, MyType
  <1>3. InQueue'
    BY <1>1 DEF MyInv, InQueue
  <1>4. RowsUsed' /\ RowsOnce' /\ OwnersOpen' /\ OwnersOnce' /\ OpenOwned' /\ MytalkWriteBuf'
    BY DEF MyInv, RowsUsed, RowsOnce, OwnersOpen, OwnersOnce, OpenOwned, MytalkWriteBuf
  <1>5. StillUnread'
    <2>1. \A k \in 1 .. user_counter : k >= row' /\ row' >= 0 => k >= row
      BY <1>1, RowTypes DEF MyInv, MyType
    <2> QED
      BY <2>1 DEF MyInv, StillUnread
  <1> QED
    BY <1>2, <1>3, <1>4, <1>5 DEF MyInv

(* accept took the first of the queue. *)
LEMMA QueueShifts ==
  ASSUME MyInv, row = 0, "in" \in revents[0], queue' = Tail(queue)
  PROVE  /\ Head(queue) \in Talkers /\ st[Head(queue)] = "queued" /\ queue' \in Seq(Talkers)
         /\ \A i \in DOMAIN queue' : queue'[i] # Head(queue) /\ st[queue'[i]] = "queued" /\ queue'[i] \in Talkers
         /\ \A i, j \in DOMAIN queue' : queue'[i] = queue'[j] => i = j
  <1>1. queue \in Seq(Talkers) /\ queue # <<>>
    BY DEF MyInv, MyType, InQueue
  <1>2. /\ Len(queue) \in Nat \ {0} /\ DOMAIN queue = 1 .. Len(queue) /\ DOMAIN queue' = 1 .. Len(queue) - 1
        /\ Head(queue) = queue[1] /\ queue' \in Seq(Talkers) /\ \A i \in DOMAIN queue' : queue'[i] = queue[i + 1]
    BY <1>1
  <1>3. 1 \in DOMAIN queue /\ \A i \in DOMAIN queue' : i + 1 \in DOMAIN queue /\ i + 1 # 1
    BY <1>2
  <1>4. \A i \in DOMAIN queue : queue[i] \in Talkers
    BY <1>1
  <1>5. \A i, j \in DOMAIN queue' : i + 1 = j + 1 => i = j
    BY <1>2
  <1> QED
    BY <1>2, <1>3, <1>4, <1>5 DEF MyInv, InQueue

LEMMA RefuseKeeps == ASSUME MyInv, RefuseUser PROVE MyInv'
  <1>1. /\ row = 0 /\ "in" \in revents[0] /\ st' = [st EXCEPT ![Head(queue)] = "closed"] /\ queue' = Tail(queue)
        /\ user_counter' = user_counter /\ NextRow
        /\ UNCHANGED <<data, eof, err, fds, events, revents, owner, write_buf>>
    BY DEF RefuseUser
  <1>2. row' \in -1 .. user_counter' /\ row' # 0 /\ (row' >= 0 => row' > row)
    BY <1>1, NextRowType DEF MyInv, MyType
  <1>3. /\ Head(queue) \in Talkers /\ st[Head(queue)] = "queued" /\ queue' \in Seq(Talkers)
        /\ \A i \in DOMAIN queue' : queue'[i] # Head(queue) /\ st[queue'[i]] = "queued" /\ queue'[i] \in Talkers
        /\ \A i, j \in DOMAIN queue' : queue'[i] = queue'[j] => i = j
    BY <1>1, QueueShifts
  <1>4. st'[Head(queue)] = "closed" /\ \A d \in Talkers \ {Head(queue)} : st'[d] = st[d]
    BY <1>1, <1>3 DEF MyInv, MyType
  <1>5. MyType'
    <2>1. st' \in [Talkers -> {"idle", "queued", "open", "closed"}]
      BY <1>1 DEF MyInv, MyType
    <2> QED
      BY <1>1, <1>2, <1>3, <2>1 DEF MyInv, MyType
  <1>6. InQueue'
    BY <1>2, <1>3, <1>4 DEF InQueue
  <1>7. RowsUsed' /\ RowsOnce' /\ OwnersOnce' /\ MytalkWriteBuf'
    BY <1>1 DEF MyInv, RowsUsed, RowsOnce, OwnersOnce, MytalkWriteBuf
  <1>8. OwnersOpen' /\ OpenOwned'
    BY <1>1, <1>3, <1>4 DEF MyInv, MyType, OwnersOpen, OpenOwned
  <1>9. StillUnread'
    <2>1. \A k \in 1 .. user_counter : k >= row' /\ row' >= 0 => k >= row
      BY <1>1, <1>2, RowTypes DEF MyInv, MyType
    <2> QED
      BY <1>1, <2>1 DEF MyInv, StillUnread
  <1> QED
    BY <1>5, <1>6, <1>7, <1>8, <1>9 DEF MyInv

LEMMA AcceptUserKeeps == ASSUME MyInv, AcceptUser PROVE MyInv'
  <1> DEFINE f == FreeFd
             c == Head(queue)
             m == user_counter
  <1>1. /\ row = 0 /\ "in" \in revents[0] /\ m < LIMIT /\ st' = [st EXCEPT ![c] = "open"] /\ queue' = Tail(queue)
        /\ user_counter' = m + 1 /\ NextRow /\ owner' = [owner EXCEPT ![f] = c]
        /\ fds' = [fds EXCEPT ![m + 1] = f] /\ events' = [events EXCEPT ![m + 1] = FALSE]
        /\ revents' = [revents EXCEPT ![m + 1] = {}] /\ UNCHANGED <<data, eof, err, write_buf>>
    BY DEF AcceptUser, EnterRow
  <1>2. /\ m \in Nat /\ LIMIT \in Nat /\ m + 1 \in Rows /\ m + 1 # 0
        /\ \A k \in 1 .. m : k \in Rows /\ k # m + 1 /\ fds[k] \in Fds /\ owner[fds[k]] \in Talkers
        /\ 1 .. m + 1 = (1 .. m) \cup {m + 1}
    <2>1. m \in Nat /\ LIMIT \in Nat /\ \A k \in 1 .. m : k \in Rows /\ fds[k] \in Fds /\ owner[fds[k]] \in Talkers
      BY RowTypes DEF MyInv
    <2> QED
      BY <1>1, <2>1 DEF Rows
  <1>3. f \in Fds /\ owner[f] = Null
    BY <1>1, FreeFdExists DEF MyInv
  <1>4. /\ c \in Talkers /\ st[c] = "queued" /\ queue' \in Seq(Talkers)
        /\ \A i \in DOMAIN queue' : queue'[i] # c /\ st[queue'[i]] = "queued" /\ queue'[i] \in Talkers
        /\ \A i, j \in DOMAIN queue' : queue'[i] = queue'[j] => i = j
    BY <1>1, QueueShifts
  <1> HIDE DEF f, c
  <1>5. row' \in -1 .. user_counter' /\ row' # 0 /\ (row' >= 0 => row' > row)
    <2>1. user_counter' \in 0 .. LIMIT
      BY <1>1, <1>2
    <2> QED
      BY <1>1, <2>1, NextRowType DEF MyInv
  <1>6. st'[c] = "open" /\ \A d \in Talkers \ {c} : st'[d] = st[d]
    BY <1>1, <1>4 DEF MyInv, MyType
  <1>7. owner'[f] = c /\ \A g \in Fds \ {f} : owner'[g] = owner[g]
    BY <1>1, <1>3 DEF MyInv, MyType
  <1>8. /\ fds'[m + 1] = f /\ ~events'[m + 1] /\ revents'[m + 1] = {}
        /\ \A k \in 1 .. m : fds'[k] = fds[k] /\ events'[k] = events[k] /\ revents'[k] = revents[k]
    BY <1>1, <1>2 DEF MyInv, MyType
  <1>9. \A k \in 1 .. m : fds[k] # f
    BY <1>3 DEF MyInv, RowsUsed
  <1>10. c # Null /\ \A g \in Fds : owner[g] # c
    BY <1>4, MyTalkAssumption DEF MyInv, OwnersOpen
  <1>11. MyType'
    <2>1. st' \in [Talkers -> {"idle", "queued", "open", "closed"}] /\ owner' \in [Fds -> Talkers \cup {Null}]
      BY <1>1, <1>4 DEF MyInv, MyType
    <2>2. fds' \in [Rows -> Fds \cup {Null}] /\ events' \in [Rows -> BOOLEAN]
      BY <1>1, <1>3 DEF MyInv, MyType
    <2>3. revents' \in [Rows \cup {0} -> SUBSET Events]
      BY <1>1 DEF MyInv, MyType
    <2>4. user_counter' \in 0 .. LIMIT
      BY <1>1, <1>2
    <2> QED
      BY <1>1, <1>4, <1>5, <2>1, <2>2, <2>3, <2>4 DEF MyInv, MyType
  <1>12. InQueue'
    BY <1>4, <1>5, <1>6 DEF InQueue
  <1>13. RowsUsed'
    BY <1>1, <1>2, <1>3, <1>7, <1>8, <1>9, <1>10 DEF MyInv, RowsUsed
  <1>14. RowsOnce'
    BY <1>1, <1>2, <1>8, <1>9 DEF MyInv, RowsOnce
  <1>15. OwnersOpen'
    <2> SUFFICES ASSUME NEW g \in Fds, owner'[g] # Null
                 PROVE  st'[owner'[g]] = "open" /\ \E k \in 1 .. m + 1 : fds'[k] = g
      BY <1>1 DEF OwnersOpen
    <2>1. CASE g = f
      BY <1>2, <1>6, <1>7, <1>8, <2>1
    <2>2. CASE g # f
      <3>1. owner'[g] = owner[g] /\ owner[g] \in Talkers \ {c}
        BY <1>7, <1>10, <2>2 DEF MyInv, MyType
      <3>2. st[owner[g]] = "open" /\ \E k \in 1 .. m : fds[k] = g
        BY <3>1 DEF MyInv, OwnersOpen
      <3> QED
        BY <1>2, <1>6, <1>8, <3>1, <3>2
    <2> QED
      BY <2>1, <2>2
  <1>16. OwnersOnce'
    BY <1>3, <1>7, <1>10 DEF MyInv, OwnersOnce
  <1>17. OpenOwned'
    <2> SUFFICES ASSUME NEW d \in Talkers, st'[d] = "open" PROVE \E g \in Fds : owner'[g] = d
      BY DEF OpenOwned
    <2>1. CASE d = c
      BY <1>3, <1>7, <2>1
    <2>2. CASE d # c
      <3>1. PICK g \in Fds : owner[g] = d
        BY <1>6, <2>2 DEF MyInv, OpenOwned
      <3>2. g # f
        BY <1>3, <3>1, MyTalkAssumption
      <3> QED
        BY <1>7, <3>1, <3>2
    <2> QED
      BY <2>1, <2>2
  <1>18. StillUnread'
    <2> SUFFICES ASSUME NEW k \in 1 .. m + 1, row' >= 0, k >= row', "in" \in revents'[k], "rdhup" \notin revents'[k]
                 PROVE  data'[owner'[fds'[k]]]
      BY <1>1 DEF StillUnread
    <2>1. k \in 1 .. m /\ k >= row
      BY <1>1, <1>2, <1>8
    <2>2. data[owner[fds[k]]]
      BY <1>1, <1>8, <2>1 DEF MyInv, StillUnread
    <2> QED
      BY <1>1, <1>2, <1>7, <1>8, <1>9, <2>1, <2>2
  <1>19. MytalkWriteBuf'
    BY <1>1, <1>2, <1>8 DEF MyInv, MytalkWriteBuf
  <1> QED
    BY <1>11, <1>12, <1>13, <1>14, <1>15, <1>16, <1>17, <1>18, <1>19 DEF MyInv

(* A connection ends: the last row moves into its place, wherever the loop *)
(* stands, and the row is looked at again.                                 *)
LEMMA RemoveKeeps ==
  ASSUME MyInv, AtRow, RemoveUser, UNCHANGED <<data, eof, err, queue>>
  PROVE  MyInv'
  <1> DEFINE f == fds[row]
             c == owner[f]
             m == user_counter
             From(k) == IF k = row THEN m ELSE k
  <1>1. /\ row \in 1 .. m /\ st' = [st EXCEPT ![c] = "closed"] /\ owner' = [owner EXCEPT ![f] = Null]
        /\ user_counter' = m - 1 /\ row' = (IF row > m - 1 THEN -1 ELSE row)
        /\ write_buf' = [write_buf EXCEPT ![f] = write_buf[fds[m]]] /\ fds' = [fds EXCEPT ![row] = fds[m]]
        /\ events' = [events EXCEPT ![row] = events[m]] /\ revents' = [revents EXCEPT ![row] = revents[m]]
    BY DEF AtRow, RemoveUser, MoveLast, Caller
  <1>2. /\ m \in Nat \ {0} /\ LIMIT \in Nat /\ m <= LIMIT /\ row \in Rows /\ m \in 1 .. m /\ m \in Rows /\ row # 0
        /\ \A k \in 1 .. m : k \in Rows /\ fds[k] \in Fds /\ owner[fds[k]] \in Talkers
    <2>1. /\ m \in Nat /\ LIMIT \in Nat /\ m <= LIMIT
          /\ \A k \in 1 .. m : k \in Rows /\ fds[k] \in Fds /\ owner[fds[k]] \in Talkers
      BY RowTypes DEF MyInv
    <2>2. m \in 1 .. m /\ row \in Int /\ row # 0
      BY <1>1, <2>1
    <2> QED
      BY <1>1, <2>1, <2>2
  <1>3. f \in Fds /\ c \in Talkers /\ c # Null
    BY <1>1, <1>2, MyTalkAssumption
  <1>4. \A k \in 1 .. m - 1 : /\ From(k) \in 1 .. m /\ From(k) # row /\ k \in 1 .. m
                              /\ k >= row => From(k) >= row
                              /\ \A l \in 1 .. m - 1 : From(k) = From(l) => k = l
    BY <1>1, <1>2
  <1>5. \A k \in 1 .. m - 1 : fds'[k] = fds[From(k)] /\ events'[k] = events[From(k)] /\ revents'[k] = revents[From(k)]
    <2>1. \A k \in Rows \ {row} : fds'[k] = fds[k] /\ events'[k] = events[k] /\ revents'[k] = revents[k]
      BY <1>1, <1>2 DEF MyInv, MyType
    <2>2. fds'[row] = fds[m] /\ events'[row] = events[m] /\ revents'[row] = revents[m]
      BY <1>1, <1>2 DEF MyInv, MyType
    <2> QED
      BY <1>2, <1>4, <2>1, <2>2
  <1>6. \A k \in 1 .. m : k # row => \E l \in 1 .. m - 1 : From(l) = k
    <2> SUFFICES ASSUME NEW k \in 1 .. m, k # row PROVE \E l \in 1 .. m - 1 : From(l) = k
      OBVIOUS
    <2>1. CASE k = m
      <3>1. row \in 1 .. m - 1 /\ From(row) = k
        BY <1>1, <1>2, <2>1
      <3> QED
        BY <3>1
    <2>2. CASE k # m
      <3>1. k \in 1 .. m - 1 /\ From(k) = k
        BY <1>2, <2>2
      <3> QED
        BY <3>1
    <2> QED
      BY <2>1, <2>2
  <1>7. \A k \in 1 .. m : k # row => fds[k] # f
    BY <1>1 DEF MyInv, RowsOnce
  <1> HIDE DEF f, c, From
  <1>8. st'[c] = "closed" /\ \A d \in Talkers \ {c} : st'[d] = st[d]
    BY <1>1, <1>3 DEF MyInv, MyType
  <1>9. owner'[f] = Null /\ \A g \in Fds \ {f} : owner'[g] = owner[g] /\ write_buf'[g] = write_buf[g] /\ owner[g] # c
    <2>1. owner'[f] = Null /\ \A g \in Fds \ {f} : owner'[g] = owner[g] /\ write_buf'[g] = write_buf[g]
      BY <1>1, <1>3 DEF MyInv, MyType
    <2>2. \A g \in Fds \ {f} : owner[g] # c
      BY <1>3 DEF MyInv, OwnersOnce, c
    <2> QED
      BY <2>1, <2>2
  <1>10. MyType'
    <2>1. st' \in [Talkers -> {"idle", "queued", "open", "closed"}] /\ owner' \in [Fds -> Talkers \cup {Null}]
      BY <1>1 DEF MyInv, MyType
    <2>2. fds' \in [Rows -> Fds \cup {Null}]
      BY <1>1, <1>2 DEF MyInv, MyType
    <2>3. events' \in [Rows -> BOOLEAN]
      BY <1>1, <1>2 DEF MyInv, MyType
    <2>4. revents' \in [Rows \cup {0} -> SUBSET Events]
      BY <1>1, <1>2 DEF MyInv, MyType
    <2>5. write_buf' \in [Fds -> Fds \cup {Null, Wild}]
      <3>1. fds[m] \in Fds
        BY <1>2
      <3> QED
        BY <1>1, <3>1 DEF MyInv, MyType
    <2>6. user_counter' \in 0 .. LIMIT /\ row' \in -1 .. user_counter'
      BY <1>1, <1>2
    <2> QED
      BY <2>1, <2>2, <2>3, <2>4, <2>5, <2>6 DEF MyInv, MyType
  <1>11. InQueue'
    <2>1. \A i \in DOMAIN queue : queue[i] # c /\ queue[i] \in Talkers
      BY <1>3 DEF MyInv, InQueue, OwnersOpen, MyType, c
    <2>2. row' # 0
      BY <1>1, <1>2
    <2> QED
      BY <1>8, <2>1, <2>2 DEF MyInv, InQueue
  <1>12. RowsUsed' /\ RowsOnce'
    BY <1>1, <1>2, <1>4, <1>5, <1>7, <1>9 DEF MyInv, RowsUsed, RowsOnce
  <1>13. OwnersOpen'
    <2> SUFFICES ASSUME NEW g \in Fds, owner'[g] # Null
                 PROVE  st'[owner'[g]] = "open" /\ \E k \in 1 .. m - 1 : fds'[k] = g
      BY <1>1 DEF OwnersOpen
    <2>1. g # f /\ owner'[g] = owner[g] /\ owner[g] \in Talkers \ {c}
      BY <1>9 DEF MyInv, MyType
    <2>2. PICK k \in 1 .. m : fds[k] = g
      BY <2>1 DEF MyInv, OwnersOpen
    <2>3. st[owner[g]] = "open" /\ k # row
      BY <2>1, <2>2 DEF MyInv, OwnersOpen, f
    <2>4. PICK l \in 1 .. m - 1 : From(l) = k
      BY <1>6, <2>3
    <2> QED
      BY <1>5, <1>8, <2>1, <2>2, <2>3, <2>4
  <1>14. OwnersOnce'
    BY <1>9 DEF MyInv, OwnersOnce
  <1>15. OpenOwned'
    <2> SUFFICES ASSUME NEW d \in Talkers, st'[d] = "open" PROVE \E g \in Fds : owner'[g] = d
      BY DEF OpenOwned
    <2>1. d # c /\ st[d] = "open"
      BY <1>8
    <2>2. PICK g \in Fds : owner[g] = d
      BY <2>1 DEF MyInv, OpenOwned
    <2>3. g # f
      BY <2>1, <2>2 DEF c
    <2> QED
      BY <1>9, <2>2, <2>3
  <1>16. StillUnread'
    <2> SUFFICES ASSUME NEW k \in 1 .. m - 1, row' >= 0, k >= row', "in" \in revents'[k], "rdhup" \notin revents'[k]
                 PROVE  data[owner'[fds'[k]]]
      BY <1>1 DEF StillUnread
    <2>1. k >= row /\ row >= 0
      BY <1>1, <1>2
    <2>2. From(k) \in 1 .. m /\ From(k) # row /\ From(k) >= row
      BY <1>4, <2>1
    <2>3. data[owner[fds[From(k)]]]
      BY <1>5, <2>1, <2>2 DEF MyInv, StillUnread
    <2> QED
      BY <1>2, <1>5, <1>7, <1>9, <2>2, <2>3
  <1>17. MytalkWriteBuf'
    BY <1>1, <1>2, <1>4, <1>5, <1>7, <1>9 DEF MyInv, MytalkWriteBuf
  <1> QED
    BY <1>10, <1>11, <1>12, <1>13, <1>14, <1>15, <1>16, <1>17 DEF MyInv

-----------------------------------------------------------------------------
(* A message: its sender's data is read, and every other row is to write.  *)
LEMMA ReadUserKeeps == ASSUME MyInv, ReadUser PROVE MyInv'
  <1> DEFINE f == fds[row]
             c == owner[f]
             others == {k \in 1 .. user_counter : data[c] /\ fds[k] # f}
  <1>1. /\ row \in 1 .. user_counter /\ data' = [data EXCEPT ![c] = FALSE]
        /\ events' = [k \in Rows |-> events[k] \/ k \in others]
        /\ write_buf' = [g \in Fds |-> IF \E k \in others : fds[k] = g THEN f ELSE write_buf[g]]
        /\ user_counter' = user_counter /\ NextRow
        /\ UNCHANGED <<st, eof, err, queue, fds, revents, owner>>
    BY DEF ReadUser, Readable, AtRow, Caller
  <1>2. /\ user_counter \in Nat /\ LIMIT \in Nat /\ row \in Int /\ row >= 0
        /\ \A k \in 1 .. user_counter : k \in Rows /\ fds[k] \in Fds /\ owner[fds[k]] \in Talkers
    BY <1>1, RowTypes DEF MyInv
  <1>3. row' \in -1 .. user_counter' /\ row' # 0 /\ (row' >= 0 => row' > row)
    BY <1>1, <1>2, NextRowType DEF MyInv, MyType
  <1>4. f \in Fds /\ c \in Talkers /\ c # Null /\ f # Wild
    BY <1>1, <1>2, MyTalkAssumption DEF Fds
  <1>5. \A k \in 1 .. user_counter : k # row => fds[k] # f /\ owner[fds[k]] # c
    <2>1. \A k \in 1 .. user_counter : k # row => fds[k] # f
      BY <1>1 DEF MyInv, RowsOnce
    <2> QED
      BY <1>2, <1>4, <2>1 DEF MyInv, OwnersOnce
  <1>6. \A k \in 1 .. user_counter : k \in others <=> data[c] /\ fds[k] # f
    OBVIOUS
  <1> HIDE DEF f, c, others
  <1>7. MyType'
    <2>1. data' \in [Talkers -> BOOLEAN]
      BY <1>1 DEF MyInv, MyType
    <2>2. events' \in [Rows -> BOOLEAN]
      BY <1>1, Zenon DEF MyInv, MyType
    <2>3. write_buf' \in [Fds -> Fds \cup {Null, Wild}]
      BY <1>1, <1>4 DEF MyInv, MyType
    <2> QED
      BY <1>1, <1>3, <2>1, <2>2, <2>3 DEF MyInv, MyType
  <1>8. InQueue'
    BY <1>1, <1>3 DEF MyInv, InQueue
  <1>9. RowsUsed' /\ RowsOnce' /\ OwnersOpen' /\ OwnersOnce' /\ OpenOwned'
    BY <1>1 DEF MyInv, RowsUsed, RowsOnce, OwnersOpen, OwnersOnce, OpenOwned
  <1>10. StillUnread'
    <2> SUFFICES ASSUME NEW k \in 1 .. user_counter, row' >= 0, k >= row', "in" \in revents[k], "rdhup" \notin revents[k]
                 PROVE  data'[owner[fds[k]]]
      BY <1>1 DEF StillUnread
    <2>1. k # row /\ k >= row
      BY <1>2, <1>3
    <2>2. data[owner[fds[k]]]
      BY <1>2, <2>1 DEF MyInv, StillUnread
    <2>3. owner[fds[k]] \in Talkers /\ owner[fds[k]] # c
      BY <1>2, <1>5, <2>1
    <2> QED
      BY <1>1, <2>2, <2>3 DEF MyInv, MyType
  <1>11. MytalkWriteBuf'
    <2> SUFFICES ASSUME NEW k \in 1 .. user_counter, events'[k] PROVE write_buf'[fds[k]] \notin {fds[k], Wild}
      BY <1>1 DEF MytalkWriteBuf
    <2>1. k \in Rows /\ fds[k] \in Fds
      BY <1>2
    <2>2. events[k] \/ k \in others
      BY <1>1, <2>1, Zenon
    <2>3. CASE k \in others
      BY <1>1, <1>4, <1>6, <2>1, <2>3
    <2>4. CASE k \notin others
      <3>1. \A l \in others : fds[l] # fds[k]
        BY <2>4 DEF others
      <3>2. write_buf'[fds[k]] = write_buf[fds[k]]
        BY <1>1, <2>1, <3>1
      <3> QED
        BY <2>2, <2>4, <3>2 DEF MyInv, MytalkWriteBuf
    <2> QED
      BY <2>3, <2>4
  <1> QED
    BY <1>7, <1>8, <1>9, <1>10, <1>11 DEF MyInv

(* A write: the pointer is cleared. *)
LEMMA WriteOutKeeps == ASSUME MyInv, WriteOut PROVE MyInv'
  <1>1. /\ row \in 1 .. user_counter /\ write_buf' = [write_buf EXCEPT ![fds[row]] = Null]
        /\ user_counter' = user_counter /\ NextRow
        /\ UNCHANGED <<st, data, eof, err, queue, fds, events, revents, owner>>
    BY DEF WriteOut, AtRow, clientVars
  <1>2. /\ user_counter \in Nat /\ LIMIT \in Nat /\ row \in Int /\ row >= 0
        /\ \A k \in 1 .. user_counter : k \in Rows /\ fds[k] \in Fds /\ owner[fds[k]] \in Talkers
    BY <1>1, RowTypes DEF MyInv
  <1>3. row' \in -1 .. user_counter' /\ row' # 0 /\ (row' >= 0 => row' > row)
    BY <1>1, <1>2, NextRowType DEF MyInv, MyType
  <1>4. MyType'
    <2>1. write_buf' \in [Fds -> Fds \cup {Null, Wild}]
      BY <1>1 DEF MyInv, MyType
    <2> QED
      BY <1>1, <1>3, <2>1 DEF MyInv, MyType
  <1>5. InQueue'
    BY <1>1, <1>3 DEF MyInv, InQueue
  <1>6. RowsUsed' /\ RowsOnce' /\ OwnersOpen' /\ OwnersOnce' /\ OpenOwned'
    BY <1>1 DEF MyInv, RowsUsed, RowsOnce, OwnersOpen, OwnersOnce, OpenOwned
  <1>7. StillUnread'
    <2>1. \A k \in 1 .. user_counter : k >= row' /\ row' >= 0 => k >= row
      BY <1>2, <1>3
    <2> QED
      BY <1>1, <1>2, <2>1 DEF MyInv, StillUnread
  <1>8. MytalkWriteBuf'
    <2>1. \A f \in Fds : write_buf'[f] = (IF f = fds[row] THEN Null ELSE write_buf[f])
      BY <1>1 DEF MyInv, MyType
    <2>2. Null \notin Fds /\ Null # Wild
      BY MyTalkAssumption DEF Fds
    <2> QED
      BY <1>1, <1>2, <2>1, <2>2 DEF MyInv, MytalkWriteBuf
  <1> QED
    BY <1>4, <1>5, <1>6, <1>7, <1>8 DEF MyInv

LEMMA MyStep == MyInv /\ [MyNext]_myVars => MyInv'
  <1> SUFFICES ASSUME MyInv, [MyNext]_myVars PROVE MyInv'
    OBVIOUS
  <1>1. CASE Poll
    BY <1>1, PollKeeps
  <1>2. CASE NoAccept \/ QuietRow
    <2>1. /\ row >= 0 /\ user_counter' = user_counter /\ NextRow
          /\ UNCHANGED <<st, data, eof, err, queue, fds, events, revents, owner, write_buf>>
      BY <1>2 DEF NoAccept, QuietRow, AtRow, clientVars
    <2>2. err' \in [Talkers -> BOOLEAN]
      BY <2>1 DEF MyInv, MyType
    <2> QED
      BY <2>1, <2>2, LookKeeps
  <1>3. CASE RefuseUser
    BY <1>3, RefuseKeeps
  <1>4. CASE AcceptUser
    BY <1>4, AcceptUserKeeps
  <1>5. CASE ClearError
    <2>1. /\ row >= 0 /\ user_counter' = user_counter /\ NextRow
          /\ err' = [err EXCEPT ![Caller] = FALSE]
          /\ UNCHANGED <<st, data, eof, queue, fds, events, revents, owner, write_buf>>
      BY <1>5 DEF ClearError, AtRow
    <2>2. err' \in [Talkers -> BOOLEAN]
      BY <2>1 DEF MyInv, MyType
    <2> QED
      BY <2>1, <2>2, LookKeeps
  <1>6. CASE UserLeft \/ ReadFails
    <2>1. AtRow /\ RemoveUser /\ UNCHANGED <<data, eof, err, queue>>
      BY <1>6 DEF UserLeft, ReadFails, Readable
    <2> QED
      BY <2>1, RemoveKeeps
  <1>7. CASE ReadUser
    BY <1>7, ReadUserKeeps
  <1>8. CASE WriteOut
    BY <1>8, WriteOutKeeps
  <1>9. ASSUME NEW c \in Talkers, TalkerConnects(c) \/ TalkerSends(c) \/ TalkerLeaves(c) \/ TalkerResets(c)
        PROVE  MyInv'
    BY <1>9, TalkerKeeps
  <1>10. CASE UNCHANGED myVars
    BY <1>10 DEF myVars, clientVars, pollVars, MyInv, MyType, InQueue, RowsUsed, RowsOnce, OwnersOpen, OwnersOnce,
                 OpenOwned, StillUnread, MytalkWriteBuf
  <1> QED
    BY <1>1, <1>2, <1>3, <1>4, <1>5, <1>6, <1>7, <1>8, <1>9, <1>10 DEF MyNext, MyServer

(* 9-7mytalk_server.cpp, for any USER_LIMIT, clients and messages: the     *)
(* table of poll holds the open connections, each once, though rows are    *)
(* moved and entered under the loop; recv never returns 0; and a row that  *)
(* asks for POLLOUT has a write_buf of another connection or none, never   *)
(* its own buffer or an unset pointer.                                     *)
THEOREM TableKept == MySpec => []MytalkSound
  <1>1. MyInv => MytalkSound
    <2> SUFFICES ASSUME MyInv PROVE MytalkTable
      BY DEF MyInv, MytalkSound
    <2>1. \A k \in 1 .. user_counter : fds[k] \in Fds /\ owner[fds[k]] \in Talkers
      BY RowTypes DEF MyInv
    <2>2. {owner[fds[k]] : k \in 1 .. user_counter} \subseteq {c \in Talkers : st[c] = "open"}
      BY <2>1 DEF MyInv, RowsUsed, OwnersOpen
    <2>3. {c \in Talkers : st[c] = "open"} \subseteq {owner[fds[k]] : k \in 1 .. user_counter}
      <3> SUFFICES ASSUME NEW c \in Talkers, st[c] = "open" PROVE \E k \in 1 .. user_counter : owner[fds[k]] = c
        OBVIOUS
      <3>1. PICK f \in Fds : owner[f] = c
        BY DEF MyInv, OpenOwned
      <3>2. owner[f] # Null
        BY <3>1, MyTalkAssumption
      <3> QED
        BY <3>1, <3>2 DEF MyInv, OwnersOpen
    <2>4. Readable => data[Caller]
      <3>1. Readable => row \in 1 .. user_counter /\ "in" \in revents[row] /\ "rdhup" \notin revents[row]
        BY DEF Readable, AtRow
      <3>2. row \in 1 .. user_counter => row >= 0 /\ row >= row
        OBVIOUS
      <3> QED
        BY <3>1, <3>2 DEF MyInv, StillUnread, Caller
    <2> QED
      BY <2>2, <2>3, <2>4 DEF MyInv, MytalkTable, RowsOnce
  <1> QED
    BY <1>1, MyStart, MyStep, PTL DEF MySpec

-----------------------------------------------------------------------------
(* 13-4shm_talk_server.cpp: the processes that are not yet reaped, and the *)
(* table with them.  users and sub_process are each other's inverse, also  *)
(* read from the side of the rows.                                         *)
Unreaped == {p \in Pids : child[p] # "none"}
ChildSteps == {"none", "start", "check", "wait", "batch", "zombie"}
ShmType ==
    /\ child \in [Pids -> ChildSteps] /\ sub_process \in [Pids -> Int] /\ idx \in [Pids -> Nat]
    /\ users \in [Slots -> Pids \cup {Empty}] /\ user_count \in 0 .. USER_LIMIT
    /\ DOMAIN share_mem = 0 .. USER_LIMIT - 1
RowsUnreaped == \A i \in 0 .. user_count - 1 :
    users[i] \in Pids /\ child[users[i]] # "none" /\ sub_process[users[i]] = i
ShmInv == ShmType /\ RowsUnreaped /\ ShmTable

(* A step that starts and reaps no child and leaves the table alone. *)
LEMMA SameTable ==
  ASSUME ShmInv, UNCHANGED <<tableVars, idx>>, DOMAIN share_mem' = DOMAIN share_mem,
         child' \in [Pids -> ChildSteps],
         \A p \in Pids : child'[p] = child[p] \/ (p \in Live /\ child'[p] # "none")
  PROVE  ShmInv'
  <1>1. Unreaped' = Unreaped
    BY DEF Unreaped, Live
  <1>2. ShmType' /\ RowsUnreaped'
    BY DEF ShmInv, ShmType, RowsUnreaped, tableVars, Live
  <1>3. user_count' = Cardinality(Unreaped')
    BY <1>1 DEF ShmInv, ShmTable, tableVars, Unreaped
  <1>4. \A p \in Pids : child'[p] # "none" =>
            sub_process'[p] \in 0 .. user_count' - 1 /\ users'[sub_process'[p]] = p
    BY DEF ShmInv, ShmTable, tableVars, Live
  <1>5. \A p \in Live' : idx'[p] \in DOMAIN share_mem'
    <2>1. Live' \subseteq Live
      BY DEF Live
    <2> QED
      BY <2>1 DEF ShmInv, ShmTable
  <1> QED
    BY <1>2, <1>3, <1>4, <1>5 DEF ShmInv, ShmTable, Unreaped

LEMMA SameChildren == ASSUME ShmInv, UNCHANGED <<tableVars, idx, child>>, DOMAIN share_mem' = DOMAIN share_mem PROVE ShmInv'
  <1>1. child' \in [Pids -> ChildSteps] /\ UNCHANGED <<tableVars, idx>>
    BY DEF ShmInv, ShmType
  <1>2. \A p \in Pids : child'[p] = child[p]
    OBVIOUS
  <1> QED
    BY <1>1, <1>2, SameTable

LEMMA ShmStart == ShmInit => ShmInv
  <1> SUFFICES ASSUME ShmInit PROVE ShmInv
    OBVIOUS
  <1>1. ShmType /\ RowsUnreaped
    BY ShmAssumption DEF ShmInit, ShmType, RowsUnreaped, ChildSteps
  <1>2. {p \in Pids : child[p] # "none"} = {} /\ Live = {}
    BY DEF ShmInit, Live
  <1> QED
    BY <1>1, <1>2, FS_EmptySet DEF ShmInv, ShmTable, ShmInit

(* The number of processes when one more is there. *)
LEMMA OneMore ==
  ASSUME NEW S, IsFiniteSet(S), NEW x, x \notin S
  PROVE  Cardinality(S \cup {x}) = Cardinality(S) + 1 /\ Cardinality(S) \in Nat
  BY FS_AddElement, FS_CardinalityType

(* As long as there is room in the table there is a pid. *)
LEMMA PidLeft ==
  ASSUME ShmInv, user_count < USER_LIMIT
  PROVE  FreePid \in Pids /\ child[FreePid] = "none"
  <1>1. CASE \A p \in Pids : child[p] # "none"
    <2>1. Unreaped = Pids
      BY <1>1 DEF Unreaped
    <2>2. user_count = Cardinality(Pids) /\ Cardinality(Pids) \in Nat
      BY <2>1, ShmAssumption, FS_CardinalityType DEF ShmInv, ShmTable, Unreaped
    <2> QED
      BY <2>2, ShmAssumption DEF ShmInv, ShmType
  <1>2. CASE \E p \in Pids : child[p] = "none"
    BY <1>2 DEF FreePid
  <1> QED
    BY <1>1, <1>2

LEMMA ForkKeeps == ASSUME ShmInv, AcceptForks PROVE ShmInv'
  <1> DEFINE p == FreePid
  <1>1. /\ p \in Pids /\ child[p] = "none" /\ user_count < USER_LIMIT
        /\ users' = [users EXCEPT ![user_count] = p]
        /\ sub_process' = [sub_process EXCEPT ![p] = user_count]
        /\ user_count' = user_count + 1 /\ child' = [child EXCEPT ![p] = "start"]
        /\ idx' = [idx EXCEPT ![p] = user_count] /\ share_mem' = share_mem
    BY PidLeft DEF AcceptForks, pipeVars
  <1> HIDE DEF p
  <1>2. ShmType
    BY DEF ShmInv
  <1>3. ShmType' /\ USER_LIMIT \in Nat
    BY <1>1, <1>2, ShmAssumption DEF ShmType, ChildSteps, Slots
  <1>4. \A q \in Pids : child[q] # "none" => /\ sub_process[q] \in 0 .. user_count - 1 /\ users[sub_process[q]] = q
    BY DEF ShmInv, ShmTable
  <1>5. RowsUnreaped'
    <2> SUFFICES ASSUME NEW i \in 0 .. user_count' - 1
                 PROVE  users'[i] \in Pids /\ child'[users'[i]] # "none" /\ sub_process'[users'[i]] = i
      BY DEF RowsUnreaped
    <2>1. CASE i = user_count
      BY <1>1, <1>2, <1>3, <2>1 DEF ShmType, Slots
    <2>2. CASE i \in 0 .. user_count - 1
      <3>1. users[i] \in Pids /\ child[users[i]] # "none" /\ sub_process[users[i]] = i
        BY <2>2 DEF ShmInv, RowsUnreaped
      <3>2. users'[i] = users[i] /\ users[i] # p
        BY <1>1, <1>2, <1>3, <2>2, <3>1 DEF ShmType, Slots
      <3> QED
        BY <1>1, <1>2, <3>1, <3>2 DEF ShmType
    <2> QED
      BY <1>1, <1>2, <2>1, <2>2 DEF ShmType
  <1>6. user_count' = Cardinality(Unreaped')
    <2>1. Unreaped' = Unreaped \cup {p} /\ p \notin Unreaped
      BY <1>1, <1>2 DEF Unreaped, ShmType
    <2>2. IsFiniteSet(Unreaped)
      BY ShmAssumption, FS_Subset DEF Unreaped
    <2>3. user_count = Cardinality(Unreaped)
      BY DEF ShmInv, ShmTable, Unreaped
    <2> QED
      BY <1>1, <2>1, <2>2, <2>3, OneMore
  <1>7. \A q \in Pids : child'[q] # "none" =>
            sub_process'[q] \in 0 .. user_count' - 1 /\ users'[sub_process'[q]] = q
    <2> SUFFICES ASSUME NEW q \in Pids, child'[q] # "none"
                 PROVE  sub_process'[q] \in 0 .. user_count' - 1 /\ users'[sub_process'[q]] = q
      OBVIOUS
    <2>1. CASE q = p
      BY <1>1, <1>2, <1>3, <2>1 DEF ShmType, Slots
    <2>2. CASE q # p
      BY <1>1, <1>2, <1>3, <1>4, <2>2 DEF ShmType, Slots
    <2> QED
      BY <2>1, <2>2
  <1>8. \A q \in Live' : idx'[q] \in DOMAIN share_mem'
    <2> SUFFICES ASSUME NEW q \in Live' PROVE idx'[q] \in DOMAIN share_mem'
      OBVIOUS
    <2>1. CASE q = p
      BY <1>1, <1>2, <1>3, <2>1 DEF ShmType
    <2>2. CASE q # p
      <3>1. q \in Live
        BY <1>1, <1>2, <2>2 DEF Live, ShmType
      <3> QED
        BY <1>1, <1>2, <2>2, <3>1 DEF ShmInv, ShmTable, ShmType, Live
    <2> QED
      BY <2>1, <2>2
  <1> QED
    BY <1>3, <1>5, <1>6, <1>7, <1>8 DEF ShmInv, ShmTable, Unreaped

LEMMA ReapKeeps == ASSUME ShmInv, NEW p \in Pids, Reap(p) PROVE ShmInv'
  <1> DEFINE del == sub_process[p]
             q == users[user_count - 1]
  <1>1. ShmType /\ USER_LIMIT \in Nat /\ child[p] = "zombie" /\ child' = [child EXCEPT ![p] = "none"]
        /\ idx' = idx /\ share_mem' = share_mem
    BY ShmAssumption DEF ShmInv, Reap, Zombies
  <1>2. \A r \in Pids : child[r] # "none" => /\ sub_process[r] \in 0 .. user_count - 1 /\ users[sub_process[r]] = r
    BY DEF ShmInv, ShmTable
  <1>3. del \in 0 .. user_count - 1 /\ users[del] = p /\ user_count - 1 \in 0 .. user_count - 1
    BY <1>1, <1>2 DEF ShmType
  <1>4. ~(sub_process[p] < 0 \/ sub_process[p] > USER_LIMIT)
    BY <1>1, <1>3 DEF ShmType
  <1>5. DropUser(p)
    BY <1>4 DEF Reap
  <1>6. q \in Pids /\ child[q] # "none" /\ sub_process[q] = user_count - 1
    BY <1>3 DEF ShmInv, RowsUnreaped
  <1>7. /\ users' = [users EXCEPT ![del] = q] /\ user_count' = user_count - 1 /\ users'[del] = q
        /\ sub_process' = [sub_process EXCEPT ![p] = -1, ![q] = del]
    <2>1. users' = [users EXCEPT ![del] = q] /\ user_count' = user_count - 1
          /\ sub_process' = [sub_process EXCEPT ![p] = -1, ![users'[del]] = del]
      BY <1>5 DEF DropUser
    <2>2. users'[del] = q
      BY <1>1, <1>3, <2>1 DEF ShmType, Slots
    <2> QED
      BY <2>1, <2>2
  <1> HIDE DEF q, del
  <1>8. ShmType'
    BY <1>1, <1>3, <1>6, <1>7 DEF ShmType, ChildSteps, Slots
  <1>9. RowsUnreaped'
    <2> SUFFICES ASSUME NEW i \in 0 .. user_count' - 1
                 PROVE  users'[i] \in Pids /\ child'[users'[i]] # "none" /\ sub_process'[users'[i]] = i
      BY DEF RowsUnreaped
    <2>1. i \in 0 .. user_count - 1 /\ i # user_count - 1 /\ i \in Slots
      BY <1>1, <1>7 DEF ShmType, Slots
    <2>2. CASE i = del
      <3>1. q # p
        BY <1>3, <1>6, <2>1, <2>2 DEF del
      <3> QED
        BY <1>1, <1>6, <1>7, <2>1, <2>2, <3>1 DEF ShmType
    <2>3. CASE i # del
      <3>1. users[i] \in Pids /\ child[users[i]] # "none" /\ sub_process[users[i]] = i
        BY <2>1 DEF ShmInv, RowsUnreaped
      <3>2. users[i] # p /\ users[i] # q
        BY <1>6, <2>1, <2>3, <3>1 DEF del
      <3> QED
        BY <1>1, <1>7, <2>1, <2>3, <3>1, <3>2 DEF ShmType
    <2> QED
      BY <2>2, <2>3
  <1>10. user_count' = Cardinality(Unreaped')
    <2>1. Unreaped = Unreaped' \cup {p} /\ p \notin Unreaped'
      BY <1>1 DEF Unreaped, ShmType
    <2>2. IsFiniteSet(Unreaped')
      BY ShmAssumption, FS_Subset DEF Unreaped
    <2>3. user_count = Cardinality(Unreaped)
      BY DEF ShmInv, ShmTable, Unreaped
    <2>4. Cardinality(Unreaped' \cup {p}) = Cardinality(Unreaped') + 1 /\ Cardinality(Unreaped') \in Nat
      BY <2>1, <2>2, OneMore
    <2> QED
      BY <1>7, <2>1, <2>3, <2>4
  <1>11. \A r \in Pids : child'[r] # "none" =>
            sub_process'[r] \in 0 .. user_count' - 1 /\ users'[sub_process'[r]] = r
    <2> SUFFICES ASSUME NEW r \in Pids, child'[r] # "none"
                 PROVE  sub_process'[r] \in 0 .. user_count' - 1 /\ users'[sub_process'[r]] = r
      OBVIOUS
    <2>1. r # p /\ child[r] # "none"
      BY <1>1 DEF ShmType
    <2>2. sub_process[r] \in 0 .. user_count - 1 /\ users[sub_process[r]] = r
      BY <1>2, <2>1
    <2>3. CASE r = q
      <3>1. del # user_count - 1
        BY <1>3, <2>1, <2>3 DEF q
      <3> QED
        BY <1>1, <1>3, <1>7, <2>3, <3>1 DEF ShmType
    <2>4. CASE r # q
      <3>1. sub_process[r] # del /\ sub_process[r] # user_count - 1
        BY <1>3, <2>1, <2>2, <2>4 DEF q
      <3>2. sub_process'[r] = sub_process[r] /\ sub_process[r] \in Slots
        BY <1>1, <1>7, <2>1, <2>2, <2>4 DEF ShmType, Slots
      <3> QED
        BY <1>1, <1>7, <2>2, <3>1, <3>2 DEF ShmType
    <2> QED
      BY <2>3, <2>4
  <1>12. \A r \in Live' : idx'[r] \in DOMAIN share_mem'
    <2>1. Live' \subseteq Live
      BY <1>1 DEF Live, ShmType
    <2> QED
      BY <1>1, <2>1 DEF ShmInv, ShmTable
  <1> QED
    BY <1>8, <1>9, <1>10, <1>11, <1>12 DEF ShmInv, ShmTable, Unreaped

(* The parent's other steps and the signals. *)
LEMMA ParentKeeps ==
  ASSUME ShmInv, \/ ParentWait \/ AcceptNone \/ AcceptCloses \/ ReadSignals \/ ReapedAll \/ KillChildren
                 \/ ChldHandler \/ UserTerm \/ \E p \in Pids : Relay(p)
  PROVE  ShmInv'
  <1>1. UNCHANGED <<tableVars, idx, child, share_mem>>
    BY DEF ParentWait, AcceptNone, AcceptCloses, ReadSignals, ReapedAll, KillChildren, ChldHandler, UserTerm, Relay,
           childVars, pipeVars
  <1> QED
    BY <1>1, SameChildren

(* A child's step, or a signal for it, moves that child alone. *)
LEMMA ChildKeeps == ASSUME ShmInv, NEW p \in Pids, ShmChild(p) \/ ChildSignal(p) PROVE ShmInv'
  <1>1. UNCHANGED <<tableVars, idx>> /\ DOMAIN share_mem' = DOMAIN share_mem
    BY DEF ShmChild, ChildSignal, ChildSetup, ChildCheck, ChildExit, ChildWait, FromClient, ToClient, parentVars, pipeVars
  <1>2. ASSUME NEW step \in ChildSteps \ {"none"}, p \in Live, child' = [child EXCEPT ![p] = step] PROVE ShmInv'
    <2>1. child' \in [Pids -> ChildSteps] /\ child'[p] # "none" /\ \A q \in Pids \ {p} : child'[q] = child[q]
      BY <1>2 DEF ShmInv, ShmType
    <2>2. \A q \in Pids : child'[q] = child[q] \/ (q \in Live /\ child'[q] # "none")
      BY <1>2, <2>1
    <2> QED
      BY <1>1, <2>1, <2>2, SameTable
  <1>3. CASE child' = child
    BY <1>1, <1>3, SameChildren
  <1>4. CASE ChildSetup(p)
    BY <1>2, <1>4 DEF ChildSetup, ChildSteps, Live
  <1>5. CASE ChildCheck(p)
    BY <1>2, <1>5 DEF ChildCheck, ChildSteps, Live
  <1>6. CASE ChildExit(p)
    BY <1>2, <1>6 DEF ChildExit, ChildSteps, Live
  <1>7. CASE ChildWait(p)
    BY <1>2, <1>7 DEF ChildWait, ChildSteps, Live
  <1>8. ASSUME NEW e, ChildHandles(p, e) PROVE ShmInv'
    <2>1. CASE cbatch[p] = {e}
      BY <1>2, <1>8, <2>1 DEF ChildHandles, ChildSteps, Live
    <2>2. CASE cbatch[p] # {e}
      BY <1>2, <1>8, <2>2 DEF ChildHandles, ChildSteps, Live
    <2> QED
      BY <2>1, <2>2
  <1>9. CASE FromClient(p) \/ ToClient(p)
    BY <1>8, <1>9 DEF FromClient, ToClient
  <1>10. CASE ChildSignal(p)
    <2>1. CASE child[p] = "wait" /\ child' = [child EXCEPT ![p] = "check"]
      BY <1>2, <1>10, <2>1 DEF ChildSignal, ChildSteps, Live
    <2>2. child' = child \/ child' = [child EXCEPT ![p] = IF @ = "wait" THEN "check" ELSE @]
      BY <1>10 DEF ChildSignal
    <2>3. CASE child[p] # "wait" /\ child' = [child EXCEPT ![p] = child[p]]
      <3>1. child' = child
        BY <2>3 DEF ShmInv, ShmType
      <3> QED
        BY <1>3, <3>1
    <2> QED
      BY <1>3, <2>1, <2>2, <2>3
  <1> QED
    BY <1>4, <1>5, <1>6, <1>7, <1>9, <1>10 DEF ShmChild

LEMMA ShmStep == ShmInv /\ [ShmNext]_shmVars => ShmInv'
  <1> SUFFICES ASSUME ShmInv, [ShmNext]_shmVars PROVE ShmInv'
    OBVIOUS
  <1>1. CASE UNCHANGED shmVars
    BY <1>1, SameChildren DEF shmVars, parentVars, childVars, pipeVars
  <1>2. ASSUME NEW c \in Conns, Connect(c) \/ ClientSend(c) \/ ClientClose(c) PROVE ShmInv'
    <2>1. UNCHANGED <<tableVars, idx, child, share_mem>>
      BY <1>2 DEF Connect, ClientSend, ClientClose, parentVars, childVars, pipeVars
    <2> QED
      BY <2>1, SameChildren
  <1> QED
    BY <1>1, <1>2, ParentKeeps, ChildKeeps, ForkKeeps, ReapKeeps DEF ShmNext, ShmParent

(* 13-4shm_talk_server.cpp, for any USER_LIMIT, clients and at least as    *)
(* many pids as the table has places: in whatever order children exit and  *)
(* are reaped, users and sub_process stay each other's inverse over the    *)
(* processes not yet reaped, and every child has a segment that exists.    *)
THEOREM UsersKept == ShmSpec => []ShmTable
  <1>1. ShmInv => ShmTable
    BY DEF ShmInv
  <1> QED
    BY <1>1, ShmStart, ShmStep, PTL DEF ShmSpec

-----------------------------------------------------------------------------
(* sds.                                                                    *)
Bytes == 0 .. 255
Cells == Bytes \cup {Junk}
Str == [type : 0 .. 4, len : Nat, alloc : Nat, buf : Seq(Cells), wild : BOOLEAN]
Holds(type, n) == type # 4 => n < <<Limit5, Limit8, Limit16, Limit32>>[type + 1]

(* A string within its memory; and terminated. *)
Sized(x) == x \in Str /\ ~x.wild /\ x.len <= sdsalloc(x) /\ sdsalloc(x) < Len(x.buf) /\ Holds(x.type, sdsalloc(x))
Loose(x) == Sized(x) /\ \A i \in 1 .. x.len : x.buf[i] \in Bytes
Fits(x) == Loose(x) /\ x.buf[x.len + 1] = 0

LEMMA Limits ==
  /\ Limit5 \in Nat \ {0} /\ Limit8 \in Nat \ {0} /\ Limit16 \in Nat \ {0} /\ Limit32 \in Nat \ {0}
  /\ Limit5 < Limit8 /\ Limit8 < Limit16 /\ Limit16 < Limit32 /\ Junk \notin Bytes
BY SdsAssumption DEF Bytes

LEMMA FieldHolds ==
  ASSUME NEW type \in 0 .. 4, NEW n \in Nat, Holds(type, n)
  PROVE  Field(type, n) = n
  <1>1. CASE type = 4
    BY <1>1 DEF Field
  <1>2. CASE type # 4
    <2> DEFINE l == <<Limit5, Limit8, Limit16, Limit32>>[type + 1]
    <2>1. l \in Nat \ {0} /\ n < l
      <3>1. type \in {0, 1, 2, 3}
        BY <1>2
      <3> QED
        BY <1>2, <3>1, Limits DEF Holds
    <2>2. Field(type, n) = n % l
      BY <1>2 DEF Field
    <2> HIDE DEF l
    <2>3. n % l = n
      BY <2>1
    <2> QED
      BY <2>2, <2>3
  <1> QED
    BY <1>1, <1>2

LEMMA HoldsLess ==
  ASSUME NEW type \in 0 .. 4, NEW n \in Nat, NEW m \in Nat, m <= n, Holds(type, n)
  PROVE  Holds(type, m)
  <1>1. CASE type = 4
    BY <1>1 DEF Holds
  <1>2. CASE type # 4
    <2>1. type \in {0, 1, 2, 3}
      BY <1>2
    <2> QED
      BY <1>2, <2>1, Limits DEF Holds
  <1> QED
    BY <1>1, <1>2

LEMMA ReqType == ASSUME NEW n \in Nat PROVE sdsReqType(n) \in 0 .. 4 /\ Holds(sdsReqType(n), n)
BY Limits DEF sdsReqType, Holds

LEMMA SetLenIs ==
  ASSUME NEW x \in Str, NEW n \in Nat, Holds(x.type, n)
  PROVE  LET y == sdssetlen(x, n) IN
         y \in Str /\ y.len = n /\ y.type = x.type /\ y.alloc = x.alloc /\ y.buf = x.buf /\ y.wild = x.wild
  <1>1. Field(x.type, n) = n
    BY FieldHolds DEF Str
  <1>2. sdssetlen(x, n) = [x EXCEPT !.len = n]
    BY <1>1 DEF sdssetlen
  <1> QED
    BY <1>2 DEF Str

LEMMA SetAllocIs ==
  ASSUME NEW x \in Str, NEW n \in Nat, Holds(x.type, n)
  PROVE  LET y == sdssetalloc(x, n) IN
         /\ y \in Str /\ y.len = x.len /\ y.type = x.type /\ y.buf = x.buf /\ y.wild = x.wild
         /\ y.alloc = IF x.type = 0 THEN 0 ELSE n
  <1>1. Field(x.type, n) = n
    BY FieldHolds DEF Str
  <1>2. sdssetalloc(x, n) = [x EXCEPT !.alloc = IF x.type = 0 THEN 0 ELSE n]
    BY <1>1 DEF sdssetalloc
  <1> QED
    BY <1>2 DEF Str

LEMMA PutIs ==
  ASSUME NEW x \in Str, ~x.wild, NEW at \in Nat, NEW bytes \in Seq(Cells), at + Len(bytes) <= Len(x.buf)
  PROVE  LET y == Put(x, at, bytes) IN
         /\ y \in Str /\ y.len = x.len /\ y.type = x.type /\ y.alloc = x.alloc /\ ~y.wild
         /\ Len(y.buf) = Len(x.buf)
         /\ \A i \in 1 .. Len(x.buf) : y.buf[i] = IF at < i /\ i <= at + Len(bytes) THEN bytes[i - at] ELSE x.buf[i]
  <1> DEFINE b == x.buf
             n == Len(b)
             c == [i \in 1 .. n |-> IF i - at \in DOMAIN bytes THEN bytes[i - at] ELSE b[i]]
             y == Put(x, at, bytes)
  <1>1. b \in Seq(Cells) /\ n \in Nat /\ DOMAIN b = 1 .. n /\ x.wild \in BOOLEAN /\ DOMAIN bytes = 1 .. Len(bytes)
    BY DEF Str
  <1>2. ~(at + Len(bytes) > Len(x.buf))
    BY <1>1
  <1>3. y = [x EXCEPT !.buf = c, !.wild = x.wild \/ at + Len(bytes) > Len(x.buf)]
    BY <1>1 DEF Put
  <1>4. (x.wild \/ at + Len(bytes) > Len(x.buf)) = FALSE
    BY <1>2
  <1>5. y = [x EXCEPT !.buf = c, !.wild = FALSE]
    BY <1>3, <1>4, Zenon
  <1> HIDE DEF n
  <1>6. c \in Seq(Cells) /\ Len(c) = n
    <2>1. \A i \in 1 .. n : (IF i - at \in DOMAIN bytes THEN bytes[i - at] ELSE b[i]) \in Cells
      BY <1>1
    <2>2. c \in [1 .. n -> Cells]
      BY <2>1
    <2> QED
      BY <1>1, <2>2
  <1>7. \A i \in 1 .. n : c[i] = IF at < i /\ i <= at + Len(bytes) THEN bytes[i - at] ELSE b[i]
    BY <1>1
  <1> HIDE DEF c, y, b
  <1>8. y \in Str /\ y.len = x.len /\ y.type = x.type /\ y.alloc = x.alloc /\ ~y.wild /\ y.buf = c
    BY <1>5, <1>6 DEF Str
  <1> QED
    BY <1>6, <1>7, <1>8 DEF y, n, b

(* x[n] = '\0': what is behind is forgotten. *)
LEMMA CloseIs ==
  ASSUME NEW x \in Str, ~x.wild, NEW n \in Nat, n < Len(x.buf)
  PROVE  LET y == Close(x, n) IN
         /\ y \in Str /\ y.len = x.len /\ y.type = x.type /\ y.alloc = x.alloc /\ ~y.wild
         /\ Len(y.buf) = Len(x.buf) /\ y.buf[n + 1] = 0
         /\ \A i \in 1 .. n : y.buf[i] = x.buf[i]
  <1> DEFINE z == Put(x, n, <<0>>)
             m == Len(x.buf)
             c == [i \in 1 .. m |-> IF i > n + 1 THEN Junk ELSE z.buf[i]]
             y == Close(x, n)
  <1>1. m \in Nat /\ n + 1 \in 1 .. m
    BY DEF Str
  <1>2. <<0>> \in Seq(Cells) /\ Len(<<0>>) = 1 /\ <<0>>[1] = 0
    BY DEF Cells, Bytes
  <1>3. /\ z \in Str /\ z.len = x.len /\ z.type = x.type /\ z.alloc = x.alloc /\ ~z.wild /\ Len(z.buf) = m
        /\ \A i \in 1 .. m : z.buf[i] = IF n < i /\ i <= n + 1 THEN <<0>>[i - n] ELSE x.buf[i]
    <2> DEFINE one == <<0>>
    <2>1. one \in Seq(Cells) /\ Len(one) = 1 /\ n + Len(one) <= Len(x.buf)
      BY <1>1, <1>2
    <2> HIDE DEF one
    <2>2. LET w == Put(x, n, one) IN
          /\ w \in Str /\ w.len = x.len /\ w.type = x.type /\ w.alloc = x.alloc /\ ~w.wild /\ Len(w.buf) = Len(x.buf)
          /\ \A i \in 1 .. Len(x.buf) : w.buf[i] = IF n < i /\ i <= n + Len(one) THEN one[i - n] ELSE x.buf[i]
      BY <2>1, PutIs
    <2> QED
      BY <2>1, <2>2 DEF one
  <1>4. z.buf[n + 1] = 0
    <2>1. (n + 1) - n = 1
      OBVIOUS
    <2> QED
      BY <1>1, <1>2, <1>3, <2>1
  <1>5. \A i \in 1 .. n : z.buf[i] = x.buf[i] /\ i \in 1 .. m
    BY <1>1, <1>3
  <1>6. DOMAIN z.buf = 1 .. m /\ \A i \in 1 .. m : z.buf[i] \in Cells
    <2>1. z.buf \in Seq(Cells)
      BY <1>3 DEF Str
    <2> QED
      BY <1>3, <2>1
  <1>7. y = [z EXCEPT !.buf = c]
    BY <1>6 DEF Close
  <1> HIDE DEF z, m
  <1>8. c \in Seq(Cells) /\ Len(c) = m /\ c[n + 1] = 0 /\ \A i \in 1 .. n : c[i] = x.buf[i]
    <2>1. c \in [1 .. m -> Cells]
      BY <1>6 DEF Cells
    <2>2. c[n + 1] = z.buf[n + 1]
      BY <1>1
    <2>3. ASSUME NEW i \in 1 .. n PROVE c[i] = x.buf[i]
      <3>1. i \in 1 .. m /\ ~(i > n + 1)
        BY <1>5
      <3> QED
        BY <1>5, <3>1
    <2>4. c[n + 1] = 0
      BY <1>4, <2>2
    <2> HIDE DEF c
    <2>5. c \in Seq(Cells) /\ Len(c) = m
      BY <1>1, <2>1
    <2> QED
      BY <2>3, <2>4, <2>5
  <1> HIDE DEF c, y
  <1>9. y \in Str /\ y.len = z.len /\ y.type = z.type /\ y.alloc = z.alloc /\ y.wild = z.wild /\ y.buf = c
    BY <1>3, <1>7, <1>8 DEF Str
  <1> QED
    BY <1>3, <1>8, <1>9 DEF m, y

(* What the library does last: a length within the free space, a text and  *)
(* its terminator.                                                         *)
LEMMA Settled ==
  ASSUME NEW y, Sized(y), NEW n \in Nat, n <= sdsalloc(y), NEW r \in Str, r.type = y.type, r.alloc = y.alloc,
         ~r.wild, Len(r.buf) = Len(y.buf), r.len = n, \A i \in 1 .. n : r.buf[i] \in Bytes, r.buf[n + 1] = 0
  PROVE  Fits(r)
  <1>1. y \in Str /\ sdsalloc(y) \in Nat /\ sdsalloc(y) < Len(y.buf) /\ Holds(y.type, sdsalloc(y)) /\ Len(y.buf) \in Nat
    BY DEF Sized, Str, sdsalloc
  <1>2. sdsalloc(r) = (IF r.type = 0 THEN n ELSE sdsalloc(y)) /\ sdsalloc(r) \in Nat /\ sdsalloc(r) <= sdsalloc(y)
    BY <1>1 DEF sdsalloc
  <1>3. Holds(r.type, sdsalloc(r))
    <2>1. y.type \in 0 .. 4
      BY <1>1 DEF Str
    <2> QED
      BY <1>1, <1>2, <2>1, HoldsLess
  <1> QED
    BY <1>1, <1>2, <1>3 DEF Fits, Loose, Sized

LEMMA Within ==
  ASSUME NEW y, Sized(y), NEW n \in Nat, n <= sdsalloc(y)
  PROVE  /\ y \in Str /\ ~y.wild /\ n < Len(y.buf) /\ Holds(y.type, n) /\ sdsalloc(y) \in Nat /\ y.len \in Nat
         /\ Len(y.buf) \in Nat
  <1>1. y \in Str /\ sdsalloc(y) \in Nat /\ sdsalloc(y) < Len(y.buf) /\ Holds(y.type, sdsalloc(y)) /\ Len(y.buf) \in Nat
        /\ y.type \in 0 .. 4
    BY DEF Sized, Str, sdsalloc
  <1>2. Holds(y.type, n)
    BY <1>1, HoldsLess
  <1> QED
    BY <1>1, <1>2 DEF Sized, Str

Like(z, y) == z \in Str /\ z.type = y.type /\ z.alloc = y.alloc /\ ~z.wild /\ Len(z.buf) = Len(y.buf)

(* A length is set and the text closed behind it, in either order. *)
LEMMA SetAndClose ==
  ASSUME NEW y, Sized(y), NEW n \in Nat, n <= sdsalloc(y), NEW z, Like(z, y), \A i \in 1 .. n : z.buf[i] \in Bytes
  PROVE  Fits(Close(sdssetlen(z, n), n)) /\ Fits(sdssetlen(Close(z, n), n))
  <1>1. z \in Str /\ ~z.wild /\ n < Len(z.buf) /\ Holds(z.type, n)
    BY Within DEF Like
  <1>2. Fits(Close(sdssetlen(z, n), n))
    <2> DEFINE a == sdssetlen(z, n)
               r == Close(a, n)
    <2>1. a \in Str /\ a.len = n /\ a.type = z.type /\ a.alloc = z.alloc /\ a.buf = z.buf /\ a.wild = z.wild
      BY <1>1, SetLenIs
    <2> HIDE DEF a
    <2>2. /\ r \in Str /\ r.len = a.len /\ r.type = a.type /\ r.alloc = a.alloc /\ ~r.wild
          /\ Len(r.buf) = Len(a.buf) /\ r.buf[n + 1] = 0 /\ \A i \in 1 .. n : r.buf[i] = a.buf[i]
      BY <1>1, <2>1, CloseIs
    <2> HIDE DEF r
    <2>3. r.type = y.type /\ r.alloc = y.alloc /\ Len(r.buf) = Len(y.buf) /\ \A i \in 1 .. n : r.buf[i] \in Bytes
      BY <2>1, <2>2 DEF Like
    <2>4. Fits(r)
      BY <2>1, <2>2, <2>3, Settled
    <2> QED
      BY <2>4 DEF r, a
  <1>3. Fits(sdssetlen(Close(z, n), n))
    <2> DEFINE a == Close(z, n)
               r == sdssetlen(a, n)
    <2>1. /\ a \in Str /\ a.type = z.type /\ a.alloc = z.alloc /\ ~a.wild
          /\ Len(a.buf) = Len(z.buf) /\ a.buf[n + 1] = 0 /\ \A i \in 1 .. n : a.buf[i] = z.buf[i]
      BY <1>1, CloseIs
    <2> HIDE DEF a
    <2>2. r \in Str /\ r.len = n /\ r.type = a.type /\ r.alloc = a.alloc /\ r.buf = a.buf /\ r.wild = a.wild
      BY <1>1, <2>1, SetLenIs
    <2> HIDE DEF r
    <2>3. /\ r.type = y.type /\ r.alloc = y.alloc /\ Len(r.buf) = Len(y.buf) /\ ~r.wild
          /\ r.buf[n + 1] = 0 /\ \A i \in 1 .. n : r.buf[i] \in Bytes
      BY <2>1, <2>2 DEF Like
    <2>4. Fits(r)
      BY <2>2, <2>3, Settled
    <2> QED
      BY <2>4 DEF r, a
  <1> QED
    BY <1>2, <1>3

(* A text is put behind the first at bytes of the string, where the free   *)
(* space has room for it.                                                  *)
LEMMA PutText ==
  ASSUME NEW y, Sized(y), NEW at \in Nat, \A i \in 1 .. at : y.buf[i] \in Bytes, NEW t \in Seq(Bytes),
         at + Len(t) <= sdsalloc(y)
  PROVE  LET z == Put(y, at, t) IN
         /\ Like(z, y) /\ z.len = y.len /\ \A i \in 1 .. at + Len(t) : z.buf[i] \in Bytes
  <1> DEFINE z == Put(y, at, t)
             n == at + Len(t)
  <1>1. n \in Nat /\ t \in Seq(Cells) /\ \A i \in 1 .. Len(t) : t[i] \in Bytes
    <2>1. \A i \in 1 .. Len(t) : t[i] \in Bytes /\ t[i] \in Cells
      BY DEF Cells
    <2>2. t \in [1 .. Len(t) -> Cells]
      BY <2>1
    <2> QED
      BY <2>1, <2>2
  <1>2. y \in Str /\ ~y.wild /\ n < Len(y.buf) /\ y.len \in Nat /\ Len(y.buf) \in Nat
    BY <1>1, Within
  <1>3. /\ z \in Str /\ z.len = y.len /\ z.type = y.type /\ z.alloc = y.alloc /\ ~z.wild /\ Len(z.buf) = Len(y.buf)
        /\ \A i \in 1 .. Len(y.buf) : z.buf[i] = IF at < i /\ i <= at + Len(t) THEN t[i - at] ELSE y.buf[i]
    BY <1>1, <1>2, PutIs
  <1> HIDE DEF z
  <1>4. ASSUME NEW i \in 1 .. n PROVE z.buf[i] \in Bytes
    <2>1. i \in 1 .. Len(y.buf) /\ i \in Nat
      BY <1>1, <1>2
    <2>2. CASE at < i
      <3>1. i - at \in 1 .. Len(t)
        BY <1>1, <2>1, <2>2
      <3>2. z.buf[i] = t[i - at]
        BY <1>1, <1>3, <2>1, <2>2
      <3> QED
        BY <1>1, <3>1, <3>2
    <2>3. CASE ~(at < i)
      <3>1. i \in 1 .. at
        BY <1>2, <2>1, <2>3
      <3>2. z.buf[i] = y.buf[i]
        BY <1>3, <2>1, <2>3
      <3> QED
        BY <3>1, <3>2
    <2> QED
      BY <2>2, <2>3
  <1> QED
    BY <1>3, <1>4 DEF Like, z, n

(* Room is made without touching the text or its terminator. *)
LEMMA RoomIs ==
  ASSUME NEW x, Loose(x), NEW addlen \in Nat
  PROVE  LET y == sdsMakeRoomFor(x, addlen) IN
         /\ Loose(y) /\ y.len = x.len /\ x.len + addlen <= sdsalloc(y)
         /\ \A i \in 1 .. x.len + 1 : y.buf[i] = x.buf[i]
  <1> DEFINE reqlen == x.len + addlen
             newlen == IF reqlen < SDS_MAX_PREALLOC THEN 2 * reqlen ELSE reqlen + SDS_MAX_PREALLOC
             need == sdsReqType(newlen)
             type == IF need = 0 THEN 1 ELSE need
             b == [i \in 1 .. newlen + 1 |-> IF i <= x.len + 1 /\ i \in DOMAIN x.buf THEN x.buf[i] ELSE Junk]
             y == [x EXCEPT !.type = type, !.buf = b]
             r == sdssetalloc(sdssetlen(y, x.len), newlen)
             R == sdsMakeRoomFor(x, addlen)
  <1>1. /\ x \in Str /\ ~x.wild /\ x.len \in Nat /\ sdsalloc(x) \in Nat /\ x.len <= sdsalloc(x) /\ sdsalloc(x) < Len(x.buf)
        /\ Len(x.buf) \in Nat /\ DOMAIN x.buf = 1 .. Len(x.buf) /\ \A i \in 1 .. Len(x.buf) : x.buf[i] \in Cells
    <2>1. x \in Str /\ x.len \in Nat /\ x.buf \in Seq(Cells) /\ sdsalloc(x) \in Nat
      BY DEF Loose, Sized, Str, sdsalloc
    <2> QED
      BY <2>1 DEF Loose, Sized
  <1>2. R = IF sdsavail(x) >= addlen THEN x ELSE r
    BY DEF sdsMakeRoomFor
  <1>3. CASE sdsavail(x) >= addlen
    <2>1. x.len + addlen <= sdsalloc(x)
      BY <1>1, <1>3 DEF sdsavail, sdsalloc
    <2> QED
      BY <1>2, <1>3, <2>1
  <1>4. CASE ~(sdsavail(x) >= addlen)
    <2>1. newlen \in Nat /\ reqlen <= newlen /\ reqlen \in Nat /\ x.len <= newlen
      <3>1. SDS_MAX_PREALLOC \in Nat
        BY SdsAssumption
      <3>2. reqlen \in Nat /\ x.len <= reqlen
        BY <1>1
      <3> HIDE DEF reqlen
      <3>3. newlen \in Nat /\ reqlen <= newlen
        BY <3>1, <3>2
      <3> HIDE DEF newlen
      <3> QED
        BY <1>1, <3>2, <3>3
    <2>2. type \in 1 .. 4 /\ Holds(type, newlen)
      <3> HIDE DEF newlen
      <3>1. need \in 0 .. 4 /\ Holds(need, newlen)
        BY <2>1, ReqType
      <3> HIDE DEF need
      <3>2. need = 0 => Holds(1, newlen)
        BY <2>1, <3>1, Limits DEF Holds
      <3> QED
        BY <3>1, <3>2
    <2> HIDE DEF type
    <2>3. b \in Seq(Cells) /\ Len(b) = newlen + 1 /\ \A i \in 1 .. x.len + 1 : b[i] = x.buf[i]
      <3> HIDE DEF newlen
      <3>1. \A i \in 1 .. newlen + 1 : (IF i <= x.len + 1 /\ i \in DOMAIN x.buf THEN x.buf[i] ELSE Junk) \in Cells
        BY <1>1 DEF Cells
      <3>2. b \in [1 .. newlen + 1 -> Cells] /\ newlen + 1 \in Nat
        BY <2>1, <3>1
      <3>3. ASSUME NEW i \in 1 .. x.len + 1 PROVE b[i] = x.buf[i]
        <4>1. i \in 1 .. newlen + 1 /\ i <= x.len + 1 /\ i \in DOMAIN x.buf
          BY <1>1, <2>1
        <4> QED
          BY <4>1
      <3> HIDE DEF b
      <3>4. b \in Seq(Cells) /\ Len(b) = newlen + 1
        BY <3>2
      <3> QED
        BY <3>3, <3>4
    <2> HIDE DEF b, newlen, reqlen
    <2>4. y \in Str /\ y.type = type /\ y.buf = b /\ y.len = x.len /\ y.wild = x.wild
      <3>1. type \in 0 .. 4 /\ b \in Seq(Cells)
        BY <2>2, <2>3
      <3> QED
        BY <1>1, <3>1 DEF Str
    <2> HIDE DEF y
    <2> DEFINE v == sdssetlen(y, x.len)
    <2>5. Holds(type, x.len)
      BY <1>1, <2>1, <2>2, HoldsLess
    <2>6. v \in Str /\ v.type = type /\ v.buf = b /\ v.len = x.len /\ v.wild = x.wild
      BY <1>1, <2>4, <2>5, SetLenIs
    <2> HIDE DEF v
    <2>7. r \in Str /\ r.type = type /\ r.buf = b /\ r.len = x.len /\ r.wild = x.wild /\ r.alloc = newlen
      BY <2>1, <2>2, <2>6, SetAllocIs DEF v
    <2> HIDE DEF r
    <2>8. sdsalloc(r) = newlen
      BY <2>2, <2>7 DEF sdsalloc
    <2>9. \A i \in 1 .. x.len : i \in 1 .. x.len + 1
      BY <1>1
    <2>10. Loose(r)
      <3>1. \A i \in 1 .. r.len : r.buf[i] \in Bytes
        BY <2>3, <2>7, <2>9 DEF Loose
      <3>2. sdsalloc(r) < Len(r.buf) /\ r.len <= sdsalloc(r)
        BY <2>1, <2>3, <2>7, <2>8
      <3>3. ~r.wild /\ Holds(r.type, sdsalloc(r))
        BY <1>1, <2>2, <2>7, <2>8
      <3> QED
        BY <2>7, <3>1, <3>2, <3>3 DEF Loose, Sized
    <2> QED
      BY <1>2, <1>4, <2>1, <2>3, <2>7, <2>8, <2>10 DEF reqlen
  <1> QED
    BY <1>3, <1>4

-----------------------------------------------------------------------------
(* Each call. *)
LEMMA LooseIs ==
  ASSUME NEW x, Loose(x)
  PROVE  /\ Sized(x) /\ x \in Str /\ ~x.wild /\ x.len \in Nat /\ sdsalloc(x) \in Nat /\ x.len <= sdsalloc(x)
         /\ sdsalloc(x) < Len(x.buf) /\ Len(x.buf) \in Nat /\ x.buf \in Seq(Cells) /\ DOMAIN x.buf = 1 .. Len(x.buf)
         /\ Holds(x.type, sdsalloc(x)) /\ \A i \in 1 .. x.len : x.buf[i] \in Bytes
  <1>1. x \in Str /\ x.len \in Nat /\ x.buf \in Seq(Cells) /\ sdsalloc(x) \in Nat
    BY DEF Loose, Sized, Str, sdsalloc
  <1> QED
    BY <1>1 DEF Loose, Sized

LEMMA PartIs ==
  ASSUME NEW x, Loose(x), NEW a \in Nat, NEW b \in Int, 1 <= a, b <= x.len
  PROVE  LET t == SubSeq(x.buf, a, b) IN
         t \in Seq(Bytes) /\ Len(t) = (IF a <= b THEN b - a + 1 ELSE 0) /\ \A i \in 1 .. Len(t) : t[i] = x.buf[a + i - 1]
  <1> DEFINE f == x.buf
             t == SubSeq(f, a, b)
  <1>1. f \in Seq(Cells) /\ Len(f) \in Nat /\ b <= Len(f) /\ x.len \in Nat /\ \A i \in 1 .. x.len : f[i] \in Bytes
    BY LooseIs
  <1> HIDE DEF f
  <1>2. Len(t) = (IF a <= b THEN b - a + 1 ELSE 0) /\ \A i \in 1 .. Len(t) : t[i] = f[a + i - 1]
    BY <1>1
  <1>3. t \in Seq(Cells)
    BY <1>1
  <1> HIDE DEF t
  <1>4. ASSUME NEW i \in 1 .. Len(t) PROVE t[i] \in Bytes
    <2>1. a + i - 1 \in 1 .. x.len
      BY <1>1, <1>2
    <2> QED
      BY <1>1, <1>2, <2>1
  <1>5. t \in [1 .. Len(t) -> Bytes] /\ Len(t) \in Nat
    BY <1>3, <1>4
  <1>6. t \in Seq(Bytes)
    BY <1>5
  <1> QED
    BY <1>2, <1>6 DEF t, f

LEMMA NewFits == ASSUME NEW t \in Seq(Bytes) PROVE Fits(sdsnewlen(t))
  <1> DEFINE n == Len(t)
             need == sdsReqType(n)
             type == IF need = 0 /\ t = <<>> THEN 1 ELSE need
             fill == Filled(n + 1, Junk)
             x == [type |-> type, len |-> 0, alloc |-> 0, buf |-> fill, wild |-> FALSE]
             a == sdssetlen(x, n)
             b == sdssetalloc(a, n)
             z == Put(b, 0, t)
             r == Close(z, n)
  <1>1. n \in Nat
    OBVIOUS
  <1>2. sdsnewlen(t) = r
    BY DEF sdsnewlen
  <1>3. type \in 0 .. 4 /\ Holds(type, n)
    <2>1. need \in 0 .. 4 /\ Holds(need, n)
      BY <1>1, ReqType
    <2>2. need = 0 => Holds(1, n)
      <3> HIDE DEF n
      <3> QED
        BY <1>1, <2>1, Limits DEF Holds
    <2> HIDE DEF need, n
    <2> QED
      BY <2>1, <2>2
  <1>4. fill \in Seq(Cells) /\ Len(fill) = n + 1
    BY <1>1 DEF Filled, Cells
  <1> HIDE DEF n, type, fill
  <1>5. x \in Str /\ x.type = type /\ x.buf = fill /\ ~x.wild
    BY <1>3, <1>4 DEF Str
  <1> HIDE DEF x
  <1>6. a \in Str /\ a.type = type /\ a.buf = fill /\ ~a.wild /\ a.len = n
    BY <1>1, <1>3, <1>5, SetLenIs
  <1> HIDE DEF a
  <1>7. b \in Str /\ b.type = type /\ b.buf = fill /\ ~b.wild /\ b.len = n /\ b.alloc = IF type = 0 THEN 0 ELSE n
    BY <1>1, <1>3, <1>6, SetAllocIs
  <1> HIDE DEF b
  <1>8. Sized(b) /\ sdsalloc(b) = n
    BY <1>1, <1>3, <1>4, <1>7 DEF Sized, sdsalloc
  <1>9. 0 + Len(t) = n /\ 0 \in Nat /\ 1 .. 0 = {}
    BY <1>1 DEF n
  <1>10. Like(z, b) /\ z.len = b.len /\ \A i \in 1 .. n : z.buf[i] \in Bytes
    <2>1. 0 + Len(t) <= sdsalloc(b) /\ \A i \in 1 .. 0 : b.buf[i] \in Bytes
      BY <1>1, <1>8, <1>9
    <2>2. Like(z, b) /\ z.len = b.len /\ \A i \in 1 .. 0 + Len(t) : z.buf[i] \in Bytes
      BY <1>8, <1>9, <2>1, PutText
    <2> QED
      BY <1>9, <2>2
  <1> HIDE DEF z
  <1>11. z \in Str /\ ~z.wild /\ n < Len(z.buf)
    BY <1>1, <1>4, <1>7, <1>10 DEF Like
  <1>12. /\ r \in Str /\ r.len = z.len /\ r.type = z.type /\ r.alloc = z.alloc /\ ~r.wild
         /\ Len(r.buf) = Len(z.buf) /\ r.buf[n + 1] = 0 /\ \A i \in 1 .. n : r.buf[i] = z.buf[i]
    BY <1>1, <1>11, CloseIs
  <1> HIDE DEF r
  <1>13. /\ r.type = b.type /\ r.alloc = b.alloc /\ Len(r.buf) = Len(b.buf) /\ r.len = n
         /\ \A i \in 1 .. n : r.buf[i] \in Bytes
    BY <1>7, <1>10, <1>12 DEF Like
  <1>14. n <= sdsalloc(b)
    BY <1>1, <1>8
  <1>15. Fits(r)
    BY <1>1, <1>8, <1>12, <1>13, <1>14, Settled
  <1> QED
    BY <1>2, <1>15

LEMMA DupFits == ASSUME NEW x, Loose(x) PROVE Fits(sdsnewlen(Content(x)))
  <1>1. x.len \in Nat /\ x.len <= x.len /\ 1 \in Nat /\ 1 <= 1 /\ x.len \in Int
    BY LooseIs
  <1>2. Content(x) \in Seq(Bytes)
    BY <1>1, PartIs DEF Content
  <1> QED
    BY <1>2, NewFits

LEMMA CatFits == ASSUME NEW x, Loose(x), NEW t \in Seq(Bytes) PROVE Fits(sdscatlen(x, t))
  <1> DEFINE l == Len(t)
             n == x.len + l
             y == sdsMakeRoomFor(x, l)
             z == Put(y, x.len, t)
  <1>1. l \in Nat /\ x.len \in Nat /\ n \in Nat /\ \A i \in 1 .. x.len : x.buf[i] \in Bytes
    <2>1. x.len \in Nat /\ \A i \in 1 .. x.len : x.buf[i] \in Bytes
      BY LooseIs, Zenon
    <2>2. l \in Nat
      OBVIOUS
    <2> HIDE DEF l
    <2> QED
      BY <2>1, <2>2
  <1>2. Loose(y) /\ y.len = x.len /\ n <= sdsalloc(y) /\ \A i \in 1 .. x.len + 1 : y.buf[i] = x.buf[i]
    <2> HIDE DEF l
    <2> QED
      BY <1>1, RoomIs
  <1>3. sdscatlen(x, t) = Close(sdssetlen(z, n), n)
    BY DEF sdscatlen
  <1> HIDE DEF y
  <1>4. \A i \in 1 .. x.len : y.buf[i] \in Bytes
    BY <1>2 DEF Loose
  <1>5. Sized(y)
    BY <1>2 DEF Loose
  <1>6. Like(z, y) /\ \A i \in 1 .. n : z.buf[i] \in Bytes
    BY <1>1, <1>2, <1>4, <1>5, PutText
  <1> HIDE DEF n, z
  <1> QED
    BY <1>1, <1>2, <1>3, <1>5, <1>6, SetAndClose

(* A text put at the front of the string, that ends there. *)
LEMMA FrontFits ==
  ASSUME NEW y, Sized(y), NEW t \in Seq(Bytes), Len(t) <= sdsalloc(y)
  PROVE  Fits(sdssetlen(Close(Put(y, 0, t), Len(t)), Len(t)))
  <1> DEFINE n == Len(t)
             z == Put(y, 0, t)
  <1>1. n \in Nat /\ 0 + n = n /\ 1 .. 0 = {} /\ 0 \in Nat
    OBVIOUS
  <1>2. 0 + Len(t) <= sdsalloc(y) /\ \A i \in 1 .. 0 : y.buf[i] \in Bytes
    BY <1>1
  <1>3. Like(z, y) /\ \A i \in 1 .. 0 + Len(t) : z.buf[i] \in Bytes
    BY <1>1, <1>2, PutText
  <1>4. \A i \in 1 .. n : z.buf[i] \in Bytes
    BY <1>1, <1>3
  <1> HIDE DEF z
  <1>5. Fits(sdssetlen(Close(z, n), n))
    <2> HIDE DEF n
    <2>1. n <= sdsalloc(y)
      BY DEF n
    <2> QED
      BY <1>1, <1>3, <1>4, <2>1, SetAndClose
  <1> QED
    BY <1>5 DEF z

LEMMA CpyFits == ASSUME NEW x, Loose(x), NEW t \in Seq(Bytes) PROVE Fits(sdscpylen(x, t))
  <1> DEFINE l == Len(t)
             y == IF sdsalloc(x) < l THEN sdsMakeRoomFor(x, l - x.len) ELSE x
  <1>1. l \in Nat /\ x.len \in Nat /\ sdsalloc(x) \in Nat /\ x.len <= sdsalloc(x)
    BY LooseIs
  <1>2. Loose(y) /\ l <= sdsalloc(y)
    <2> HIDE DEF l
    <2>1. CASE sdsalloc(x) < l
      <3> DEFINE a == l - x.len
      <3>1. a \in Nat /\ x.len + a = l
        BY <1>1, <2>1
      <3> HIDE DEF a
      <3>2. Loose(sdsMakeRoomFor(x, a)) /\ x.len + a <= sdsalloc(sdsMakeRoomFor(x, a))
        BY <3>1, RoomIs
      <3> QED
        BY <2>1, <3>1, <3>2 DEF a
    <2>2. CASE ~(sdsalloc(x) < l)
      BY <1>1, <2>2
    <2> QED
      BY <2>1, <2>2
  <1>3. sdscpylen(x, t) = sdssetlen(Close(Put(y, 0, t), Len(t)), Len(t))
    BY DEF sdscpylen
  <1> HIDE DEF y
  <1>4. Sized(y) /\ Len(t) <= sdsalloc(y)
    BY <1>2 DEF Loose
  <1> QED
    BY <1>3, <1>4, FrontFits

LEMMA ClearFits == ASSUME NEW x, Loose(x) PROVE Fits(sdsclear(x))
  <1>1. Sized(x) /\ Like(x, x) /\ 0 \in Nat /\ 0 <= sdsalloc(x) /\ \A i \in 1 .. 0 : x.buf[i] \in Bytes
    BY LooseIs DEF Like
  <1>2. Fits(Close(sdssetlen(x, 0), 0))
    BY <1>1, SetAndClose
  <1> QED
    BY <1>2 DEF sdsclear

LEMMA RoomFits == ASSUME NEW x, Fits(x), NEW n \in Nat PROVE Fits(sdsMakeRoomFor(x, n))
  <1>1. Loose(x) /\ x.len + 1 \in 1 .. x.len + 1 /\ x.buf[x.len + 1] = 0
    BY LooseIs DEF Fits
  <1>2. LET y == sdsMakeRoomFor(x, n) IN Loose(y) /\ y.len = x.len /\ \A i \in 1 .. x.len + 1 : y.buf[i] = x.buf[i]
    BY <1>1, RoomIs
  <1> DEFINE y == sdsMakeRoomFor(x, n)
  <1>3. Loose(y) /\ y.len = x.len /\ \A i \in 1 .. x.len + 1 : y.buf[i] = x.buf[i]
    BY <1>2
  <1> HIDE DEF y
  <1>4. Fits(y)
    BY <1>1, <1>3 DEF Fits
  <1> QED
    BY <1>4 DEF y

LEMMA GrowFits == ASSUME NEW x, Fits(x), NEW n \in Nat PROVE Fits(sdsgrowzero(x, n))
  <1>1. Loose(x) /\ x.len \in Nat
    BY LooseIs DEF Fits
  <1>2. CASE n <= x.len
    BY <1>2 DEF sdsgrowzero
  <1>3. CASE ~(n <= x.len)
    <2> DEFINE l == n - x.len
               y == sdsMakeRoomFor(x, l)
               t == Filled(l + 1, 0)
               z == Put(y, x.len, t)
               r == sdssetlen(z, n)
    <2>1. l \in Nat /\ x.len + l = n /\ x.len < n
      BY <1>1, <1>3
    <2>2. sdsgrowzero(x, n) = r
      BY <1>3 DEF sdsgrowzero
    <2>3. t \in Seq(Cells) /\ Len(t) = l + 1 /\ \A i \in 1 .. l + 1 : t[i] = 0
      <3> HIDE DEF l
      <3> QED
        BY <2>1 DEF Filled, Cells, Bytes
    <2> HIDE DEF l, t
    <2>4. Loose(y) /\ y.len = x.len /\ n <= sdsalloc(y)
      BY <1>1, <2>1, RoomIs
    <2> HIDE DEF y
    <2>5. /\ Sized(y) /\ y \in Str /\ ~y.wild /\ n < Len(y.buf) /\ Len(y.buf) \in Nat /\ Holds(y.type, n)
          /\ \A i \in 1 .. x.len : y.buf[i] \in Bytes
      BY <2>4, Within DEF Loose
    <2>6. x.len + Len(t) <= Len(y.buf)
      BY <1>1, <2>1, <2>3, <2>5
    <2>7. /\ z \in Str /\ z.len = y.len /\ z.type = y.type /\ z.alloc = y.alloc /\ ~z.wild /\ Len(z.buf) = Len(y.buf)
          /\ \A i \in 1 .. Len(y.buf) : z.buf[i] = IF x.len < i /\ i <= x.len + Len(t) THEN t[i - x.len] ELSE y.buf[i]
      BY <1>1, <2>3, <2>5, <2>6, PutIs
    <2> HIDE DEF z
    <2>8. r \in Str /\ r.len = n /\ r.type = z.type /\ r.alloc = z.alloc /\ r.buf = z.buf /\ r.wild = z.wild
      BY <2>5, <2>7, SetLenIs
    <2> HIDE DEF r
    <2>9. ASSUME NEW i \in 1 .. n + 1 PROVE z.buf[i] = IF x.len < i THEN 0 ELSE y.buf[i]
      <3>1. i \in 1 .. Len(y.buf) /\ i \in Nat
        BY <2>5
      <3>2. CASE x.len < i
        <4>1. i <= x.len + Len(t) /\ i - x.len \in 1 .. l + 1
          BY <1>1, <2>1, <2>3, <3>1, <3>2
        <4>2. z.buf[i] = t[i - x.len]
          BY <2>7, <3>1, <3>2, <4>1
        <4> QED
          BY <2>3, <3>2, <4>1, <4>2
      <3>3. CASE ~(x.len < i)
        BY <2>7, <3>1, <3>3
      <3> QED
        BY <3>2, <3>3
    <2>10. \A i \in 1 .. n : r.buf[i] \in Bytes
      <3> SUFFICES ASSUME NEW i \in 1 .. n PROVE r.buf[i] \in Bytes
        OBVIOUS
      <3>1. i \in 1 .. n + 1 /\ (~(x.len < i) => i \in 1 .. x.len)
        BY <1>1
      <3>2. 0 \in Bytes
        BY DEF Bytes
      <3> QED
        BY <2>5, <2>8, <2>9, <3>1, <3>2
    <2>11. r.buf[n + 1] = 0
      <3>1. n + 1 \in 1 .. n + 1 /\ x.len < n + 1
        BY <1>1, <2>1
      <3> QED
        BY <2>8, <2>9, <3>1
    <2>12. r.type = y.type /\ r.alloc = y.alloc /\ ~r.wild /\ Len(r.buf) = Len(y.buf)
      BY <2>7, <2>8
    <2>13. Fits(r)
      BY <2>4, <2>5, <2>8, <2>10, <2>11, <2>12, Settled
    <2> QED
      BY <2>2, <2>13
  <1> QED
    BY <1>2, <1>3

(* What is left after a trim or a range is a part of the string. *)
LEMMA PartFits ==
  ASSUME NEW x, Loose(x), NEW a \in Nat, NEW b \in Int, 1 <= a, b <= x.len
  PROVE  LET n == IF a <= b THEN b - a + 1 ELSE 0 IN Fits(sdssetlen(Close(Put(x, 0, SubSeq(x.buf, a, b)), n), n))
  <1> DEFINE t == SubSeq(x.buf, a, b)
             n == IF a <= b THEN b - a + 1 ELSE 0
  <1>1. t \in Seq(Bytes) /\ Len(t) = n
    BY PartIs
  <1>2. Sized(x) /\ n <= sdsalloc(x)
    BY LooseIs
  <1> HIDE DEF t, n
  <1>3. Fits(sdssetlen(Close(Put(x, 0, t), Len(t)), Len(t)))
    BY <1>1, <1>2, FrontFits
  <1> QED
    BY <1>1, <1>3 DEF t, n

LEMMA EndsOf ==
  ASSUME NEW n \in Nat, NEW S \in SUBSET (1 .. n), S # {}
  PROVE  Min(S) \in S /\ Max(S) \in S /\ Min(S) <= Max(S)
  <1>1. \E i \in S : \A j \in S : i <= j
    <2>1. S \in SUBSET Nat
      OBVIOUS
    <2> QED
      BY <2>1, Least
  <1>2. \E i \in S : \A j \in S : i >= j
    <2> DEFINE T == {n - i : i \in S}
    <2>1. T \in SUBSET Nat /\ T # {}
      <3>1. \A i \in S : n - i \in Nat
        OBVIOUS
      <3>2. PICK i \in S : TRUE
        OBVIOUS
      <3>3. n - i \in T
        OBVIOUS
      <3> QED
        BY <3>1, <3>3
    <2>2. PICK k \in T : \A j \in T : k <= j
      <3> HIDE DEF T
      <3> QED
        BY <2>1, Least
    <2>3. PICK i \in S : k = n - i
      BY <2>2
    <2>4. \A j \in S : n - i <= n - j
      BY <2>2, <2>3
    <2> QED
      BY <2>4
  <1>3. Min(S) \in S /\ \A j \in S : Min(S) <= j
    BY <1>1 DEF Min
  <1>4. Max(S) \in S
    BY <1>2 DEF Max
  <1> QED
    BY <1>3, <1>4

LEMMA TrimFits == ASSUME NEW x, Loose(x), NEW cset PROVE Fits(sdstrim(x, cset))
  <1> DEFINE kept == {i \in 1 .. x.len : x.buf[i] \notin cset \cup {0}}
             sp == IF kept = {} THEN x.len + 1 ELSE Min(kept)
             ep == IF kept = {} THEN x.len ELSE Max(kept)
             n == IF sp <= ep THEN ep - sp + 1 ELSE 0
  <1>1. x.len \in Nat
    BY LooseIs
  <1>2. sp \in Nat /\ 1 <= sp /\ ep \in Int /\ ep <= x.len /\ n = ep - sp + 1
    <2>1. CASE kept = {}
      BY <1>1, <2>1
    <2>2. CASE kept # {}
      <3>1. kept \in SUBSET (1 .. x.len)
        OBVIOUS
      <3> HIDE DEF kept
      <3>2. Min(kept) \in kept /\ Max(kept) \in kept /\ Min(kept) <= Max(kept)
        BY <1>1, <2>2, <3>1, EndsOf
      <3>3. Min(kept) \in 1 .. x.len /\ Max(kept) \in 1 .. x.len
        BY <3>1, <3>2
      <3>4. sp = Min(kept) /\ ep = Max(kept)
        BY <2>2
      <3> QED
        BY <1>1, <3>2, <3>3, <3>4
    <2> QED
      BY <2>1, <2>2
  <1>3. sdstrim(x, cset) = sdssetlen(Close(Put(x, 0, SubSeq(x.buf, sp, ep)), ep - sp + 1), ep - sp + 1)
    BY DEF sdstrim
  <1> HIDE DEF sp, ep
  <1>4. Fits(sdssetlen(Close(Put(x, 0, SubSeq(x.buf, sp, ep)), n), n))
    BY <1>2, PartFits
  <1> QED
    BY <1>2, <1>3, <1>4

LEMMA RangeFits ==
  ASSUME NEW x, Fits(x), NEW start \in Int, NEW end \in Int
  PROVE  Fits(sdsrange(x, start, end))
  <1> DEFINE a == IF start < 0 THEN AtLeast0(x.len + start) ELSE start
             b == IF end < 0 THEN AtLeast0(x.len + end) ELSE end
             n == IF a > b \/ a >= x.len THEN 0 ELSE IF b >= x.len THEN x.len - a ELSE b - a + 1
             r == sdssetlen(Close(Put(x, 0, SubSeq(x.buf, a + 1, a + n)), n), n)
  <1>1. Loose(x) /\ x.len \in Nat
    BY LooseIs DEF Fits
  <1>2. sdsrange(x, start, end) = IF x.len = 0 THEN x ELSE r
    BY DEF sdsrange
  <1>3. a \in Nat /\ b \in Nat
    BY <1>1 DEF AtLeast0
  <1> HIDE DEF a, b
  <1>4. n \in Nat /\ (n > 0 => a + n <= x.len)
    BY <1>1, <1>3
  <1> HIDE DEF n
  <1>5. CASE n > 0
    <2>1. a + 1 \in Nat /\ a + n \in Int /\ 1 <= a + 1 /\ a + n <= x.len /\ a + 1 <= a + n /\ (a + n) - (a + 1) + 1 = n
      BY <1>3, <1>4, <1>5
    <2> DEFINE c == a + 1
               d == a + n
    <2>2. c \in Nat /\ d \in Int /\ 1 <= c /\ d <= x.len /\ c <= d /\ d - c + 1 = n
      BY <2>1
    <2> HIDE DEF c, d
    <2>3. LET m == IF c <= d THEN d - c + 1 ELSE 0 IN Fits(sdssetlen(Close(Put(x, 0, SubSeq(x.buf, c, d)), m), m))
      BY <1>1, <2>2, PartFits
    <2>4. Fits(sdssetlen(Close(Put(x, 0, SubSeq(x.buf, c, d)), n), n))
      BY <2>2, <2>3
    <2> QED
      BY <1>2, <2>4 DEF c, d
  <1>6. CASE n = 0
    <2>1. SubSeq(x.buf, a + 1, a + n) = <<>>
      <3>1. x.buf \in Seq(Cells)
        BY <1>1, LooseIs
      <3> QED
        BY <1>3, <1>6, <3>1
    <2> DEFINE e == <<>>
    <2>2. Sized(x) /\ e \in Seq(Bytes) /\ Len(e) = 0 /\ Len(e) <= sdsalloc(x)
      BY <1>1, LooseIs
    <2> HIDE DEF e
    <2>3. Fits(sdssetlen(Close(Put(x, 0, e), Len(e)), Len(e)))
      BY <2>2, FrontFits
    <2> QED
      BY <1>2, <1>6, <2>1, <2>2, <2>3 DEF e
  <1> QED
    BY <1>4, <1>5, <1>6

(* Characters are replaced in place. *)
LEMMA MappedFits ==
  ASSUME NEW x, Fits(x), NEW t \in Seq(Bytes), Len(t) = x.len
  PROVE  Fits(Put(x, 0, t))
  <1> DEFINE z == Put(x, 0, t)
  <1>1. Loose(x) /\ Sized(x) /\ x \in Str /\ ~x.wild /\ x.len \in Nat /\ x.len <= sdsalloc(x) /\ sdsalloc(x) \in Nat
        /\ sdsalloc(x) < Len(x.buf) /\ Len(x.buf) \in Nat
    BY LooseIs DEF Fits
  <1>2. 0 \in Nat /\ 0 + Len(t) = x.len /\ 1 .. 0 = {}
    BY <1>1
  <1>3. Like(z, x) /\ z.len = x.len /\ \A i \in 1 .. x.len : z.buf[i] \in Bytes
    <2>1. 0 + Len(t) <= sdsalloc(x) /\ \A i \in 1 .. 0 : x.buf[i] \in Bytes
      BY <1>1, <1>2
    <2>2. Like(z, x) /\ z.len = x.len /\ \A i \in 1 .. 0 + Len(t) : z.buf[i] \in Bytes
      BY <1>1, <1>2, <2>1, PutText
    <2> QED
      BY <1>2, <2>2
  <1>4. z.buf[x.len + 1] = 0
    <2>1. t \in Seq(Cells)
      <3>1. \A i \in 1 .. Len(t) : t[i] \in Cells
        BY DEF Cells
      <3>2. t \in [1 .. Len(t) -> Cells]
        BY <3>1
      <3> QED
        BY <1>1, <3>2
    <2>2. \A i \in 1 .. Len(x.buf) : z.buf[i] = IF 0 < i /\ i <= 0 + Len(t) THEN t[i - 0] ELSE x.buf[i]
      <3>1. 0 + Len(t) <= Len(x.buf)
        BY <1>1, <1>2
      <3> QED
        BY <1>1, <1>2, <2>1, <3>1, PutIs
    <2>3. x.len + 1 \in 1 .. Len(x.buf) /\ ~(x.len + 1 <= 0 + Len(t))
      BY <1>1, <1>2
    <2>4. x.buf[x.len + 1] = 0
      BY DEF Fits
    <2> HIDE DEF z
    <2> QED
      BY <2>2, <2>3, <2>4
  <1> HIDE DEF z
  <1>5. z \in Str /\ z.type = x.type /\ z.alloc = x.alloc /\ ~z.wild /\ Len(z.buf) = Len(x.buf)
    BY <1>3 DEF Like
  <1>6. Fits(z)
    BY <1>1, <1>3, <1>4, <1>5, Settled
  <1> QED
    BY <1>6 DEF z

LEMMA CaseFits ==
  ASSUME NEW x, Fits(x), NEW r \in {sdstoupper(x), sdstolower(x), sdsmapchars(x, <<65, 97>>, <<97, 65>>)}
  PROVE  Fits(r)
  <1>1. x.len \in Nat /\ \A i \in 1 .. x.len : x.buf[i] \in 0 .. 255
    BY LooseIs DEF Fits, Bytes
  <1>2. CASE r = sdstoupper(x)
    <2> DEFINE Map(c) == IF c \in 97 .. 122 THEN c - 32 ELSE c
               t == [i \in 1 .. x.len |-> Map(x.buf[i])]
    <2>1. r = Put(x, 0, t)
      BY <1>2 DEF sdstoupper, Mapped
    <2>2. \A i \in 1 .. x.len : Map(x.buf[i]) \in Bytes
      BY <1>1 DEF Bytes
    <2> HIDE DEF Map
    <2>3. t \in Seq(Bytes) /\ Len(t) = x.len
      BY <1>1, <2>2
    <2> HIDE DEF t
    <2> QED
      BY <2>1, <2>3, MappedFits
  <1>3. CASE r = sdstolower(x)
    <2> DEFINE Map(c) == IF c \in 65 .. 90 THEN c + 32 ELSE c
               t == [i \in 1 .. x.len |-> Map(x.buf[i])]
    <2>1. r = Put(x, 0, t)
      BY <1>3 DEF sdstolower, Mapped
    <2>2. \A i \in 1 .. x.len : Map(x.buf[i]) \in Bytes
      BY <1>1 DEF Bytes
    <2> HIDE DEF Map
    <2>3. t \in Seq(Bytes) /\ Len(t) = x.len
      BY <1>1, <2>2
    <2> HIDE DEF t
    <2> QED
      BY <2>1, <2>3, MappedFits
  <1>4. CASE r = sdsmapchars(x, <<65, 97>>, <<97, 65>>)
    <2> DEFINE At(c) == SelectInSeq(<<65, 97>>, LAMBDA d : d = c)
               Map(c) == IF At(c) = 0 THEN c ELSE <<97, 65>>[At(c)]
               t == [i \in 1 .. x.len |-> Map(x.buf[i])]
    <2>1. r = Put(x, 0, t)
      BY <1>4 DEF sdsmapchars, Mapped
    <2>2. ASSUME NEW c \in 0 .. 255 PROVE Map(c) \in Bytes
      <3> DEFINE I == {i \in 1 .. Len(<<65, 97>>) : <<65, 97>>[i] = c}
      <3>1. At(c) = IF I # {} THEN Min(I) ELSE 0
        BY DEF SelectInSeq
      <3>2. I \in SUBSET (1 .. 2)
        OBVIOUS
      <3> HIDE DEF I
      <3>3. I # {} => Min(I) \in I
        BY <3>2, EndsOf
      <3>4. At(c) \in {0, 1, 2}
        BY <3>1, <3>2, <3>3
      <3> HIDE DEF At
      <3> QED
        BY <3>4 DEF Bytes
    <2> HIDE DEF Map
    <2>3. \A i \in 1 .. x.len : Map(x.buf[i]) \in Bytes
      BY <1>1, <2>2
    <2>4. t \in Seq(Bytes) /\ Len(t) = x.len
      BY <1>1, <2>3
    <2> HIDE DEF t
    <2> QED
      BY <2>1, <2>4, MappedFits
  <1> QED
    BY <1>2, <1>3, <1>4

LEMMA FillFits ==
  ASSUME NEW x, Fits(x), NEW t \in Seq(Bytes), Len(t) <= sdsavail(x)
  PROVE  Fits(sdsIncrLen(Put(x, x.len, t), Len(t)))
  <1> DEFINE l == Len(t)
             n == x.len + l
             z == Put(x, x.len, t)
  <1>1. Loose(x) /\ Sized(x) /\ x.len \in Nat /\ sdsalloc(x) \in Nat /\ l \in Nat /\ \A i \in 1 .. x.len : x.buf[i] \in Bytes
    BY LooseIs DEF Fits
  <1>2. n \in Nat /\ n <= sdsalloc(x)
    BY <1>1 DEF sdsavail, sdsalloc
  <1>3. Like(z, x) /\ z.len = x.len /\ \A i \in 1 .. n : z.buf[i] \in Bytes
    BY <1>1, <1>2, PutText
  <1>4. sdsIncrLen(z, l) = Close(sdssetlen(z, z.len + l), z.len + l)
    BY DEF sdsIncrLen, sdsinclen
  <1> HIDE DEF z, l
  <1>5. Fits(Close(sdssetlen(z, n), n))
    <2> HIDE DEF n
    <2> QED
      BY <1>1, <1>2, <1>3, SetAndClose
  <1>6. sdsIncrLen(z, l) = Close(sdssetlen(z, n), n)
    BY <1>3, <1>4
  <1> QED
    BY <1>5, <1>6 DEF z, l

LEMMA CutFits ==
  ASSUME NEW x, Fits(x), NEW n \in Nat, n <= x.len
  PROVE  Fits(sdsIncrLen(x, -n))
  <1> DEFINE m == x.len + (-n)
  <1>1. Sized(x) /\ Like(x, x) /\ x.len \in Nat /\ sdsalloc(x) \in Nat /\ x.len <= sdsalloc(x)
        /\ \A i \in 1 .. x.len : x.buf[i] \in Bytes
    BY LooseIs DEF Fits, Like
  <1>2. m \in Nat /\ m <= x.len /\ m <= sdsalloc(x)
    BY <1>1
  <1>3. sdsIncrLen(x, -n) = Close(sdssetlen(x, m), m)
    BY DEF sdsIncrLen, sdsinclen
  <1> HIDE DEF m
  <1>4. \A i \in 1 .. m : x.buf[i] \in Bytes
    BY <1>1, <1>2
  <1> QED
    BY <1>1, <1>2, <1>3, <1>4, SetAndClose

LEMMA CompactFits == ASSUME NEW x, Fits(x) PROVE Fits(sdsRemoveFreeSpace(x))
  <1> DEFINE n == x.len
             need == sdsReqType(n)
             keeps == need = x.type \/ need > 1
             type == IF keeps THEN x.type ELSE need
             b == SubSeq(x.buf, 1, n + 1)
             y == [x EXCEPT !.type = type, !.buf = b]
             v == sdssetlen(y, n)
             r == sdssetalloc(v, n)
  <1>1. Loose(x) /\ x \in Str /\ ~x.wild /\ n \in Nat /\ sdsalloc(x) \in Nat /\ n <= sdsalloc(x) /\ sdsalloc(x) < Len(x.buf)
        /\ Len(x.buf) \in Nat /\ x.buf \in Seq(Cells) /\ Holds(x.type, sdsalloc(x)) /\ x.type \in 0 .. 4
    BY LooseIs DEF Fits, Str
  <1>2. sdsRemoveFreeSpace(x) = IF sdsavail(x) = 0 THEN x ELSE r
    BY DEF sdsRemoveFreeSpace
  <1>3. type \in 0 .. 4 /\ Holds(type, n)
    <2>1. Holds(x.type, n) /\ need \in 0 .. 4 /\ Holds(need, n)
      <3> HIDE DEF n
      <3> QED
        BY <1>1, HoldsLess, ReqType
    <2> QED
      BY <1>1, <2>1
  <1>4. b \in Seq(Cells) /\ Len(b) = n + 1 /\ \A i \in 1 .. n + 1 : b[i] = x.buf[i]
    <2> DEFINE f == x.buf
    <2>1. f \in Seq(Cells) /\ Len(f) \in Nat /\ n + 1 <= Len(f)
      BY <1>1
    <2> HIDE DEF f, n
    <2>2. SubSeq(f, 1, n + 1) \in Seq(Cells) /\ Len(SubSeq(f, 1, n + 1)) = n + 1
          /\ \A i \in 1 .. n + 1 : SubSeq(f, 1, n + 1)[i] = f[i]
      BY <1>1, <2>1
    <2> QED
      BY <2>2 DEF f
  <1> HIDE DEF type, b
  <1>5. y \in Str /\ y.type = type /\ y.buf = b /\ ~y.wild
    BY <1>1, <1>3, <1>4 DEF Str
  <1> HIDE DEF y, n
  <1>6. v \in Str /\ v.type = type /\ v.buf = b /\ ~v.wild /\ v.len = n
    BY <1>1, <1>3, <1>5, SetLenIs
  <1> HIDE DEF v
  <1>7. r \in Str /\ r.type = type /\ r.buf = b /\ ~r.wild /\ r.len = n /\ r.alloc = IF type = 0 THEN 0 ELSE n
    BY <1>1, <1>3, <1>6, SetAllocIs
  <1> HIDE DEF r
  <1>8. sdsalloc(r) = n
    BY <1>7 DEF sdsalloc
  <1>9. \A i \in 1 .. n : b[i] \in Bytes
    <2>1. \A i \in 1 .. n : i \in 1 .. n + 1
      BY <1>1
    <2> QED
      BY <1>1, <1>4, <2>1 DEF Loose, n
  <1>10. b[n + 1] = 0
    <2>1. n + 1 \in 1 .. n + 1
      BY <1>1
    <2> QED
      BY <1>4, <2>1 DEF Fits, n
  <1>11. Sized(r)
    BY <1>1, <1>3, <1>4, <1>7, <1>8 DEF Sized
  <1>12. Fits(r)
    BY <1>7, <1>9, <1>10, <1>11 DEF Fits, Loose
  <1> QED
    BY <1>2, <1>12

LEMMA PrintfFits ==
  ASSUME NEW x, Loose(x), NEW n, NEW t \in Seq(Bytes)
  PROVE  Fits(sdscatvprintf(x, n, t))
  <1> DEFINE first == IF 2 * n > StaticBuf THEN 2 * n ELSE StaticBuf
             buflen == IF Len(t) >= first THEN Len(t) + 1 ELSE first
             w == [i \in DOMAIN t |-> IF i < buflen THEN t[i] ELSE 0]
  <1>1. sdscatvprintf(x, n, t) = sdscatlen(x, w)
    BY DEF sdscatvprintf
  <1> HIDE DEF buflen
  <1>2. w \in Seq(Bytes)
    <2>1. ASSUME NEW i \in 1 .. Len(t) PROVE w[i] \in Bytes
      <3>1. t[i] \in Bytes /\ 0 \in Bytes /\ i \in DOMAIN t
        BY DEF Bytes
      <3> QED
        BY <3>1
    <2>2. DOMAIN w = 1 .. Len(t) /\ w = [i \in 1 .. Len(t) |-> w[i]]
      OBVIOUS
    <2> HIDE DEF w
    <2>3. w \in [1 .. Len(t) -> Bytes]
      BY <2>1, <2>2
    <2>4. Len(t) \in Nat
      OBVIOUS
    <2> DEFINE l == Len(t)
    <2>5. w \in [1 .. l -> Bytes] /\ l \in Nat
      BY <2>3, <2>4
    <2> HIDE DEF l
    <2> QED
      BY <2>5
  <1> HIDE DEF w
  <1> QED
    BY <1>1, <1>2, CatFits

(* One turn of the loop of sdscatfmt leaves the end open. *)
LEMMA ItemFits ==
  ASSUME NEW x, Loose(x), NEW item, item.text \in Seq(Bytes), item.argument \/ Len(item.text) <= 1
  PROVE  Loose(FmtItem(x, item))
  <1> DEFINE t == item.text
             l == Len(t)
             y == IF sdsavail(x) = 0 THEN sdsMakeRoomFor(x, 1) ELSE x
             z == IF item.argument /\ sdsavail(y) < l THEN sdsMakeRoomFor(y, l) ELSE y
             p == Put(z, z.len, t)
             n == z.len + l
             r == sdssetlen(p, p.len + l)
  <1>1. FmtItem(x, item) = r
    BY DEF FmtItem, sdsinclen
  <1>2. t \in Seq(Bytes) /\ l \in Nat
    OBVIOUS
  <1>3. Loose(y) /\ sdsavail(y) \in Nat /\ sdsavail(y) >= 1
    <2>1. CASE sdsavail(x) = 0
      <3>1. Loose(y) /\ y.len = x.len /\ x.len + 1 <= sdsalloc(y) /\ x.len \in Nat
        BY <2>1, RoomIs, LooseIs
      <3> HIDE DEF y
      <3>2. sdsalloc(y) \in Nat
        BY <3>1, LooseIs
      <3> QED
        BY <3>1, <3>2 DEF sdsavail, sdsalloc
    <2>2. CASE sdsavail(x) # 0
      <3>1. x.len \in Nat /\ sdsalloc(x) \in Nat /\ x.len <= sdsalloc(x)
        BY LooseIs
      <3> QED
        BY <2>2, <3>1 DEF sdsavail, sdsalloc
    <2> QED
      BY <2>1, <2>2
  <1> HIDE DEF y
  <1>4. Loose(z) /\ n \in Nat /\ n <= sdsalloc(z)
    <2>1. CASE item.argument /\ sdsavail(y) < l
      <3> HIDE DEF l
      <3>1. z = sdsMakeRoomFor(y, l)
        BY <2>1
      <3>2. Loose(z) /\ z.len = y.len /\ y.len + l <= sdsalloc(z) /\ y.len \in Nat
        BY <1>2, <1>3, <3>1, RoomIs, LooseIs
      <3> QED
        BY <1>2, <3>2
    <2>2. CASE ~(item.argument /\ sdsavail(y) < l)
      <3>1. z = y
        BY <2>2
      <3>2. l <= sdsavail(y)
        BY <1>2, <1>3, <2>2
      <3>3. y.len \in Nat /\ sdsalloc(y) \in Nat /\ y.len <= sdsalloc(y)
        BY <1>3, LooseIs
      <3> HIDE DEF l
      <3> QED
        BY <1>2, <1>3, <3>1, <3>2, <3>3 DEF sdsavail, sdsalloc
    <2> QED
      BY <2>1, <2>2
  <1> HIDE DEF z, t
  <1>5. Sized(z) /\ z.len \in Nat /\ \A i \in 1 .. z.len : z.buf[i] \in Bytes
    BY <1>4, LooseIs
  <1>6. Like(p, z) /\ p.len = z.len /\ \A i \in 1 .. n : p.buf[i] \in Bytes
    BY <1>2, <1>4, <1>5, PutText
  <1> HIDE DEF p
  <1>7. r = sdssetlen(p, n)
    BY <1>6
  <1> HIDE DEF n
  <1>8. /\ Holds(z.type, n) /\ sdsalloc(z) \in Nat /\ z.type \in 0 .. 4 /\ Holds(z.type, sdsalloc(z))
        /\ sdsalloc(z) < Len(z.buf) /\ Len(z.buf) \in Nat
    BY <1>4, <1>5, Within DEF Sized, Str
  <1> HIDE DEF r
  <1>9. r \in Str /\ r.len = n /\ r.type = p.type /\ r.alloc = p.alloc /\ r.buf = p.buf /\ r.wild = p.wild
    BY <1>4, <1>6, <1>7, <1>8, SetLenIs DEF Like
  <1>10. /\ r.type = z.type /\ r.alloc = z.alloc /\ ~r.wild /\ Len(r.buf) = Len(z.buf)
         /\ \A i \in 1 .. r.len : r.buf[i] \in Bytes
    BY <1>6, <1>9 DEF Like
  <1>11. sdsalloc(r) = (IF z.type = 0 THEN n ELSE sdsalloc(z))
    BY <1>9, <1>10 DEF sdsalloc
  <1>12. Sized(r)
    BY <1>4, <1>8, <1>9, <1>10, <1>11 DEF Sized
  <1> QED
    BY <1>1, <1>10, <1>12 DEF Loose

(* FoldLeft over two items, from the equation of its recursive function. *)
LEMMA TwoSets ==
  /\ SUBSET (1 .. 2) = {{}, {1}, {2}, {1, 2}}
  /\ Max({1}) = 1 /\ Max({2}) = 2 /\ Max({1, 2}) = 2 /\ {1, 2} \ {2} = {1} /\ {1} \ {1} = {} /\ {2} \ {2} = {}
  <1>1. ASSUME NEW S \in SUBSET (1 .. 2) PROVE S \in {{}, {1}, {2}, {1, 2}}
    <2>1. \A i \in S : i = 1 \/ i = 2
      OBVIOUS
    <2> QED
      BY <2>1
  <1>2. \A S \in {{}, {1}, {2}, {1, 2}} : S \in SUBSET (1 .. 2)
    OBVIOUS
  <1>3. Max({1}) = 1
    <2>1. Max({1}) \in {1}
      <3>1. 1 \in {1} /\ \A y \in {1} : 1 >= y
        OBVIOUS
      <3> QED
        BY <3>1 DEF Max
    <2> QED
      BY <2>1
  <1>4. Max({2}) = 2
    <2>1. Max({2}) \in {2}
      <3>1. 2 \in {2} /\ \A y \in {2} : 2 >= y
        OBVIOUS
      <3> QED
        BY <3>1 DEF Max
    <2> QED
      BY <2>1
  <1>5. Max({1, 2}) = 2
    <2>1. Max({1, 2}) \in {1, 2} /\ \A y \in {1, 2} : Max({1, 2}) >= y
      <3>1. 2 \in {1, 2} /\ \A y \in {1, 2} : 2 >= y
        OBVIOUS
      <3> QED
        BY <3>1 DEF Max
    <2> QED
      BY <2>1
  <1>6. {1, 2} \ {2} = {1} /\ {1} \ {1} = {} /\ {2} \ {2} = {}
    OBVIOUS
  <1> QED
    BY <1>1, <1>2, <1>3, <1>4, <1>5, <1>6

FmtFold(base, q, f) ==
    f = [u \in SUBSET (DOMAIN q) |-> IF u = {} THEN base ELSE FmtItem(f[u \ {Max(u)}], q[Max(u)])]
SrcFold(q, f) ==
    f = [u \in SUBSET (DOMAIN q) |-> IF u = {} THEN 0 ELSE f[u \ {Max(u)}] + q[Max(u)].src]

FmtAll(base, q) == FoldLeft(FmtItem, base, q)

LEMMA FoldFmt ==
  ASSUME NEW base, NEW a, NEW b
  PROVE  FmtAll(base, <<a, b>>) = FmtItem(FmtItem(base, a), b)
  <1> DEFINE q == <<a, b>>
             F == CHOOSE f : FmtFold(base, q, f)
  <1>1. DOMAIN q = 1 .. 2 /\ q[1] = a /\ q[2] = b
    OBVIOUS
  <1>2. FmtAll(base, q) = F[DOMAIN q]
    BY DEF FmtAll, FoldLeft, MapThenFoldSet, FmtFold
  <1> HIDE DEF q
  <1>3. FmtFold(base, q, F)
    <2> DEFINE g == [u \in SUBSET (1 .. 2) |-> IF u = {} THEN base ELSE IF u = {1} THEN FmtItem(base, a)
                                               ELSE IF u = {2} THEN FmtItem(base, b)
                                               ELSE FmtItem(FmtItem(base, a), b)]
    <2>1. \A u \in SUBSET (1 .. 2) : u = {} \/ u = {1} \/ u = {2} \/ u = {1, 2}
      BY TwoSets
    <2>2. {} \in SUBSET (1 .. 2) /\ {1} \in SUBSET (1 .. 2) /\ {2} \in SUBSET (1 .. 2) /\ {1, 2} \in SUBSET (1 .. 2)
      OBVIOUS
    <2>3. g[{}] = base /\ g[{1}] = FmtItem(base, a) /\ g[{2}] = FmtItem(base, b)
          /\ g[{1, 2}] = FmtItem(FmtItem(base, a), b) /\ DOMAIN g = SUBSET (1 .. 2)
      <3>1. {1} # {} /\ {2} # {} /\ {2} # {1} /\ {1, 2} # {} /\ {1, 2} # {1} /\ {1, 2} # {2}
        OBVIOUS
      <3> QED
        BY <2>2, <3>1
    <2>4. g = [u \in SUBSET (1 .. 2) |-> g[u]]
      OBVIOUS
    <2> HIDE DEF g
    <2>5. ASSUME NEW u \in SUBSET (1 .. 2) PROVE g[u] = IF u = {} THEN base ELSE FmtItem(g[u \ {Max(u)}], q[Max(u)])
      <3>1. CASE u = {}
        BY <2>3, <3>1
      <3>2. CASE u = {1}
        BY <1>1, <2>3, <3>2, TwoSets
      <3>3. CASE u = {2}
        BY <1>1, <2>3, <3>3, TwoSets
      <3>4. CASE u = {1, 2}
        BY <1>1, <2>3, <3>4, TwoSets
      <3> QED
        BY <2>1, <3>1, <3>2, <3>3, <3>4
    <2>6. FmtFold(base, q, g)
      BY <1>1, <2>4, <2>5 DEF FmtFold
    <2> QED
      BY <2>6
  <1> HIDE DEF F
  <1>4. \A u \in SUBSET (1 .. 2) : F[u] = IF u = {} THEN base ELSE FmtItem(F[u \ {Max(u)}], q[Max(u)])
    BY <1>1, <1>3 DEF FmtFold
  <1>5. F[{}] = base
    BY <1>4
  <1>6. F[{1}] = FmtItem(base, a)
    <2>1. {1} \in SUBSET (1 .. 2) /\ {1} # {}
      OBVIOUS
    <2> QED
      BY <1>1, <1>4, <1>5, <2>1, TwoSets
  <1>7. F[{1, 2}] = FmtItem(FmtItem(base, a), b)
    <2>1. {1, 2} \in SUBSET (1 .. 2) /\ {1, 2} # {}
      OBVIOUS
    <2>2. {1, 2} \ {Max({1, 2})} = {1} /\ Max({1, 2}) = 2
      BY TwoSets
    <2>3. F[{1, 2}] = FmtItem(F[{1, 2} \ {Max({1, 2})}], q[Max({1, 2})])
      BY <1>4, <2>1
    <2> QED
      BY <1>1, <1>6, <2>2, <2>3
  <1>8. 1 .. 2 = {1, 2}
    OBVIOUS
  <1> QED
    BY <1>1, <1>2, <1>7, <1>8 DEF q

LEMMA FoldSrc ==
  ASSUME NEW a, NEW b, a.src \in Nat, b.src \in Nat
  PROVE  FoldLeft(LAMBDA n, item : n + item.src, 0, <<a, b>>) \in Nat
  <1> DEFINE q == <<a, b>>
             F == CHOOSE f : SrcFold(q, f)
             A == a.src
             B == b.src
  <1>1. DOMAIN q = 1 .. 2 /\ q[1].src = A /\ q[2].src = B /\ A \in Nat /\ B \in Nat
    OBVIOUS
  <1>2. FoldLeft(LAMBDA n, item : n + item.src, 0, q) = F[DOMAIN q]
    BY DEF FoldLeft, MapThenFoldSet, SrcFold
  <1> HIDE DEF q, A, B
  <1>3. SrcFold(q, F)
    <2> DEFINE g == [u \in SUBSET (1 .. 2) |-> IF u = {} THEN 0 ELSE IF u = {1} THEN 0 + A
                                               ELSE IF u = {2} THEN 0 + B
                                               ELSE (0 + A) + B]
    <2>1. \A u \in SUBSET (1 .. 2) : u = {} \/ u = {1} \/ u = {2} \/ u = {1, 2}
      BY TwoSets
    <2>2. {} \in SUBSET (1 .. 2) /\ {1} \in SUBSET (1 .. 2) /\ {2} \in SUBSET (1 .. 2) /\ {1, 2} \in SUBSET (1 .. 2)
      OBVIOUS
    <2>3. g[{}] = 0 /\ g[{1}] = 0 + A /\ g[{2}] = 0 + B
          /\ g[{1, 2}] = (0 + A) + B /\ DOMAIN g = SUBSET (1 .. 2)
      <3>1. {1} # {} /\ {2} # {} /\ {2} # {1} /\ {1, 2} # {} /\ {1, 2} # {1} /\ {1, 2} # {2}
        OBVIOUS
      <3> QED
        BY <2>2, <3>1
    <2>4. g = [u \in SUBSET (1 .. 2) |-> g[u]]
      OBVIOUS
    <2> HIDE DEF g
    <2>5. ASSUME NEW u \in SUBSET (1 .. 2) PROVE g[u] = IF u = {} THEN 0 ELSE g[u \ {Max(u)}] + q[Max(u)].src
      <3>1. CASE u = {}
        BY <2>3, <3>1
      <3>2. CASE u = {1}
        BY <1>1, <2>3, <3>2, TwoSets
      <3>3. CASE u = {2}
        BY <1>1, <2>3, <3>3, TwoSets
      <3>4. CASE u = {1, 2}
        <4>1. u # {} /\ Max(u) = 2 /\ u \ {Max(u)} = {1}
          BY <3>4, TwoSets
        <4>2. g[u] = (0 + A) + B
          BY <2>3, <3>4
        <4>3. g[u \ {Max(u)}] = 0 + A /\ q[Max(u)].src = B
          BY <1>1, <2>3, <4>1
        <4> QED
          BY <4>1, <4>2, <4>3
      <3> QED
        BY <2>1, <3>1, <3>2, <3>3, <3>4
    <2>6. SrcFold(q, g)
      BY <1>1, <2>4, <2>5 DEF SrcFold
    <2> QED
      BY <2>6
  <1> HIDE DEF F
  <1>4. \A u \in SUBSET (1 .. 2) : F[u] = IF u = {} THEN 0 ELSE F[u \ {Max(u)}] + q[Max(u)].src
    BY <1>1, <1>3 DEF SrcFold
  <1>5. F[{}] = 0
    BY <1>4
  <1>6. F[{1}] = A
    <2>1. {1} \in SUBSET (1 .. 2) /\ {1} # {}
      OBVIOUS
    <2>2. {1} \ {Max({1})} = {} /\ Max({1}) = 1
      BY TwoSets
    <2>3. F[{1}] = F[{1} \ {Max({1})}] + q[Max({1})].src
      BY <1>4, <2>1
    <2>4. F[{1}] = 0 + A
      BY <1>1, <1>5, <2>2, <2>3
    <2> QED
      BY <1>1, <2>4
  <1>7. F[{1, 2}] = A + B
    <2>1. {1, 2} \in SUBSET (1 .. 2) /\ {1, 2} # {}
      OBVIOUS
    <2>2. {1, 2} \ {Max({1, 2})} = {1} /\ Max({1, 2}) = 2
      BY TwoSets
    <2>3. F[{1, 2}] = F[{1, 2} \ {Max({1, 2})}] + q[Max({1, 2})].src
      BY <1>4, <2>1
    <2> QED
      BY <1>1, <1>6, <2>2, <2>3
  <1>8. 1 .. 2 = {1, 2}
    OBVIOUS
  <1>9. F[DOMAIN q] \in Nat
    <2>1. A + B \in Nat
      BY <1>1
    <2> QED
      BY <1>1, <1>7, <1>8, <2>1
  <1>10. FoldLeft(LAMBDA n, item : n + item.src, 0, q) \in Nat
    BY <1>2, <1>9, Zenon
  <1> QED
    BY <1>10 DEF q

LEMMA FmtFits ==
  ASSUME NEW x, Loose(x), NEW a, NEW b, a.src \in Nat, b.src \in Nat, a.text \in Seq(Bytes), b.text \in Seq(Bytes),
         a.argument \/ Len(a.text) <= 1, b.argument \/ Len(b.text) <= 1
  PROVE  Fits(sdscatfmt(x, <<a, b>>))
  <1> DEFINE strlen == FoldLeft(LAMBDA n, item : n + item.src, 0, <<a, b>>)
             room == x.len + 2 * strlen
             m == sdsMakeRoomFor(x, room)
             y == FmtItem(FmtItem(m, a), b)
  <1>1. strlen \in Nat
    BY FoldSrc
  <1>2. sdscatfmt(x, <<a, b>>) = Close(y, y.len)
    <2>1. sdscatfmt(x, <<a, b>>) = LET v == FmtAll(m, <<a, b>>) IN Close(v, v.len)
      BY DEF sdscatfmt, FmtAll
    <2> HIDE DEF m
    <2>2. FmtAll(m, <<a, b>>) = y
      BY FoldFmt
    <2> HIDE DEF y
    <2> QED
      BY <2>1, <2>2
  <1> HIDE DEF strlen
  <1>3. room \in Nat
    BY <1>1, LooseIs
  <1> HIDE DEF room
  <1>4. Loose(m)
    BY <1>3, RoomIs
  <1> HIDE DEF m
  <1>5. Loose(FmtItem(m, a))
    BY <1>4, ItemFits
  <1>6. Loose(y)
    <2> DEFINE v == FmtItem(m, a)
    <2>1. Loose(v)
      BY <1>5
    <2> HIDE DEF v
    <2>2. Loose(FmtItem(v, b))
      BY <2>1, ItemFits
    <2> QED
      BY <2>2 DEF v
  <1> HIDE DEF y
  <1> DEFINE n == y.len
             r == Close(y, n)
  <1>7. Sized(y) /\ y \in Str /\ ~y.wild /\ n \in Nat /\ n <= sdsalloc(y) /\ n < Len(y.buf) /\ \A i \in 1 .. n : y.buf[i] \in Bytes
    BY <1>6, LooseIs
  <1> HIDE DEF n
  <1>8. /\ r \in Str /\ r.len = y.len /\ r.type = y.type /\ r.alloc = y.alloc /\ ~r.wild
        /\ Len(r.buf) = Len(y.buf) /\ r.buf[n + 1] = 0 /\ \A i \in 1 .. n : r.buf[i] = y.buf[i]
    BY <1>7, CloseIs
  <1> HIDE DEF r
  <1>9. r.len = n /\ \A i \in 1 .. n : r.buf[i] \in Bytes
    BY <1>7, <1>8 DEF n
  <1>10. Fits(r)
    BY <1>7, <1>8, <1>9, Settled
  <1> QED
    BY <1>2, <1>10 DEF r, n
(* Nobody writes outside the memory of the string, whatever the calls. *)
SdsInv == s # NoSds => Fits(s)

LEMMA TextsAre == ASSUME NEW t \in Texts PROVE t \in Seq(Bytes)
  <1>1. PICK n \in 0 .. MaxText : t \in [1 .. n -> Letters]
    BY DEF Texts, SeqOf
  <1>2. n \in Nat /\ Letters \subseteq Bytes
    BY SdsAssumption DEF Bytes
  <1> QED
    BY <1>1, <1>2

LEMMA FilledIs == ASSUME NEW n \in Nat, NEW c \in Bytes PROVE Filled(n, c) \in Seq(Bytes)
  BY DEF Filled

LEMMA FormatsFit == ASSUME NEW x, Loose(x), NEW fmt \in Formats PROVE Fits(sdscatfmt(x, fmt))
  <1>1. CASE fmt \in {<<Item(2, Filled(n, 97), TRUE), Item(1, <<97>>, FALSE)>> : n \in FmtLens}
    <2>1. PICK n \in FmtLens : fmt = <<Item(2, Filled(n, 97), TRUE), Item(1, <<97>>, FALSE)>>
      BY <1>1
    <2> DEFINE a == Item(2, Filled(n, 97), TRUE)
               b == Item(1, <<97>>, FALSE)
    <2>2. n \in Nat /\ 97 \in Bytes
      BY SdsAssumption DEF Bytes
    <2>3. a.src = 2 /\ a.text = Filled(n, 97) /\ a.argument /\ b.src = 1 /\ b.text = <<97>> /\ ~b.argument
      BY DEF Item
    <2>4. fmt = <<a, b>>
      BY <2>1
    <2> HIDE DEF a, b
    <2>5. a.src \in Nat /\ b.src \in Nat /\ a.text \in Seq(Bytes)
      BY <2>2, <2>3, FilledIs
    <2>6. b.text \in Seq(Bytes) /\ Len(b.text) <= 1
      <3>1. <<97>> \in Seq(Bytes) /\ Len(<<97>>) = 1
        BY <2>2
      <3> QED
        BY <2>3, <3>1
    <2> QED
      BY <2>3, <2>4, <2>5, <2>6, FmtFits
  <1>2. CASE fmt = <<Item(2, <<97>>, FALSE), Item(1, <<>>, FALSE)>>
    <2> DEFINE a == Item(2, <<97>>, FALSE)
               b == Item(1, <<>>, FALSE)
    <2>1. a.src = 2 /\ a.text = <<97>> /\ b.src = 1 /\ b.text = <<>>
      BY DEF Item
    <2>2. 97 \in Bytes
      BY DEF Bytes
    <2>3. fmt = <<a, b>>
      BY <1>2
    <2> HIDE DEF a, b
    <2>4. <<97>> \in Seq(Bytes) /\ Len(<<97>>) = 1 /\ <<>> \in Seq(Bytes) /\ Len(<<>>) = 0
      BY <2>2
    <2>5. /\ a.src \in Nat /\ b.src \in Nat /\ a.text \in Seq(Bytes) /\ Len(a.text) <= 1
          /\ b.text \in Seq(Bytes) /\ Len(b.text) <= 1
      BY <2>1, <2>4
    <2> QED
      BY <2>3, <2>4, <2>5, FmtFits
  <1> QED
    BY <1>1, <1>2 DEF Formats

LEMMA SdsStep == ASSUME SdsInv, SdsNext PROVE SdsInv'
  <1> SUFFICES ASSUME s' # NoSds PROVE Fits(s')
    BY DEF SdsInv
  <1>1. s # NoSds => Fits(s) /\ Loose(s)
    BY DEF SdsInv, Fits
  <1>2. ASSUME NEW t \in Texts, SdsNew(t) PROVE Fits(s')
    BY <1>2, TextsAre, NewFits DEF SdsNew
  <1>3. ASSUME NEW t \in Texts, SdsFill(t) PROVE Fits(s')
    BY <1>1, <1>3, TextsAre, FillFits DEF SdsFill, Room
  <1>4. ASSUME NEW t \in Texts, SdsCat(t) PROVE Fits(s')
    BY <1>1, <1>4, TextsAre, CatFits DEF SdsCat, Room
  <1>5. ASSUME NEW t \in Texts, SdsCpy(t) PROVE Fits(s')
    BY <1>1, <1>5, TextsAre, CpyFits DEF SdsCpy
  <1>6. ASSUME NEW t \in Texts, NEW n \in {1, 2}, SdsPrintf(n, t) PROVE Fits(s')
    BY <1>1, <1>6, TextsAre, PrintfFits DEF SdsPrintf, Room
  <1>7. ASSUME NEW n \in 0 .. MaxLen, SdsMakeRoom(n) PROVE Fits(s')
    BY <1>1, <1>7, RoomFits DEF SdsMakeRoom, Room
  <1>8. ASSUME NEW n \in 0 .. MaxLen, SdsCut(n) PROVE Fits(s')
    <2>1. Fits(s) /\ s.len \in Nat /\ s' = sdsIncrLen(s, -n) /\ n > 0 /\ n < Limit32 /\ IncrAsserts(s, -n)
      BY <1>1, <1>8, LooseIs DEF SdsCut
    <2>2. n \in Nat /\ ~(-n > 0) /\ ~(-n >= 0) /\ -(-n) = n
      BY <2>1
    <2>3. s.len >= Unsigned(s.type, -(-n))
      BY <2>1, <2>2, Zenon DEF IncrAsserts
    <2>4. Unsigned(s.type, n) = n
      BY <2>1, <2>2, SdsAssumption DEF Unsigned
    <2>5. n <= s.len
      <3>1. s.len >= Unsigned(s.type, n)
        BY <2>2, <2>3
      <3> QED
        BY <2>1, <2>2, <2>4, <3>1
    <2> QED
      BY <2>1, <2>2, <2>5, CutFits
  <1>9. ASSUME NEW n \in 0 .. MaxLen, SdsGrowZero(n) PROVE Fits(s')
    BY <1>1, <1>9, GrowFits DEF SdsGrowZero
  <1>10. CASE SdsFree
    BY <1>10 DEF SdsFree
  <1>11. CASE SdsDup
    BY <1>1, <1>11, DupFits DEF SdsDup
  <1>12. CASE SdsRemoveFreeSpace
    BY <1>1, <1>12, CompactFits DEF SdsRemoveFreeSpace
  <1>13. CASE SdsClear
    BY <1>1, <1>13, ClearFits DEF SdsClear
  <1>14. CASE SdsCase
    BY <1>1, <1>14, CaseFits DEF SdsCase
  <1>15. ASSUME NEW fmt \in Formats, SdsFmt(fmt) PROVE Fits(s')
    BY <1>1, <1>15, FormatsFit DEF SdsFmt
  <1>16. ASSUME NEW c \in Letters, SdsTrim(c) PROVE Fits(s')
    BY <1>1, <1>16, TrimFits DEF SdsTrim
  <1>17. ASSUME NEW a \in Ends, NEW b \in Ends, SdsRange(a, b) PROVE Fits(s')
    <2>1. a \in Int /\ b \in Int
      BY SdsAssumption DEF Ends
    <2> QED
      BY <1>1, <1>17, <2>1, RangeFits DEF SdsRange
  <1> QED
    BY <1>2, <1>3, <1>4, <1>5, <1>6, <1>7, <1>8, <1>9, <1>10, <1>11, <1>12, <1>13, <1>14, <1>15, <1>16, <1>17
       DEF SdsNext

LEMMA InvFits == ASSUME SdsInv PROVE SdsFits
  <1> SUFFICES ASSUME s # NoSds
               PROVE  /\ ~s.wild /\ s.len <= sdsalloc(s) /\ sdsalloc(s) < Len(s.buf)
                      /\ s.buf[s.len + 1] = 0 /\ \A i \in 1 .. s.len : s.buf[i] # Junk
    BY DEF SdsFits
  <1>1. Fits(s) /\ Loose(s)
    BY DEF SdsInv, Fits
  <1>2. \A i \in 1 .. s.len : s.buf[i] \in Bytes
    BY <1>1, LooseIs
  <1>3. \A i \in 1 .. s.len : s.buf[i] # Junk
    BY <1>2, Limits
  <1> QED
    BY <1>1, <1>3, LooseIs DEF Fits

(* No sequence of the library's calls brings a string to a header, a length *)
(* or a free space its memory does not have: nothing is written behind the  *)
(* block, the terminator is where the length says, and no byte of the text  *)
(* is one that was never set.                                               *)
THEOREM SdsStays == SdsSpec => []SdsFits
  <1>1. SdsInit => SdsInv
    BY DEF SdsInit, SdsInv
  <1>2. SdsInv /\ [SdsNext]_s => SdsInv'
    <2>1. CASE SdsNext
      BY <2>1, SdsStep
    <2>2. CASE UNCHANGED s
      BY <2>2 DEF SdsInv, Fits, Loose, Sized
    <2> QED
      BY <2>1, <2>2
  <1>3. SdsInv => SdsFits
    BY InvFits
  <1> QED
    BY <1>1, <1>2, <1>3, PTL DEF SdsSpec

-----------------------------------------------------------------------------
(* epollhttpd/epoll.c.  encode_str is a fold over the name: E is what the  *)
(* function behind the fold gives for the name q.  It is the loop's turn   *)
(* on what that function gives for the name without its last character.    *)
Chars == 1 .. 255
EncodeFold(q, f) ==
    f = [u \in SUBSET (DOMAIN q) |-> IF u = {} THEN <<>> ELSE Escape(f[u \ {Max(u)}], q[Max(u)])]
Encodes(q, E) == (\E f : EncodeFold(q, f)) /\ \A f : EncodeFold(q, f) => f[DOMAIN q] = E

LEMMA EncodedIs == ASSUME NEW q, NEW E, Encodes(q, E) PROVE encode_str(q) = E
  <1>1. encode_str(q) = (CHOOSE f : EncodeFold(q, f))[DOMAIN q]
    BY DEF encode_str, FoldLeft, MapThenFoldSet, EncodeFold
  <1> QED
    BY <1>1 DEF Encodes

LEMMA EncodesNone == Encodes(<<>>, <<>>)
  <1>1. DOMAIN <<>> = {}
    OBVIOUS
  <1> DEFINE g == [u \in SUBSET {} |-> <<>>]
  <1>2. EncodeFold(<<>>, g)
    BY <1>1 DEF EncodeFold
  <1>3. ASSUME NEW f, EncodeFold(<<>>, f) PROVE f[{}] = <<>>
    BY <1>1, <1>3 DEF EncodeFold
  <1> QED
    BY <1>1, <1>2, <1>3 DEF Encodes

(* The greatest of the numbers up to n + 1 that are in u. *)
LEMMA GreatestIs ==
  ASSUME NEW n \in Nat, NEW u \in SUBSET (1 .. n + 1), n + 1 \in u
  PROVE  Max(u) = n + 1 /\ u \ {n + 1} \in SUBSET (1 .. n)
  <1>1. n + 1 \in u /\ \A y \in u : n + 1 >= y
    OBVIOUS
  <1>2. Max(u) \in u /\ \A y \in u : Max(u) >= y
    BY <1>1 DEF Max
  <1>3. Max(u) = n + 1
    <2> DEFINE m == Max(u)
    <2>1. m \in u /\ m >= n + 1 /\ n + 1 >= m
      BY <1>1, <1>2
    <2> HIDE DEF m
    <2>2. m \in Int
      BY <2>1
    <2>3. m = n + 1
      BY <2>1, <2>2
    <2> QED
      BY <2>3 DEF m
  <1>4. \A y \in u \ {n + 1} : y \in 1 .. n
    OBVIOUS
  <1> QED
    BY <1>3, <1>4

LEMMA GreatestIn ==
  ASSUME NEW n \in Nat, NEW u \in SUBSET (1 .. n), u # {}
  PROVE  Max(u) \in u
  <1> DEFINE S == {k \in Nat : \E y \in u : k = n - y}
  <1>1. S \in SUBSET Nat /\ S # {}
    <2>1. \A y \in u : n - y \in Nat
      OBVIOUS
    <2> QED
      BY <2>1
  <1>2. PICK k \in S : \A y \in S : k <= y
    BY <1>1, Least
  <1>3. PICK x \in u : k = n - x
    BY <1>2
  <1>4. \A y \in u : n - x <= n - y
    <2>1. \A y \in u : n - y \in S
      OBVIOUS
    <2> QED
      BY <1>2, <1>3, <2>1
  <1>5. \A y \in u : x >= y
    BY <1>4
  <1> QED
    BY <1>3, <1>5 DEF Max

LEMMA EncodesMore ==
  ASSUME NEW T, NEW q \in Seq(T), NEW c \in T, NEW E, Encodes(q, E)
  PROVE  Encodes(Append(q, c), Escape(E, c))
  <1> DEFINE n == Len(q)
             r == Append(q, c)
             V(f, u) == IF u = {} THEN <<>> ELSE Escape(f[u \ {Max(u)}], q[Max(u)])
             W(f, u) == IF u = {} THEN <<>> ELSE Escape(f[u \ {Max(u)}], r[Max(u)])
  <1>1. n \in Nat /\ DOMAIN q = 1 .. n /\ DOMAIN r = 1 .. n + 1 /\ r[n + 1] = c /\ \A i \in 1 .. n : r[i] = q[i]
    OBVIOUS
  <1> HIDE DEF n, r
  <1>2. \A f : EncodeFold(q, f) <=> f = [u \in SUBSET (1 .. n) |-> V(f, u)]
    BY <1>1 DEF EncodeFold
  <1>3. \A f : EncodeFold(r, f) <=> f = [u \in SUBSET (1 .. n + 1) |-> W(f, u)]
    BY <1>1 DEF EncodeFold
  <1>4. \A u \in SUBSET (1 .. n) : \A f : u \in SUBSET (1 .. n + 1) /\ W(f, u) = V(f, u) /\ (u # {} => u \ {Max(u)} \in SUBSET (1 .. n))
    <2> SUFFICES ASSUME NEW u \in SUBSET (1 .. n), NEW f
                 PROVE  u \in SUBSET (1 .. n + 1) /\ W(f, u) = V(f, u) /\ (u # {} => u \ {Max(u)} \in SUBSET (1 .. n))
      OBVIOUS
    <2>1. u # {} => Max(u) \in u
      BY <1>1, GreatestIn
    <2>2. u # {} => r[Max(u)] = q[Max(u)]
      BY <1>1, <2>1
    <2>3. u \in SUBSET (1 .. n + 1)
      BY <1>1
    <2>4. u \ {Max(u)} \in SUBSET (1 .. n)
      OBVIOUS
    <2> QED
      BY <2>2, <2>3, <2>4
  <1>5. \A u \in SUBSET (1 .. n + 1) : n + 1 \in u => Max(u) = n + 1 /\ u \ {n + 1} \in SUBSET (1 .. n)
    BY <1>1, GreatestIs
  <1>6. \A u \in SUBSET (1 .. n + 1) : n + 1 \notin u => u \in SUBSET (1 .. n)
    BY <1>1
  <1>7. 1 .. n + 1 \in SUBSET (1 .. n + 1) /\ n + 1 \in 1 .. n + 1 /\ (1 .. n + 1) \ {n + 1} = 1 .. n /\ 1 .. n \in SUBSET (1 .. n)
        /\ 1 .. n + 1 # {}
    <2>1. n + 1 \in 1 .. n + 1
      BY <1>1
    <2>2. \A i : i \in (1 .. n + 1) \ {n + 1} <=> i \in 1 .. n
      BY <1>1
    <2> QED
      BY <2>1, <2>2
  <1>8. \E f : EncodeFold(r, f)
    <2>1. PICK f : EncodeFold(q, f)
      BY DEF Encodes
    <2>2. \A u \in SUBSET (1 .. n) : f[u] = V(f, u)
      BY <1>2, <2>1
    <2> DEFINE g == [u \in SUBSET (1 .. n + 1) |-> IF n + 1 \in u THEN Escape(f[u \ {n + 1}], c) ELSE f[u]]
    <2>3. \A u \in SUBSET (1 .. n) : g[u] = f[u]
      BY <1>1, <1>4
    <2>4. \A u \in SUBSET (1 .. n + 1) : n + 1 \in u => g[u] = Escape(f[u \ {n + 1}], c)
      OBVIOUS
    <2>5. g = [u \in SUBSET (1 .. n + 1) |-> g[u]]
      OBVIOUS
    <2> HIDE DEF g, V, W
    <2>6. ASSUME NEW u \in SUBSET (1 .. n + 1) PROVE g[u] = W(g, u)
      <3>1. CASE n + 1 \in u
        <4>1. Max(u) = n + 1 /\ u \ {n + 1} \in SUBSET (1 .. n) /\ u # {}
          BY <1>5, <3>1
        <4>2. g[u \ {n + 1}] = f[u \ {n + 1}] /\ g[u] = Escape(f[u \ {n + 1}], c)
          BY <2>3, <2>4, <3>1, <4>1
        <4>3. W(g, u) = Escape(g[u \ {n + 1}], c)
          BY <1>1, <4>1 DEF W
        <4> QED
          BY <4>2, <4>3
      <3>2. CASE n + 1 \notin u
        <4>1. u \in SUBSET (1 .. n)
          BY <1>6, <3>2
        <4>2. W(g, u) = V(g, u) /\ (u # {} => u \ {Max(u)} \in SUBSET (1 .. n))
          BY <1>4, <4>1
        <4>3. V(g, u) = V(f, u)
          BY <2>3, <4>2 DEF V
        <4> QED
          BY <2>2, <2>3, <4>1, <4>2, <4>3
      <3> QED
        BY <3>1, <3>2
    <2>7. g = [u \in SUBSET (1 .. n + 1) |-> W(g, u)]
      BY <2>5, <2>6
    <2> QED
      BY <1>3, <2>7
  <1>9. ASSUME NEW g, EncodeFold(r, g) PROVE g[DOMAIN r] = Escape(E, c)
    <2> DEFINE f == [u \in SUBSET (1 .. n) |-> g[u]]
    <2>1. \A u \in SUBSET (1 .. n + 1) : g[u] = W(g, u)
      BY <1>3, <1>9
    <2>2. \A u \in SUBSET (1 .. n) : f[u] = g[u]
      OBVIOUS
    <2>3. f = [u \in SUBSET (1 .. n) |-> f[u]]
      OBVIOUS
    <2> HIDE DEF f, V, W
    <2>4. ASSUME NEW u \in SUBSET (1 .. n) PROVE f[u] = V(f, u)
      <3>1. u \in SUBSET (1 .. n + 1) /\ W(g, u) = V(g, u) /\ (u # {} => u \ {Max(u)} \in SUBSET (1 .. n))
        BY <1>4
      <3>2. V(f, u) = V(g, u)
        BY <2>2, <3>1 DEF V
      <3> QED
        BY <2>1, <2>2, <3>1, <3>2
    <2>5. f = [u \in SUBSET (1 .. n) |-> V(f, u)]
      BY <2>3, <2>4
    <2>6. f[1 .. n] = E
      BY <1>1, <1>2, <2>5 DEF Encodes
    <2>7. g[1 .. n + 1] = Escape(g[1 .. n], c)
      <3>1. Max(1 .. n + 1) = n + 1
        BY <1>5, <1>7
      <3>2. g[1 .. n + 1] = W(g, 1 .. n + 1)
        BY <1>7, <2>1
      <3>3. W(g, 1 .. n + 1) = Escape(g[(1 .. n + 1) \ {n + 1}], c)
        BY <1>1, <1>7, <3>1 DEF W
      <3> QED
        BY <1>7, <3>2, <3>3
    <2> QED
      BY <1>1, <1>7, <2>2, <2>6, <2>7
  <1> QED
    BY <1>8, <1>9 DEF Encodes, r

-----------------------------------------------------------------------------
(* decode_str: what it makes of the characters of X from place i on.       *)
At(X, i) == IF i <= Len(X) THEN X[i] ELSE 0
RestAt(X, f, i) ==
    CASE i > Len(X) -> <<>>
      [] X[i] = 37 /\ isxdigit(At(X, i + 1)) /\ isxdigit(At(X, i + 2)) ->
            <<hexit(X[i + 1]) * 16 + hexit(X[i + 2])>> \o (IF i + 3 <= Len(X) THEN f[i + 3] ELSE <<>>)
      [] OTHER -> <<X[i]>> \o f[i + 1]
DecodeFrom(X, f, b) == f = [i \in b .. Len(X) + 2 |-> RestAt(X, f, i)]

LEMMA DecodedIs == ASSUME NEW X PROVE decode_str(X) = (CHOOSE f : DecodeFrom(X, f, 1))[1]
  BY Zenon DEF decode_str, DecodeFrom, RestAt, At

LEMMA RestNone == ASSUME NEW X \in Seq(Chars), NEW f, NEW i \in Nat, i > Len(X) PROVE RestAt(X, f, i) = <<>>
  <1>1. At(X, i + 1) = 0
    <2>1. ~(i + 1 <= Len(X))
      OBVIOUS
    <2> QED
      BY <2>1 DEF At
  <1>2. ~isxdigit(0)
    BY DEF isxdigit, Digits
  <1>3. ~isxdigit(At(X, i + 1))
    BY <1>1, <1>2
  <1> QED
    BY <1>3, SMT DEF RestAt

(* There is such a function, from the last place backwards. *)
LEMMA DecodeExists == ASSUME NEW X \in Seq(Chars) PROVE \E f : DecodeFrom(X, f, 1)
  <1> DEFINE z == Len(X) + 2
             S == {d \in 0 .. z - 1 : ~\E f : DecodeFrom(X, f, z - d)}
  <1> SUFFICES ASSUME S # {} PROVE FALSE
    <2>1. z - 1 \in 0 .. z - 1 /\ z - (z - 1) = 1
      OBVIOUS
    <2> HIDE DEF z
    <2> QED
      BY <2>1
  <1>1. z \in Nat /\ z >= 2 /\ Len(X) = z - 2
    OBVIOUS
  <1> HIDE DEF z
  <1>2. S \in SUBSET Nat
    BY <1>1
  <1>3. PICK d \in S : \A y \in S : d <= y
    BY <1>2, Least
  <1>4. d \in 0 .. z - 1 /\ d \in Nat /\ ~\E f : DecodeFrom(X, f, z - d)
    BY <1>3
  <1> HIDE DEF S
  <1>5. CASE d = 0
    <2> DEFINE f == [i \in z .. z |-> <<>>]
    <2>1. f = [i \in z .. z |-> f[i]]
      OBVIOUS
    <2>2. \A i \in z .. z : f[i] = <<>> /\ i > Len(X)
      BY <1>1
    <2> HIDE DEF f
    <2>3. \A i \in z .. z : f[i] = RestAt(X, f, i)
      <3> SUFFICES ASSUME NEW i \in z .. z PROVE f[i] = RestAt(X, f, i)
        OBVIOUS
      <3>1. f[i] = <<>> /\ i > Len(X) /\ i \in Nat
        BY <1>1, <2>2
      <3>2. RestAt(X, f, i) = <<>>
        BY <3>1, RestNone
      <3> QED
        BY <3>1, <3>2
    <2>4. f = [i \in z .. z |-> RestAt(X, f, i)]
      BY <2>1, <2>3
    <2>5. z - d = z /\ Len(X) + 2 = z
      BY <1>1, <1>5
    <2> QED
      BY <1>4, <2>4, <2>5 DEF DecodeFrom
  <1>6. CASE d # 0
    <2> DEFINE b == z - d
    <2>1. d - 1 \in 0 .. z - 1 /\ z - (d - 1) = b + 1 /\ b \in Nat /\ b < z /\ b >= 1 /\ d - 1 \notin S
      <3>1. d - 1 \notin S
        BY <1>3, <1>4, <1>6
      <3> QED
        BY <1>1, <1>4, <1>6, <3>1
    <2> HIDE DEF b
    <2>2. PICK f : DecodeFrom(X, f, b + 1)
      BY <2>1 DEF S
    <2> DEFINE g == [i \in b .. z |-> IF i = b THEN RestAt(X, f, b) ELSE f[i]]
    <2>3. \A i \in b + 1 .. z : f[i] = RestAt(X, f, i)
      <3>1. Len(X) + 2 = z
        BY <1>1
      <3> QED
        BY <2>2, <3>1 DEF DecodeFrom
    <2>4. g[b] = RestAt(X, f, b) /\ g = [i \in b .. z |-> g[i]]
      <3>1. b \in b .. z
        BY <1>1, <2>1
      <3>2. g[b] = RestAt(X, f, b)
        BY <3>1
      <3>3. g = [i \in b .. z |-> g[i]]
        BY Zenon
      <3> QED
        BY <3>2, <3>3
    <2>5. \A i \in b + 1 .. z : g[i] = f[i]
      BY <2>1
    <2> HIDE DEF g
    <2>6. \A i \in b .. z : g[i] = RestAt(X, g, i)
      <3> SUFFICES ASSUME NEW i \in b .. z PROVE g[i] = RestAt(X, g, i)
        OBVIOUS
      <3>1. RestAt(X, g, i) = RestAt(X, f, i)
        <4>1. i <= Len(X) => g[i + 1] = f[i + 1]
          BY <1>1, <2>1, <2>5
        <4>2. i + 3 <= Len(X) => g[i + 3] = f[i + 3]
          BY <1>1, <2>1, <2>5
        <4>3. i > Len(X) \/ i <= Len(X)
          BY <2>1
        <4> QED
          BY <4>1, <4>2, <4>3 DEF RestAt
      <3>2. i = b \/ i \in b + 1 .. z
        BY <2>1
      <3> QED
        BY <2>3, <2>4, <2>5, <3>1, <3>2
    <2>7. g = [i \in b .. z |-> RestAt(X, g, i)]
      BY <2>4, <2>6
    <2>8. Len(X) + 2 = z
      BY <1>1
    <2> QED
      BY <1>4, <2>7, <2>8 DEF DecodeFrom, b
  <1> QED
    BY <1>5, <1>6

(* X is the characters n one after the other, each plain or escaped: n[k]  *)
(* stands from p[k] on, up to p[k + 1].  decode_str makes n of it.         *)
Token(X, i, c, j) ==
    /\ i \in 1 .. Len(X)
    /\ \/ X[i] = c /\ c # 37 /\ j = i + 1
       \/ /\ X[i] = 37 /\ j = i + 3 /\ j <= Len(X) + 1 /\ isxdigit(X[i + 1]) /\ isxdigit(X[i + 2])
          /\ hexit(X[i + 1]) * 16 + hexit(X[i + 2]) = c
CodedAt(X, n, p) ==
    /\ X \in Seq(Chars) /\ n \in Seq(Chars) /\ p \in [1 .. Len(n) + 1 -> Nat]
    /\ p[1] = 1 /\ p[Len(n) + 1] = Len(X) + 1
    /\ \A k \in 1 .. Len(n) : Token(X, p[k], n[k], p[k + 1])
Coded(X, n) == \E p : CodedAt(X, n, p)

LEMMA TokenDecodes ==
  ASSUME NEW X \in Seq(Chars), NEW f, NEW i, NEW c, NEW j, Token(X, i, c, j), f[Len(X) + 1] = <<>>
  PROVE  RestAt(X, f, i) = <<c>> \o f[j]
  <1>1. Len(X) \in Nat /\ i \in 1 .. Len(X)
    BY DEF Token
  <1>2. CASE X[i] = c /\ c # 37 /\ j = i + 1
    BY <1>1, <1>2 DEF RestAt
  <1>3. CASE /\ X[i] = 37 /\ j = i + 3 /\ j <= Len(X) + 1 /\ isxdigit(X[i + 1]) /\ isxdigit(X[i + 2])
             /\ hexit(X[i + 1]) * 16 + hexit(X[i + 2]) = c
    <2>1. At(X, i + 1) = X[i + 1] /\ At(X, i + 2) = X[i + 2]
      BY <1>1, <1>3 DEF At
    <2>2. (IF i + 3 <= Len(X) THEN f[i + 3] ELSE <<>>) = f[j]
      BY <1>1, <1>3
    <2> QED
      BY <1>1, <1>3, <2>1, <2>2 DEF RestAt
  <1> QED
    BY <1>2, <1>3 DEF Token

LEMMA SubSeqStep ==
  ASSUME NEW T, NEW n \in Seq(T), NEW k \in 1 .. Len(n)
  PROVE  <<n[k]>> \o SubSeq(n, k + 1, Len(n)) = SubSeq(n, k, Len(n))
  OBVIOUS

LEMMA CodedDecodes == ASSUME NEW X, NEW n, Coded(X, n) PROVE decode_str(X) = n
  <1> DEFINE F == CHOOSE f : DecodeFrom(X, f, 1)
             m == Len(n)
  <1>1. PICK p : CodedAt(X, n, p)
    BY DEF Coded
  <1>2. X \in Seq(Chars) /\ n \in Seq(Chars) /\ p \in [1 .. m + 1 -> Nat] /\ m \in Nat /\ Len(X) \in Nat
        /\ p[1] = 1 /\ p[m + 1] = Len(X) + 1 /\ \A k \in 1 .. m : Token(X, p[k], n[k], p[k + 1])
    BY <1>1 DEF CodedAt
  <1>3. DecodeFrom(X, F, 1)
    BY <1>2, DecodeExists
  <1> HIDE DEF F
  <1>4. \A i \in 1 .. Len(X) + 2 : F[i] = RestAt(X, F, i)
    BY <1>3 DEF DecodeFrom
  <1>5. F[Len(X) + 1] = <<>>
    <2>1. Len(X) + 1 \in 1 .. Len(X) + 2 /\ Len(X) + 1 > Len(X)
      BY <1>2
    <2>2. RestAt(X, F, Len(X) + 1) = <<>>
      BY <1>2, <2>1, RestNone
    <2> QED
      BY <1>4, <2>1, <2>2
  <1> DEFINE S == {d \in 0 .. m : F[p[m + 1 - d]] # SubSeq(n, m + 1 - d, m)}
  <1>6. S = {}
    <2> SUFFICES ASSUME S # {} PROVE FALSE
      OBVIOUS
    <2>1. S \in SUBSET Nat
      BY <1>2
    <2>2. PICK d \in S : \A y \in S : d <= y
      BY <2>1, Least
    <2> DEFINE k == m + 1 - d
    <2>3. d \in 0 .. m /\ F[p[k]] # SubSeq(n, k, m) /\ k \in 1 .. m + 1
      BY <1>2, <2>2
    <2>4. d # 0
      <3>1. SubSeq(n, m + 1, m) = <<>>
        BY <1>2
      <3>2. d = 0 => m + 1 - d = m + 1
        BY <1>2
      <3>3. d = 0 => F[p[m + 1]] # SubSeq(n, m + 1, m)
        BY <2>3, <3>2
      <3> QED
        BY <1>2, <1>5, <3>1, <3>3
    <2>5. d - 1 \in 0 .. m /\ d - 1 \notin S /\ m + 1 - (d - 1) = k + 1 /\ k \in 1 .. m
      <3>1. d - 1 \in 0 .. m /\ m + 1 - (d - 1) = k + 1 /\ k \in 1 .. m /\ ~(d <= d - 1)
        BY <1>2, <2>3, <2>4
      <3>2. d - 1 \notin S
        BY <2>2, <3>1, Zenon
      <3> QED
        BY <3>1, <3>2
    <2>6. F[p[k + 1]] = SubSeq(n, k + 1, m)
      BY <2>5
    <2> HIDE DEF k, S
    <2>7. Token(X, p[k], n[k], p[k + 1]) /\ p[k] \in 1 .. Len(X)
      BY <1>2, <2>5 DEF Token
    <2>8. F[p[k]] = <<n[k]>> \o F[p[k + 1]]
      <3>1. RestAt(X, F, p[k]) = <<n[k]>> \o F[p[k + 1]]
        <4> DEFINE pk == p[k]
                   nk == n[k]
                   pl == p[k + 1]
        <4>1. Token(X, pk, nk, pl)
          BY <2>7
        <4> HIDE DEF pk, nk, pl
        <4>2. RestAt(X, F, pk) = <<nk>> \o F[pl]
          BY <1>2, <1>5, <4>1, TokenDecodes
        <4> QED
          BY <4>2 DEF pk, nk, pl
      <3>2. p[k] \in 1 .. Len(X) + 2
        BY <1>2, <2>7
      <3> QED
        BY <1>4, <3>1, <3>2
    <2>9. <<n[k]>> \o SubSeq(n, k + 1, m) = SubSeq(n, k, m)
      <3>1. <<n[k]>> \o SubSeq(n, k + 1, Len(n)) = SubSeq(n, k, Len(n))
        BY <1>2, <2>5, SubSeqStep
      <3> QED
        BY <3>1
    <2> QED
      BY <2>3, <2>6, <2>8, <2>9
  <1>7. F[p[1]] = SubSeq(n, 1, m)
    <2>1. m \in 0 .. m /\ m + 1 - m = 1
      BY <1>2
    <2>2. m \notin S
      BY <1>6
    <2> QED
      BY <2>1, <2>2
  <1>8. SubSeq(n, 1, m) = n
    BY <1>2
  <1> QED
    BY <1>2, <1>7, <1>8, DecodedIs DEF F

LEMMA TokenLeft ==
  ASSUME NEW X \in Seq(Chars), NEW Y \in Seq(Chars), NEW i, NEW c, NEW j, Token(X, i, c, j)
  PROVE  Token(X \o Y, i, c, j)
  <1> DEFINE Z == X \o Y
  <1>1. Len(Z) = Len(X) + Len(Y) /\ (\A k \in 1 .. Len(X) : Z[k] = X[k]) /\ Len(X) \in Nat /\ Len(Y) \in Nat
    OBVIOUS
  <1> HIDE DEF Z
  <1>2. i \in 1 .. Len(X) /\ i \in 1 .. Len(Z) /\ Z[i] = X[i]
    BY <1>1 DEF Token
  <1>3. j = i + 3 /\ j <= Len(X) + 1 => j <= Len(Z) + 1 /\ Z[i + 1] = X[i + 1] /\ Z[i + 2] = X[i + 2]
    <2> SUFFICES ASSUME j = i + 3, j <= Len(X) + 1
                 PROVE  j <= Len(Z) + 1 /\ Z[i + 1] = X[i + 1] /\ Z[i + 2] = X[i + 2]
      OBVIOUS
    <2>1. i + 1 \in 1 .. Len(X) /\ i + 2 \in 1 .. Len(X)
      BY <1>1, <1>2
    <2>2. j <= Len(Z) + 1
      BY <1>1, <1>2
    <2> QED
      BY <1>1, <2>1, <2>2
  <1> QED
    BY <1>2, <1>3 DEF Token, Z

LEMMA TokenRight ==
  ASSUME NEW X \in Seq(Chars), NEW Y \in Seq(Chars), NEW i \in Nat, NEW c, NEW j \in Nat, Token(Y, i, c, j)
  PROVE  Token(X \o Y, Len(X) + i, c, Len(X) + j)
  <1> DEFINE Z == X \o Y
             l == Len(X)
  <1>1. Len(Z) = l + Len(Y) /\ (\A k \in 1 .. Len(Y) : Z[l + k] = Y[k]) /\ l \in Nat /\ Len(Y) \in Nat
    OBVIOUS
  <1> HIDE DEF Z, l
  <1>2. i \in 1 .. Len(Y) /\ l + i \in 1 .. Len(Z) /\ Z[l + i] = Y[i]
    BY <1>1 DEF Token
  <1>3. j = i + 1 => l + j = (l + i) + 1
    BY <1>1
  <1>4. j = i + 3 /\ j <= Len(Y) + 1 =>
          l + j = (l + i) + 3 /\ l + j <= Len(Z) + 1 /\ Z[(l + i) + 1] = Y[i + 1] /\ Z[(l + i) + 2] = Y[i + 2]
    <2> SUFFICES ASSUME j = i + 3, j <= Len(Y) + 1
                 PROVE  l + j = (l + i) + 3 /\ l + j <= Len(Z) + 1 /\ Z[(l + i) + 1] = Y[i + 1] /\ Z[(l + i) + 2] = Y[i + 2]
      OBVIOUS
    <2>1. i + 1 \in 1 .. Len(Y) /\ i + 2 \in 1 .. Len(Y) /\ (l + i) + 1 = l + (i + 1) /\ (l + i) + 2 = l + (i + 2)
      <3>1. l \in Nat /\ Len(Y) \in Nat
        BY <1>1
      <3>2. i \in 1 .. Len(Y)
        BY <1>2
      <3>3. i + 3 <= Len(Y) + 1
        OBVIOUS
      <3> QED
        BY <3>1, <3>2, <3>3
    <2>2. l + j = (l + i) + 3 /\ l + j <= Len(Z) + 1
      BY <1>1, <1>2
    <2> QED
      BY <1>1, <2>1, <2>2
  <1>5. Token(Z, l + i, c, l + j)
    BY <1>2, <1>3, <1>4 DEF Token
  <1> QED
    BY <1>5 DEF Z, l

LEMMA CodedCat ==
  ASSUME NEW X, NEW n, NEW Y, NEW m, Coded(X, n), Coded(Y, m)
  PROVE  Coded(X \o Y, n \o m)
  <1>1. PICK p : CodedAt(X, n, p)
    BY DEF Coded
  <1>2. PICK q : CodedAt(Y, m, q)
    BY DEF Coded
  <1> DEFINE Z == X \o Y
             o == n \o m
             a == Len(n)
             b == Len(m)
             l == Len(X)
             r == [k \in 1 .. a + b + 1 |-> IF k <= a THEN p[k] ELSE l + q[k - a]]
  <1>3. X \in Seq(Chars) /\ n \in Seq(Chars) /\ p \in [1 .. a + 1 -> Nat] /\ p[1] = 1 /\ p[a + 1] = l + 1
        /\ \A k \in 1 .. a : Token(X, p[k], n[k], p[k + 1])
    BY <1>1 DEF CodedAt
  <1>4. Y \in Seq(Chars) /\ m \in Seq(Chars) /\ q \in [1 .. b + 1 -> Nat] /\ q[1] = 1 /\ q[b + 1] = Len(Y) + 1
        /\ \A k \in 1 .. b : Token(Y, q[k], m[k], q[k + 1])
    BY <1>2 DEF CodedAt
  <1>5. Z \in Seq(Chars) /\ o \in Seq(Chars) /\ Len(o) = a + b /\ Len(Z) = l + Len(Y)
        /\ (\A k \in 1 .. a : o[k] = n[k]) /\ (\A k \in 1 .. b : o[a + k] = m[k])
        /\ a \in Nat /\ b \in Nat /\ l \in Nat /\ Len(Y) \in Nat
    BY <1>3, <1>4
  <1>6. \A i, c, j : Token(X, i, c, j) => Token(Z, i, c, j)
    BY <1>3, <1>4, TokenLeft
  <1>7. \A i, j \in Nat : \A c : Token(Y, i, c, j) => Token(Z, l + i, c, l + j)
    BY <1>3, <1>4, TokenRight
  <1> HIDE DEF a, b, l, Z, o
  <1>8. (\A k \in 1 .. a : r[k] = p[k]) /\ (\A k \in a + 1 .. a + b + 1 : r[k] = l + q[k - a])
    <2>1. ASSUME NEW k \in 1 .. a PROVE r[k] = p[k]
      <3>1. k \in 1 .. a + b + 1 /\ k <= a
        BY <1>5
      <3> QED
        BY <3>1
    <2>2. ASSUME NEW k \in a + 1 .. a + b + 1 PROVE r[k] = l + q[k - a]
      <3>1. k \in 1 .. a + b + 1 /\ ~(k <= a)
        BY <1>5
      <3> QED
        BY <3>1
    <2> QED
      BY <2>1, <2>2
  <1>9. r[a + 1] = p[a + 1]
    <2>1. a + 1 \in a + 1 .. a + b + 1 /\ (a + 1) - a = 1
      BY <1>5
    <2> QED
      BY <1>3, <1>4, <1>8, <2>1
  <1>10. r \in [1 .. a + b + 1 -> Nat]
    <2>1. ASSUME NEW k \in 1 .. a + b + 1 PROVE r[k] \in Nat
      <3>1. k <= a => k \in 1 .. a /\ k \in 1 .. a + 1
        BY <1>5
      <3>2. ~(k <= a) => k \in a + 1 .. a + b + 1 /\ k - a \in 1 .. b + 1
        BY <1>5
      <3>3. k <= a => r[k] \in Nat
        BY <1>3, <1>8, <3>1
      <3>4. ~(k <= a) => q[k - a] \in Nat /\ r[k] = l + q[k - a]
        BY <1>4, <1>8, <3>2
      <3> QED
        BY <1>5, <3>3, <3>4
    <2> QED
      BY <2>1
  <1>11. r[1] = 1
    <2>1. a = 0 \/ 1 \in 1 .. a
      BY <1>5
    <2>2. a = 0 => a + 1 = 1
      OBVIOUS
    <2> QED
      BY <1>3, <1>8, <1>9, <2>1, <2>2
  <1>12. r[a + b + 1] = Len(Z) + 1
    <2>1. a + b + 1 \in a + 1 .. a + b + 1 /\ (a + b + 1) - a = b + 1
      BY <1>5
    <2>2. r[a + b + 1] = l + q[b + 1]
      BY <1>8, <2>1
    <2> QED
      BY <1>4, <1>5, <2>2
  <1>13. ASSUME NEW k \in 1 .. a + b PROVE Token(Z, r[k], o[k], r[k + 1])
    <2>1. CASE k \in 1 .. a
      <3>1. r[k] = p[k] /\ o[k] = n[k] /\ Token(X, p[k], n[k], p[k + 1])
        BY <1>3, <1>5, <1>8, <2>1
      <3>2. k + 1 \in 1 .. a \/ k + 1 = a + 1
        BY <1>5, <2>1
      <3>3. r[k + 1] = p[k + 1]
        BY <1>8, <1>9, <3>2
      <3> QED
        BY <1>6, <3>1, <3>3
    <2>2. CASE k \notin 1 .. a
      <3> DEFINE d == k - a
      <3>1. d \in 1 .. b /\ k = a + d /\ k \in a + 1 .. a + b + 1 /\ k + 1 \in a + 1 .. a + b + 1 /\ (k + 1) - a = d + 1
            /\ d \in 1 .. b + 1 /\ d + 1 \in 1 .. b + 1
        <4>1. a \in Nat /\ b \in Nat
          BY <1>5
        <4>2. k \in Nat /\ k >= a + 1 /\ k <= a + b
          BY <2>2, <4>1
        <4> QED
          BY <4>1, <4>2
      <3>2. r[k] = l + q[d] /\ r[k + 1] = l + q[d + 1]
        BY <1>8, <3>1
      <3> HIDE DEF d
      <3>3. o[k] = m[d] /\ Token(Y, q[d], m[d], q[d + 1]) /\ q[d] \in Nat /\ q[d + 1] \in Nat
        BY <1>4, <1>5, <3>1
      <3>4. Token(Z, l + q[d], m[d], l + q[d + 1])
        <4> DEFINE u == q[d]
                   w == q[d + 1]
        <4>1. u \in Nat /\ w \in Nat /\ Token(Y, u, m[d], w)
          BY <3>3
        <4> HIDE DEF u, w
        <4>2. Token(Z, l + u, m[d], l + w)
          BY <1>7, <4>1
        <4> QED
          BY <4>2 DEF u, w
      <3> QED
        BY <3>2, <3>3, <3>4
    <2> QED
      BY <2>1, <2>2
  <1> HIDE DEF r
  <1>14. CodedAt(Z, o, r)
    BY <1>5, <1>10, <1>11, <1>12, <1>13 DEF CodedAt
  <1> QED
    BY <1>14 DEF Coded, Z, o

LEMMA CodedEmpty == Coded(<<>>, <<>>)
  <1> DEFINE p == [k \in 1 .. 1 |-> 1]
  <1>1. p \in [1 .. 1 -> Nat] /\ p[1] = 1
    OBVIOUS
  <1> HIDE DEF p
  <1>2. CodedAt(<<>>, <<>>, p)
    BY <1>1 DEF CodedAt
  <1> QED
    BY <1>2 DEF Coded

LEMMA CodedPlain == ASSUME NEW c \in Chars, c # 37 PROVE Coded(<<c>>, <<c>>)
  <1> DEFINE p == [k \in 1 .. 2 |-> k]
  <1>1. p \in [1 .. 2 -> Nat] /\ p[1] = 1 /\ p[2] = 2
    OBVIOUS
  <1> HIDE DEF p
  <1>2. Token(<<c>>, 1, c, 2)
    BY DEF Token
  <1>3. CodedAt(<<c>>, <<c>>, p)
    <2>1. Len(<<c>>) = 1 /\ <<c>>[1] = c /\ <<c>> \in Seq(Chars)
      OBVIOUS
    <2>2. \A k \in 1 .. 1 : Token(<<c>>, p[k], <<c>>[k], p[k + 1])
      BY <1>1, <1>2, <2>1
    <2> QED
      BY <1>1, <2>1, <2>2 DEF CodedAt
  <1> QED
    BY <1>3 DEF Coded

LEMMA CodedEscape ==
  ASSUME NEW c \in Chars, NEW g \in Chars, NEW h \in Chars, isxdigit(g), isxdigit(h), hexit(g) * 16 + hexit(h) = c
  PROVE  Coded(<<37, g, h>>, <<c>>)
  <1> DEFINE p == [k \in 1 .. 2 |-> IF k = 1 THEN 1 ELSE 4]
             X == <<37, g, h>>
  <1>1. p \in [1 .. 2 -> Nat] /\ p[1] = 1 /\ p[2] = 4
    OBVIOUS
  <1>2. Len(X) = 3 /\ X[1] = 37 /\ X[2] = g /\ X[3] = h /\ X \in Seq(Chars)
    BY DEF Chars
  <1> HIDE DEF p, X
  <1>3. Token(X, 1, c, 4)
    BY <1>2 DEF Token
  <1>4. CodedAt(X, <<c>>, p)
    <2>1. Len(<<c>>) = 1 /\ <<c>>[1] = c /\ <<c>> \in Seq(Chars)
      OBVIOUS
    <2>2. \A k \in 1 .. 1 : Token(X, p[k], <<c>>[k], p[k + 1])
      BY <1>1, <1>3, <2>1
    <2> QED
      BY <1>1, <1>2, <2>1, <2>2 DEF CodedAt
  <1> QED
    BY <1>4 DEF Coded, X

LEMMA HexGives ==
  ASSUME NEW d \in 0 .. 15
  PROVE  HexDigit(d) \in Chars /\ isxdigit(HexDigit(d)) /\ hexit(HexDigit(d)) = d
  <1>1. CASE d < 10
    <2>1. HexDigit(d) = 48 + d /\ 48 + d \in 48 .. 57 /\ 48 + d \in Chars /\ 48 + d \notin 97 .. 102 /\ 48 + d \notin 65 .. 70
      BY <1>1 DEF HexDigit, Chars
    <2>2. hexit(48 + d) = d
      BY <1>1, <2>1 DEF hexit, Digits
    <2> QED
      BY <2>1, <2>2 DEF isxdigit, Digits
  <1>2. CASE ~(d < 10)
    <2>1. HexDigit(d) = 87 + d /\ 87 + d \in 97 .. 102 /\ 87 + d \in Chars /\ 87 + d \notin 48 .. 57 /\ 87 + d \notin 65 .. 70
      BY <1>2 DEF HexDigit, Chars
    <2>2. hexit(87 + d) = d
      BY <1>2, <2>1 DEF hexit, Digits
    <2> QED
      BY <2>1, <2>2 DEF isxdigit, Digits
  <1> QED
    BY <1>1, <1>2

(* What one turn of encode_str writes for a character, where it writes it. *)
Escaped(c) == IF c \in Plain THEN <<c>> ELSE <<37, HexDigit(c \div 16), HexDigit(c % 16)>>

LEMMA CodedEscaped == ASSUME NEW c \in Chars PROVE Coded(Escaped(c), <<c>>) /\ Escaped(c) \in Seq(Chars) /\ Len(Escaped(c)) <= 3
  <1>1. CASE c \in Plain
    <2>1. c # 37
      BY <1>1 DEF Plain, Digits, Upper, Lower
    <2>2. Escaped(c) = <<c>>
      BY <1>1 DEF Escaped
    <2> QED
      BY <2>1, <2>2, CodedPlain
  <1>2. CASE c \notin Plain
    <2> DEFINE hi == c \div 16
               lo == c % 16
               g == HexDigit(hi)
               h == HexDigit(lo)
    <2>1. hi \in 0 .. 15 /\ lo \in 0 .. 15 /\ hi * 16 + lo = c
      BY DEF Chars
    <2>2. Escaped(c) = <<37, g, h>>
      BY <1>2 DEF Escaped
    <2> HIDE DEF hi, lo
    <2>3. g \in Chars /\ isxdigit(g) /\ hexit(g) = hi
      BY <2>1, HexGives
    <2>4. h \in Chars /\ isxdigit(h) /\ hexit(h) = lo
      BY <2>1, HexGives
    <2> HIDE DEF g, h
    <2>5. hexit(g) * 16 + hexit(h) = c
      BY <2>1, <2>3, <2>4
    <2>6. Coded(<<37, g, h>>, <<c>>)
      BY <2>3, <2>4, <2>5, CodedEscape
    <2>7. <<37, g, h>> \in Seq(Chars) /\ Len(<<37, g, h>>) <= 3
      BY <2>3, <2>4 DEF Chars
    <2> QED
      BY <2>2, <2>6, <2>7
  <1> QED
    BY <1>1, <1>2

(* One turn either writes the character'hi escape or, when the buffer is    *)
(* nearly full, nothing.                                                   *)
LEMMA EscapeWrites ==
  ASSUME NEW to, NEW c, Len(to) \in Nat
  PROVE  Escape(to, c) = IF Len(to) + 4 >= tosize THEN to ELSE to \o Escaped(c)
  BY DEF Escape, Escaped

(* What encode_str has for the characters x: it fits its buffer and is the *)
(* coded form of x, or of the beginning of x once the buffer is nearly full. *)
HasEncoded(x, E) ==
    /\ Len(E) < tosize
    /\ \E m \in 0 .. Len(x) : Coded(E, SubSeq(x, 1, m)) /\ (Len(E) + 4 < tosize => m = Len(x))
EhInv ==
    /\ name \in Seq(NameChars) /\ isDir \in BOOLEAN
    /\ \E E \in Seq(Chars) : Encodes(name, E) /\ HasEncoded(name, E)

LEMMA NamesTyped == (\A c \in NameChars : c \in Chars) /\ \A x \in Seq(NameChars) : x \in Seq(Chars)
  <1>1. \A c \in NameChars : c \in Chars
    BY EpollHttpdAssumption DEF Chars
  <1>2. ASSUME NEW x \in Seq(NameChars) PROVE x \in Seq(Chars)
    <2>1. x \in [1 .. Len(x) -> NameChars] /\ Len(x) \in Nat
      OBVIOUS
    <2>2. x \in [1 .. Len(x) -> Chars]
      BY <1>1, <2>1
    <2> QED
      BY <2>1, <2>2
  <1> QED
    BY <1>1, <1>2

LEMMA MoreFits ==
  ASSUME NEW x \in Seq(Chars), NEW c \in Chars, NEW E \in Seq(Chars), HasEncoded(x, E)
  PROVE  Escape(E, c) \in Seq(Chars) /\ HasEncoded(Append(x, c), Escape(E, c))
  <1> DEFINE y == Append(x, c)
             l == Len(x)
             G == E \o Escaped(c)
  <1>1. PICK m \in 0 .. l : Coded(E, SubSeq(x, 1, m)) /\ (Len(E) + 4 < tosize => m = l)
    BY DEF HasEncoded
  <1>2. Len(E) \in Nat /\ l \in Nat /\ tosize \in Nat /\ Len(E) < tosize /\ Len(y) = l + 1
    BY EpollHttpdAssumption DEF HasEncoded
  <1>3. SubSeq(y, 1, m) = SubSeq(x, 1, m) /\ SubSeq(x, 1, l) = x /\ SubSeq(y, 1, l + 1) = y /\ y = x \o <<c>>
    <2>1. SubSeq(y, 1, m) = SubSeq(x, 1, m)
      BY <1>1
    <2>2. SubSeq(x, 1, l) = x
      OBVIOUS
    <2>3. SubSeq(y, 1, l + 1) = y
      OBVIOUS
    <2>4. y = x \o <<c>>
      OBVIOUS
    <2> QED
      BY <2>1, <2>2, <2>3, <2>4
  <1>4. m \in 0 .. l + 1 /\ l + 1 \in 0 .. l + 1
    BY <1>1, <1>2
  <1> HIDE DEF y, l
  <1>5. CASE Len(E) + 4 >= tosize
    <2>1. Escape(E, c) = E
      BY <1>2, <1>5, EscapeWrites
    <2>2. ~(Len(E) + 4 < tosize)
      BY <1>2, <1>5
    <2>3. m \in 0 .. Len(y) /\ Coded(E, SubSeq(y, 1, m))
      BY <1>1, <1>2, <1>3, <1>4
    <2>4. HasEncoded(y, E)
      BY <1>2, <2>2, <2>3 DEF HasEncoded
    <2> QED
      BY <2>1, <2>4 DEF y
  <1>6. CASE ~(Len(E) + 4 >= tosize)
    <2>1. Escape(E, c) = G
      BY <1>2, <1>6, EscapeWrites
    <2>2. Coded(Escaped(c), <<c>>) /\ Escaped(c) \in Seq(Chars) /\ Len(Escaped(c)) <= 3
      BY CodedEscaped
    <2>3. m = l /\ Coded(E, x)
      <3>1. Len(E) + 4 < tosize
        BY <1>2, <1>6
      <3>2. m = l
        BY <1>1, <3>1 DEF l
      <3>3. SubSeq(x, 1, m) = x
        BY <1>3, <3>2
      <3> QED
        BY <1>1, <3>2, <3>3
    <2>4. Coded(G, y)
      BY <1>3, <2>2, <2>3, CodedCat
    <2>5. Len(G) < tosize /\ G \in Seq(Chars)
      <3>1. Len(G) = Len(E) + Len(Escaped(c)) /\ Len(Escaped(c)) \in Nat /\ G \in Seq(Chars)
        BY <2>2
      <3> QED
        BY <1>2, <1>6, <2>2, <3>1
    <2> HIDE DEF G
    <2>6. l + 1 \in 0 .. Len(y) /\ l + 1 = Len(y) /\ Coded(G, SubSeq(y, 1, l + 1))
      BY <1>2, <1>3, <1>4, <2>4
    <2>7. HasEncoded(y, G)
      BY <2>5, <2>6 DEF HasEncoded
    <2> QED
      BY <2>1, <2>5, <2>7 DEF y
  <1> QED
    BY <1>5, <1>6

LEMMA EhStart == EhInit => EhInv
  <1> SUFFICES ASSUME EhInit PROVE EhInv
    OBVIOUS
  <1>1. name = <<>> /\ isDir \in BOOLEAN
    BY DEF EhInit
  <1>2. HasEncoded(<<>>, <<>>)
    <2>1. SubSeq(<<>>, 1, 0) = <<>> /\ 0 \in 0 .. Len(<<>>) /\ Len(<<>>) = 0 /\ 0 < tosize
      BY EpollHttpdAssumption
    <2> QED
      BY <2>1, CodedEmpty DEF HasEncoded
  <1>3. <<>> \in Seq(Chars) /\ <<>> \in Seq(NameChars)
    OBVIOUS
  <1> QED
    BY <1>1, <1>2, <1>3, EncodesNone DEF EhInv

LEMMA EhKeeps == EhInv /\ [EhNext]_ehVars => EhInv'
  <1> SUFFICES ASSUME EhInv, [EhNext]_ehVars PROVE EhInv'
    OBVIOUS
  <1>1. name \in Seq(NameChars) /\ isDir \in BOOLEAN
    BY DEF EhInv
  <1>2. PICK E \in Seq(Chars) : Encodes(name, E) /\ HasEncoded(name, E)
    BY DEF EhInv
  <1>3. ASSUME NEW c \in NameChars, Named(c) PROVE EhInv'
    <2>1. name' = Append(name, c) /\ isDir' = isDir
      BY <1>3 DEF Named
    <2>2. name \in Seq(Chars) /\ c \in Chars
      BY <1>1, NamesTyped
    <2> DEFINE x == Append(name, c)
               G == Escape(E, c)
    <2>3. Encodes(x, G)
      BY <1>1, <1>2, EncodesMore
    <2>4. G \in Seq(Chars) /\ HasEncoded(x, G)
      BY <1>2, <2>2, MoreFits
    <2>5. x \in Seq(NameChars)
      BY <1>1
    <2> HIDE DEF x, G
    <2>6. name' = x
      BY <2>1 DEF x
    <2>7. \E e \in Seq(Chars) : Encodes(x, e) /\ HasEncoded(x, e)
      BY <2>3, <2>4
    <2>8. EhInv' = (/\ name' \in Seq(NameChars) /\ isDir' \in BOOLEAN
                    /\ \E e \in Seq(Chars) : Encodes(name', e) /\ HasEncoded(name', e))
      BY DEF EhInv
    <2> QED
      BY <1>1, <2>1, <2>5, <2>6, <2>7, <2>8
  <1>4. CASE UNCHANGED ehVars
    BY <1>4 DEF EhInv, ehVars, HasEncoded
  <1> QED
    BY <1>3, <1>4 DEF EhNext, EhOver

(* What the browser asks for leads back to what the page had.              *)
LEMMA EhLeads == EhInv => LinksLeadBack
  <1> SUFFICES ASSUME EhInv PROVE LinksLeadBack
    OBVIOUS
  <1>1. PICK E \in Seq(Chars) : Encodes(name, E) /\ HasEncoded(name, E)
    BY DEF EhInv
  <1>2. encode_str(name) = E
    BY <1>1, EncodedIs
  <1>3. name \in Seq(Chars) /\ isDir \in BOOLEAN
    BY NamesTyped DEF EhInv
  <1>4. Len(E) < tosize
    BY <1>1 DEF HasEncoded
  <1>5. PICK m \in 0 .. Len(name) : Coded(E, SubSeq(name, 1, m)) /\ (Len(E) + 4 < tosize => m = Len(name))
    BY <1>1 DEF HasEncoded
  <1> DEFINE slash == IF isDir THEN <<47>> ELSE <<>>
             link == E \o slash
             res == <<47>> \o link
             path == http_get_request(res)
             full == <<47>> \o (name \o slash)
  <1>6. ASSUME Len(E) + 4 < tosize, name # <<>> PROVE path = name \o slash
    <2>1. SubSeq(name, 1, Len(name)) = name
      BY <1>3
    <2>2. Coded(E, name)
      BY <1>5, <1>6, <2>1
    <2>3. 47 \in Chars /\ Coded(<<47>>, <<47>>)
      BY CodedPlain DEF Chars
    <2>4. Coded(slash, slash)
      BY <2>3, CodedEmpty
    <2>5. Coded(link, name \o slash)
      BY <2>2, <2>4, CodedCat
    <2>6. Coded(res, full)
      BY <2>3, <2>5, CodedCat
    <2>7. slash \in Seq(Chars)
      BY <2>3
    <2> HIDE DEF slash
    <2>8. Len(full) = 1 + (Len(name) + Len(slash)) /\ Len(name) >= 1 /\ Len(name) \in Nat /\ Len(slash) \in Nat
      BY <1>3, <1>6, <2>3, <2>7
    <2>9. Tail(full) = name \o slash
      BY <1>3, <2>3, <2>7
    <2> HIDE DEF full, link
    <2>10. decode_str(res) = full
      BY <2>6, CodedDecodes
    <2>11. res # <<47>>
      <3>1. decode_str(<<47>>) = <<47>>
        BY <2>3, CodedDecodes
      <3>2. Len(<<47>>) = 1
        OBVIOUS
      <3>3. full # <<47>>
        BY <2>8, <3>2
      <3> QED
        BY <2>10, <3>1, <3>3
    <2>12. path = Tail(decode_str(res))
      BY <2>11 DEF http_get_request
    <2> QED
      BY <2>9, <2>10, <2>12
  <1>7. IsPrefix(decode_str(E), name)
    <2>1. decode_str(E) = SubSeq(name, 1, m)
      BY <1>5, CodedDecodes
    <2>2. SubSeq(name, 1, m) \in Seq(Chars) /\ Len(SubSeq(name, 1, m)) = m /\ m <= Len(name)
          /\ SubSeq(name, 1, m) = SubSeq(name, 1, m)
      BY <1>3, <1>5
    <2>3. \A i \in 1 .. m : SubSeq(name, 1, m)[i] = name[i]
      BY <1>3, <1>5
    <2> QED
      BY <2>1, <2>2, <2>3 DEF IsPrefix
  <1>8. send_dir = link
    BY <1>2 DEF send_dir
  <1> QED
    BY <1>2, <1>4, <1>6, <1>7, <1>8 DEF LinksLeadBack

(* A link of a listing leads back to the entry it stands for, for every    *)
(* set of characters, every length of names and every size of the buffer.  *)
THEOREM LinksKept == EhSpec => []LinksLeadBack
  <1>1. EhInit => EhInv
    BY EhStart
  <1>2. EhInv /\ [EhNext]_ehVars => EhInv'
    BY EhKeeps
  <1>3. EhInv => LinksLeadBack
    BY EhLeads
  <1> QED
    BY <1>1, <1>2, <1>3, PTL DEF EhSpec
=============================================================================
