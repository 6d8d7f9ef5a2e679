------------------------------- MODULE MyTalk -------------------------------
(***************************************************************************)
(* 9-7mytalk_server.cpp, with 9-6mytalk_client.cpp as its clients: a chat  *)
(* server with one thread and poll.  The table fds is compacted, by moving *)
(* its last entry, while the loop walks over it; users is indexed by       *)
(* descriptor.  One turn of the loop is one action.  A descriptor is the   *)
(* lowest free number; the content of a buffer is left out, write_buf is   *)
(* the descriptor whose buf it points to.                                  *)
(***************************************************************************)
EXTENDS Integers, Sequences, FiniteSets

CONSTANTS Talkers,    \* the connections, numbered in the order of their connecting
          LIMIT,      \* USER_LIMIT
          Null, Wild, \* Wild: a write_buf that new client_data[] leaves unset
          MaxTalk     \* bound: the messages and resets of the clients, together

ASSUME MyTalkAssumption == /\ IsFiniteSet(Talkers) /\ Talkers \subseteq Nat
                           /\ LIMIT \in Nat \ {0} /\ MaxTalk \in Nat /\ Null # Wild
                           /\ {Null, Wild} \cap (1 .. LIMIT) = {}
                           /\ Null \notin Talkers

Rows == 1 .. LIMIT
Fds == 1 .. LIMIT

VARIABLES st,      \* st[c]: "idle", "queued", "open", "closed" by the server
          data, eof, err,  \* of c's connection: unread data, a FIN or RST came, SO_ERROR is set
          queue,   \* the connections not accepted yet
          talk,
          owner,   \* owner[f]: the connection with descriptor f
          fds, events, revents,   \* events[k]: POLLOUT and all the rest is asked for
          user_counter,
          row,     \* i of the loop, -1 in poll
          write_buf

clientVars == <<st, data, eof, err, queue, talk>>
pollVars == <<fds, events, revents, user_counter>>
myVars == <<clientVars, pollVars, owner, row, write_buf>>

MyInit == /\ st = [c \in Talkers |-> "idle"] /\ data = [c \in Talkers |-> FALSE]
          /\ eof = [c \in Talkers |-> FALSE] /\ err = [c \in Talkers |-> FALSE]
          /\ queue = <<>> /\ talk = 0
          /\ owner = [f \in Fds |-> Null]
          /\ fds = [k \in Rows |-> Null] /\ events = [k \in Rows |-> FALSE]
          /\ revents = [k \in Rows \cup {0} |-> {}]
          /\ user_counter = 0 /\ row = -1
          /\ write_buf = [f \in Fds |-> Wild]

-----------------------------------------------------------------------------
(* The clients: they connect, splice what is typed, and go. *)
TalkerConnects(c) ==
    /\ st[c] = "idle" /\ \A b \in Talkers : st[b] = "idle" => c <= b
    /\ st' = [st EXCEPT ![c] = "queued"] /\ queue' = Append(queue, c)
    /\ UNCHANGED <<data, eof, err, talk, pollVars, owner, row, write_buf>>
TalkerSends(c) ==
    /\ st[c] \in {"queued", "open"} /\ ~eof[c] /\ talk < MaxTalk
    /\ data' = [data EXCEPT ![c] = TRUE] /\ talk' = talk + 1
    /\ UNCHANGED <<st, eof, err, queue, pollVars, owner, row, write_buf>>
TalkerLeaves(c) ==
    /\ st[c] \in {"queued", "open"} /\ ~eof[c]
    /\ eof' = [eof EXCEPT ![c] = TRUE]
    /\ UNCHANGED <<st, data, err, queue, talk, pollVars, owner, row, write_buf>>
TalkerResets(c) ==
    /\ st[c] = "open" /\ ~err[c] /\ talk < MaxTalk /\ talk' = talk + 1
    /\ err' = [err EXCEPT ![c] = TRUE] /\ eof' = [eof EXCEPT ![c] = TRUE]
    /\ UNCHANGED <<st, data, queue, pollVars, owner, row, write_buf>>

-----------------------------------------------------------------------------
(* What poll reports of row k. *)
ReventsOnlyAsked(k) ==                                           \* mutant
    LET c == owner[fds[k]] IN
    {e \in {"in", "err", "rdhup", "out"} :
        CASE e = "in" -> data[c] \/ eof[c] [] e = "err" -> err[c]
          [] e = "rdhup" -> eof[c] /\ events[k] [] OTHER -> events[k]}
Revents(k) ==
    LET c == owner[fds[k]] IN
    {e \in {"in", "err", "rdhup", "out"} :
        CASE e = "in" -> data[c] \/ eof[c] [] e = "err" -> err[c]
          [] e = "rdhup" -> eof[c] [] OTHER -> events[k]}
Poll ==
    /\ row = -1
    /\ revents' = [k \in Rows \cup {0} |->
                     IF k = 0 THEN (IF queue = <<>> THEN {} ELSE {"in"})
                     ELSE IF k <= user_counter THEN Revents(k) ELSE revents[k]]
    /\ \E k \in 0 .. user_counter : revents'[k] # {}
    /\ row' = 0
    /\ UNCHANGED <<clientVars, fds, events, user_counter, owner, write_buf>>

NextRow == row' = IF row + 1 > user_counter' THEN -1 ELSE row + 1

(* The listening socket: accept fails, there are too many users, or one is *)
(* entered.                                                                *)
NoAccept ==
    /\ row = 0 /\ user_counter' = user_counter /\ NextRow
    /\ UNCHANGED <<clientVars, fds, events, revents, owner, write_buf>>
RefuseUser ==
    /\ row = 0 /\ "in" \in revents[0] /\ user_counter >= LIMIT
    /\ st' = [st EXCEPT ![Head(queue)] = "closed"] /\ queue' = Tail(queue)
    /\ user_counter' = user_counter /\ NextRow
    /\ UNCHANGED <<data, eof, err, talk, fds, events, revents, owner, write_buf>>
FreeFd == CHOOSE f \in Fds : owner[f] = Null /\ \A g \in Fds : owner[g] = Null => f <= g
EnterKeepsRevents(f) ==                                          \* mutant
    /\ fds' = [fds EXCEPT ![user_counter'] = f]
    /\ events' = [events EXCEPT ![user_counter'] = FALSE] /\ UNCHANGED revents
EnterRow(f) ==
    /\ fds' = [fds EXCEPT ![user_counter'] = f]
    /\ events' = [events EXCEPT ![user_counter'] = FALSE]
    /\ revents' = [revents EXCEPT ![user_counter'] = {}]
AcceptUser ==
    /\ row = 0 /\ "in" \in revents[0] /\ user_counter < LIMIT
    /\ st' = [st EXCEPT ![Head(queue)] = "open"] /\ queue' = Tail(queue)
    /\ user_counter' = user_counter + 1 /\ NextRow
    /\ owner' = [owner EXCEPT ![FreeFd] = Head(queue)]
    /\ EnterRow(FreeFd)
    /\ UNCHANGED <<data, eof, err, talk, write_buf>>

(* A row of a client: the first that applies of POLLERR, POLLRDHUP, POLLIN *)
(* and POLLOUT.                                                            *)
AtRow == row \in 1 .. user_counter
Caller == owner[fds[row]]
ClearError ==
    /\ AtRow /\ "err" \in revents[row]
    /\ err' = [err EXCEPT ![Caller] = FALSE]
    /\ user_counter' = user_counter /\ NextRow
    /\ UNCHANGED <<st, data, eof, queue, talk, fds, events, revents, owner, write_buf>>

(* The last row moves to this one, which is looked at again. *)
RemoveKeepsRow ==                                                \* mutant
    /\ write_buf' = [write_buf EXCEPT ![fds[row]] = write_buf[fds[user_counter]]]
    /\ UNCHANGED <<fds, events, revents>>
RemoveCopiesBack ==                                              \* mutant
    /\ write_buf' = [write_buf EXCEPT ![fds[user_counter]] = write_buf[fds[row]]]
    /\ fds' = [fds EXCEPT ![row] = fds[user_counter]]
    /\ events' = [events EXCEPT ![row] = events[user_counter]]
    /\ revents' = [revents EXCEPT ![row] = revents[user_counter]]
MoveLast ==
    /\ write_buf' = [write_buf EXCEPT ![fds[row]] = write_buf[fds[user_counter]]]
    /\ fds' = [fds EXCEPT ![row] = fds[user_counter]]
    /\ events' = [events EXCEPT ![row] = events[user_counter]]
    /\ revents' = [revents EXCEPT ![row] = revents[user_counter]]
RemoveUser ==
    /\ MoveLast
    /\ owner' = [owner EXCEPT ![fds[row]] = Null] /\ st' = [st EXCEPT ![Caller] = "closed"]
    /\ user_counter' = user_counter - 1
    /\ row' = IF row > user_counter' THEN -1 ELSE row
UserLeft ==
    /\ AtRow /\ "err" \notin revents[row] /\ "rdhup" \in revents[row]
    /\ RemoveUser
    /\ UNCHANGED <<data, eof, err, queue, talk>>

Readable == AtRow /\ "in" \in revents[row] /\ revents[row] \cap {"err", "rdhup"} = {}
(* Data: all the others are to write it.  Whatever else recv returns, 0 or *)
(* EAGAIN, changes nothing.                                                *)
ReadUser ==
    /\ Readable /\ (data[Caller] \/ ~err[Caller])
    /\ data' = [data EXCEPT ![Caller] = FALSE]
    /\ LET others == {k \in 1 .. user_counter : data[Caller] /\ fds[k] # fds[row]} IN
         /\ events' = [k \in Rows |-> events[k] \/ k \in others]
         /\ write_buf' = [f \in Fds |-> IF \E k \in others : fds[k] = f THEN fds[row] ELSE write_buf[f]]
    /\ user_counter' = user_counter /\ NextRow
    /\ UNCHANGED <<st, eof, err, queue, talk, fds, revents, owner>>
ReadFails ==
    /\ Readable /\ ~data[Caller] /\ err[Caller]
    /\ RemoveUser
    /\ UNCHANGED <<data, eof, err, queue, talk>>
WriteOut ==
    /\ AtRow /\ revents[row] = {"out"}
    /\ write_buf' = [write_buf EXCEPT ![fds[row]] = Null]
    /\ user_counter' = user_counter /\ NextRow
    /\ UNCHANGED <<clientVars, fds, events, revents, owner>>
QuietRow ==
    /\ AtRow /\ revents[row] = {}
    /\ user_counter' = user_counter /\ NextRow
    /\ UNCHANGED <<clientVars, fds, events, revents, owner, write_buf>>

MyServer == \/ Poll \/ NoAccept \/ RefuseUser \/ AcceptUser \/ ClearError \/ UserLeft
            \/ ReadUser \/ ReadFails \/ WriteOut \/ QuietRow
MyNext == MyServer \/ \E c \in Talkers : \/ TalkerConnects(c) \/ TalkerSends(c)
                                         \/ TalkerLeaves(c) \/ TalkerResets(c)

(* The server runs while it can; the clients owe nothing. *)
MySpec == MyInit /\ [][MyNext]_myVars /\ WF_myVars(MyServer)

-----------------------------------------------------------------------------
(* The rows are the open connections, each once, though rows are moved and *)
(* entered while the loop stands anywhere in the table.  And recv never    *)
(* returns 0 ("code should not come to here"): a row with only POLLIN      *)
(* reported has data or an error when it is read.                          *)
MytalkTable ==
    /\ \A k, l \in 1 .. user_counter : fds[k] = fds[l] => k = l
    /\ {owner[fds[k]] : k \in 1 .. user_counter} = {c \in Talkers : st[c] = "open"}
    /\ Readable => data[Caller] \/ ~eof[Caller] \/ err[Caller]

(* A row for which POLLOUT is asked has a write_buf that a message of      *)
(* another connection set or that a write cleared: never its own buf, and  *)
(* never the pointer that new left unset, although structs of users are    *)
(* copied over those of leavers and descriptors come back.                 *)
MytalkWriteBuf == \A k \in 1 .. user_counter :
    events[k] => write_buf[fds[k]] \notin {fds[k], Wild}

(* Both: the three arrays that go with a row stay together. *)
MytalkSound == MytalkTable /\ MytalkWriteBuf

(* Clients that go are removed, whatever the other clients do. *)
MytalkLeaverGone ==
    LET Leavers == {c \in Talkers : st[c] = "open" /\ eof[c]} IN (Leavers # {}) ~> (Leavers = {})
=============================================================================
