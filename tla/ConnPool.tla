------------------------------ MODULE ConnPool ------------------------------
(***************************************************************************)
(* webserver/CGImysql: connection_pool and the connectionRAII that brackets *)
(* every use of it.  The mutex `lock` is held for one action at a time;     *)
(* the test of connList.size() and the semaphore operations lie outside it  *)
(* and are actions of their own.                                            *)
(***************************************************************************)
EXTENDS Integers, Sequences, FiniteSets, SequencesExt

CONSTANTS Threads,       \* the threads that use the pool
          Conns,         \* the MYSQL handles that init opens (MaxConn of them)
          NULL

ASSUME ConnAssumption == /\ IsFiniteSet(Conns) /\ IsFiniteSet(Threads)
                         /\ NULL \notin Conns

VARIABLES connList, m_FreeConn, m_CurConn,
          reserve,    \* the semaphore's count
          pc,         \* pc[t]: where t is between GetConnection and ReleaseConnection
          conRAII,    \* conRAII[t]: the connection t was given, or NULL
          destroyed,  \* DestroyPool has run
          closed      \* the connections that mysql_close was called on

poolVars == <<connList, m_FreeConn, m_CurConn, reserve, pc, conRAII, destroyed, closed>>

Init == /\ connList = SetToSeq(Conns)
        /\ m_FreeConn = Cardinality(Conns) /\ m_CurConn = 0
        /\ reserve = Cardinality(Conns)
        /\ pc = [t \in Threads |-> "idle"]
        /\ conRAII = [t \in Threads |-> NULL]
        /\ destroyed = FALSE /\ closed = {}

Goto(t, step) == pc' = [pc EXCEPT ![t] = step]

(* GetConnection looks at connList before it waits, without the lock. *)
GetFindsNone(t) ==
    /\ pc[t] = "idle" /\ connList = <<>>
    /\ conRAII' = [conRAII EXCEPT ![t] = NULL]
    /\ Goto(t, "using")
    /\ UNCHANGED <<connList, m_FreeConn, m_CurConn, reserve, destroyed, closed>>

GetFindsSome(t) ==
    /\ pc[t] = "idle" /\ connList # <<>>
    /\ Goto(t, "wait")
    /\ UNCHANGED <<connList, m_FreeConn, m_CurConn, reserve, conRAII, destroyed, closed>>

ReserveTry(t) ==                                              \* mutant
    /\ pc[t] = "wait"
    /\ reserve' = IF reserve > 0 THEN reserve - 1 ELSE 0
    /\ Goto(t, "take")
    /\ UNCHANGED <<connList, m_FreeConn, m_CurConn, conRAII, destroyed, closed>>
ReserveWait(t) ==
    /\ pc[t] = "wait" /\ reserve > 0
    /\ reserve' = reserve - 1
    /\ Goto(t, "take")
    /\ UNCHANGED <<connList, m_FreeConn, m_CurConn, conRAII, destroyed, closed>>

(* The critical section of GetConnection.  front() and pop_front() of an   *)
(* empty list are undefined: the thread is then lost.                      *)
TakeFront(t) ==
    /\ pc[t] = "take"
    /\ \/ /\ connList # <<>>
          /\ conRAII' = [conRAII EXCEPT ![t] = Head(connList)]
          /\ connList' = Tail(connList)
          /\ m_FreeConn' = m_FreeConn - 1 /\ m_CurConn' = m_CurConn + 1
          /\ Goto(t, "using")
       \/ /\ connList = <<>>
          /\ Goto(t, "undefined")
          /\ UNCHANGED <<connList, m_FreeConn, m_CurConn, conRAII>>
    /\ UNCHANGED <<reserve, destroyed, closed>>

(* ReleaseConnection; NULL is not given back. *)
ReleaseNull(t) ==
    /\ pc[t] = "using" /\ conRAII[t] = NULL
    /\ Goto(t, "idle")
    /\ UNCHANGED <<connList, m_FreeConn, m_CurConn, reserve, conRAII, destroyed, closed>>

ReleaseUncounted(t) ==                                        \* mutant
    /\ pc[t] = "using" /\ conRAII[t] # NULL
    /\ connList' = Append(connList, conRAII[t])
    /\ m_FreeConn' = m_FreeConn + 1
    /\ conRAII' = [conRAII EXCEPT ![t] = NULL]
    /\ Goto(t, "post")
    /\ UNCHANGED <<m_CurConn, reserve, destroyed, closed>>
ReleasePush(t) ==
    /\ pc[t] = "using" /\ conRAII[t] # NULL
    /\ connList' = Append(connList, conRAII[t])
    /\ m_FreeConn' = m_FreeConn + 1 /\ m_CurConn' = m_CurConn - 1
    /\ conRAII' = [conRAII EXCEPT ![t] = NULL]
    /\ Goto(t, "post")
    /\ UNCHANGED <<reserve, destroyed, closed>>

ReservePostLost(t) ==                                         \* mutant
    /\ pc[t] = "post"
    /\ Goto(t, "idle")
    /\ UNCHANGED <<connList, m_FreeConn, m_CurConn, reserve, conRAII, destroyed, closed>>
ReservePost(t) ==
    /\ pc[t] = "post"
    /\ reserve' = reserve + 1
    /\ Goto(t, "idle")
    /\ UNCHANGED <<connList, m_FreeConn, m_CurConn, conRAII, destroyed, closed>>

(* DestroyPool, which the destructor of the static pool runs at exit while *)
(* the detached workers are still running; it leaves the semaphore alone.  *)
DestroyKeepsList ==                                           \* mutant
    /\ ~destroyed
    /\ m_CurConn' = 0 /\ m_FreeConn' = 0
    /\ destroyed' = TRUE /\ closed' = Range(connList)
    /\ UNCHANGED <<connList, reserve, pc, conRAII>>
DestroyPool ==
    /\ ~destroyed
    /\ IF connList # <<>>
       THEN connList' = <<>> /\ m_CurConn' = 0 /\ m_FreeConn' = 0
       ELSE UNCHANGED <<connList, m_CurConn, m_FreeConn>>
    /\ destroyed' = TRUE /\ closed' = Range(connList)
    /\ UNCHANGED <<reserve, pc, conRAII>>

GetConnection(t) == GetFindsNone(t) \/ GetFindsSome(t) \/ ReserveWait(t) \/ TakeFront(t)
ReleaseConnection(t) == ReleaseNull(t) \/ ReleasePush(t) \/ ReservePost(t)

Next == DestroyPool \/ \E t \in Threads : GetConnection(t) \/ ReleaseConnection(t)

(* A thread in a call is scheduled again, and sem_wait is granted to a     *)
(* thread for which the semaphore keeps becoming positive.                 *)
Spec == /\ Init /\ [][Next]_poolVars
        /\ \A t \in Threads : /\ WF_poolVars(TakeFront(t)) /\ SF_poolVars(ReserveWait(t))
                              /\ WF_poolVars(ReleaseConnection(t))

-----------------------------------------------------------------------------
(* Every variable has its type. *)
TypeOK ==
    /\ connList \in Seq(Conns)
    /\ m_FreeConn \in Int /\ m_CurConn \in Int /\ reserve \in 0 .. Cardinality(Conns)
    /\ pc \in [Threads -> {"idle", "wait", "take", "using", "post", "undefined"}]
    /\ conRAII \in [Threads -> Conns \cup {NULL}]
    /\ destroyed \in BOOLEAN /\ closed \subseteq Conns

At(step) == {t \in Threads : pc[t] = step}

(* A connection is never in two places: not used by two threads, not both  *)
(* used and on offer in connList, not on offer twice, and neither used nor *)
(* on offer once DestroyPool has closed it, whenever that runs.            *)
ConnExclusive ==
    /\ \A t, u \in Threads : t # u /\ conRAII[t] # NULL => conRAII[t] # conRAII[u]
    /\ \A t \in Threads : \A i \in DOMAIN connList : connList[i] # conRAII[t]
    /\ \A i, j \in DOMAIN connList : i # j => connList[i] # connList[j]
    /\ \A c \in closed : c \notin Range(connList) \cup Range(conRAII)

(* Until the pool is destroyed, the semaphore and the threads on either    *)
(* side of it account for every connection on offer, so that a thread past *)
(* reserve.wait() always finds one although it tested the list before; and *)
(* the two counters are what they say.                                     *)
CountsAgree ==
    ~destroyed => /\ Len(connList) = reserve + Cardinality(At("take")) + Cardinality(At("post"))
                  /\ m_FreeConn = Len(connList)
                  /\ m_CurConn = Cardinality({t \in Threads : conRAII[t] # NULL})

(* Both: no connection is lost, shared or used after it was closed. *)
PoolSound == ConnExclusive /\ CountsAgree

(* sql_connection_pool.cpp:58: a request is given an available connection. *)
(* After DestroyPool there is none; before it, a request that comes when   *)
(* all are out must not be given NULL.                                     *)
RequestGetsConnection == \A t \in Threads : pc[t] = "using" /\ ~destroyed => conRAII[t] # NULL

(* A thread that waits on the semaphore is eventually given a connection,  *)
(* as long as those who hold one give it back and the pool is not destroyed.*)
WaiterServed == \A t \in Threads : pc[t] = "wait" ~> (pc[t] = "using" \/ destroyed)
=============================================================================
