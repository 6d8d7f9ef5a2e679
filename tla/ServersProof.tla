---------------------------- MODULE ServersProof ----------------------------
(***************************************************************************)
(* The pools of threads, the programs that fork, and the epoll servers.    *)
(*                                                                         *)
(* The web server's pool, for any finite sets of workers, requests and     *)
(* connections and any bound on the list; what is proved of ConnPool is    *)
(* used through the instance Db, whose threads are the workers. The        *)
(* spinlock, for any set of threads, and the task queue over it. The pool  *)
(* with doubly linked lists.                                               *)
(*                                                                         *)
(* The processes of the mmap copy write every byte once, for every number  *)
(* of processes and length of the file. The forking echo server keeps no   *)
(* zombie that a merged SIGCHLD does not explain. The epoll servers echo   *)
(* to every peer what it sent and stop for none, for any number of peers   *)
(* and any buffer.                                                         *)
(***************************************************************************)
EXTENDS HttpThreadPool, SpinPool, SpinLock, LLPool, MmapCopy, ForkEcho, EventServer,
        FiniteSetTheorems, SequenceTheorems, WellFoundedInduction, NaturalsInduction, TLAPS

Db == INSTANCE ConnPoolProof WITH Threads <- Workers

Steps == {"wait", "pop", "io", "served", "failed", "flag", "connect", "process", "release"}

(* The types the proof needs. *)
HttpType ==
    /\ m_actor_model \in {0, 1}
    /\ m_workqueue \in Seq(Requests) /\ m_queuestat \in Nat
    /\ wat \in [Workers -> Steps]
    /\ request \in [Workers -> Requests \cup {NULL}]
    /\ loop \in {"epoll", "post"} /\ armed \subseteq Requests
    /\ m_state \in [Requests -> {0, 1}] /\ asked \in [Requests -> {0, 1}]
    /\ mysql \in [Requests -> Conns \cup {NULL}]

(* A worker that handles a request has one.                                *)
Serving == \A w \in Workers : Handles(w) => request[w] \in Requests

(* A connection is in one place at most: armed, in the list (once), or     *)
(* handled by one worker.                                                  *)
OnePlace ==
    /\ \A w, v \in Workers : w # v /\ Handles(w) /\ Handles(v) => request[w] # request[v]
    /\ \A w \in Workers : Handles(w) => \A i \in DOMAIN m_workqueue : m_workqueue[i] # request[w]
    /\ \A i, j \in DOMAIN m_workqueue : i # j => m_workqueue[i] # m_workqueue[j]
    /\ \A i \in DOMAIN m_workqueue : m_workqueue[i] \notin armed
    /\ \A w \in Workers : Handles(w) => request[w] \notin armed

(* m_state is written by the reactor alone, with every append. *)
Told == /\ m_actor_model = 1 => m_state = asked
        /\ \A w \in Workers : wat[w] = "io" => m_actor_model = 1

(* What the request of a worker in process() has for a connection. *)
Borrowed == \A w \in Workers : wat[w] = "process" => mysql[request[w]] = conRAII[w]

ListInv == HttpType /\ Serving /\ OnePlace /\ Told /\ SemaphoreCountsRequests
HttpInv == ListInv /\ Borrowed /\ Db!PoolInv

-----------------------------------------------------------------------------
(* The instance of ConnPool in the model and the one that carries the      *)
(* proofs have the same definitions.                                       *)
LEMMA DbAssumption == Db!ConnAssumption
  BY PoolAssumption DEF Db!ConnAssumption, IsFiniteSet, Db!IsFiniteSet

LEMMA DbInit == Pool!Init => Db!Init
  BY DEF Pool!Init, Db!Init, Pool!SetToSeq, Db!SetToSeq, Pool!Cardinality, Db!Cardinality,
         Pool!IsInjective, Db!IsInjective

LEMMA DbGet == ASSUME NEW w \in Workers, Pool!GetConnection(w) PROVE Db!GetConnection(w)
  BY DEF Pool!GetConnection, Db!GetConnection, Pool!GetFindsNone, Db!GetFindsNone,
         Pool!GetFindsSome, Db!GetFindsSome, Pool!ReserveWait, Db!ReserveWait,
         Pool!TakeFront, Db!TakeFront, Pool!Goto, Db!Goto

LEMMA DbRelease == ASSUME NEW w \in Workers, Pool!ReleaseConnection(w) PROVE Db!ReleaseConnection(w)
  BY DEF Pool!ReleaseConnection, Db!ReleaseConnection, Pool!ReleaseNull, Db!ReleaseNull,
         Pool!ReleasePush, Db!ReleasePush, Pool!ReservePost, Db!ReservePost, Pool!Goto, Db!Goto

LEMMA DbCardinality == \A S : Cardinality(S) = Db!Cardinality(S)
  BY DEF Cardinality, Db!Cardinality, IsFiniteSet, Db!IsFiniteSet

LEMMA DbSound == Db!PoolInv => Pool!PoolSound
  BY DEF Db!PoolInv, Pool!PoolSound, Db!PoolSound, Pool!ConnExclusive, Db!ConnExclusive,
         Pool!CountsAgree, Db!CountsAgree, Pool!At, Db!At, Pool!Range, Db!Range,
         Pool!Cardinality, Db!Cardinality

LEMMA DbStep == Db!PoolInv /\ [Db!Next]_poolVars => Db!PoolInv'
  BY DbAssumption, Db!PoolStep DEF poolVars, Db!poolVars

LEMMA PoolQuiet == ASSUME Db!PoolInv, UNCHANGED poolVars PROVE Db!PoolInv'
  BY DbStep

-----------------------------------------------------------------------------
Poppers == {w \in Workers : wat[w] = "pop"}
Posting == IF loop = "post" THEN 1 ELSE 0

(* What moving one worker does to the count of those about to lock. *)
LEMMA PopCounts ==
  ASSUME HttpType, NEW w \in Workers, NEW b \in Steps, GotoStep(w, b)
  PROVE  /\ wat' \in [Workers -> Steps] /\ wat'[w] = b /\ \A v \in Workers \ {w} : wat'[v] = wat[v]
         /\ Cardinality(Poppers) \in Nat
         /\ Cardinality(Poppers)' = Cardinality(Poppers) + (IF b = "pop" THEN 1 ELSE 0)
                                                         - (IF wat[w] = "pop" THEN 1 ELSE 0)
         /\ wat[w] = "pop" => Cardinality(Poppers) > 0
  <1>1. wat' \in [Workers -> Steps] /\ wat'[w] = b /\ \A v \in Workers \ {w} : wat'[v] = wat[v]
    BY DEF GotoStep, HttpType
  <1>2. Poppers \in SUBSET Workers /\ Poppers' \in SUBSET Workers
    BY DEF Poppers
  <1>3. \A v \in Workers \ {w} : v \in Poppers <=> v \in Poppers'
    BY <1>1 DEF Poppers
  <1>4. (w \in Poppers' <=> b = "pop") /\ (w \in Poppers <=> wat[w] = "pop")
    BY <1>1 DEF Poppers
  <1>5. /\ Db!Cardinality(Poppers) \in Nat
        /\ Db!Cardinality(Poppers') = Db!Cardinality(Poppers) + (IF w \in Poppers' THEN 1 ELSE 0)
                                                              - (IF w \in Poppers THEN 1 ELSE 0)
        /\ w \in Poppers => Db!Cardinality(Poppers) > 0
    BY <1>2, <1>3, DbAssumption, Db!OneChanges
  <1> QED
    BY <1>1, <1>4, <1>5, DbCardinality

(* SemaphoreCountsRequests in terms of the abbreviations. *)
LEMMA CountForm ==
  SemaphoreCountsRequests <=> /\ Len(m_workqueue) = m_queuestat + Posting + Cardinality(Poppers)
                              /\ Len(m_workqueue) <= m_max_requests
  BY DEF SemaphoreCountsRequests, Posting, Poppers

LEMMA HttpInitInv == HttpInit => HttpInv
  <1> SUFFICES ASSUME HttpInit PROVE HttpInv
    OBVIOUS
  <1>1. Db!PoolInv
    BY DbInit, DbAssumption, Db!PoolInit DEF HttpInit
  <1>2. HttpType
    BY DEF HttpInit, HttpType, Steps
  <1>3. Serving /\ Told /\ Borrowed
    BY DEF HttpInit, Serving, Told, Borrowed, Handles
  <1>4. OnePlace
    BY DEF HttpInit, OnePlace, Handles
  <1>5. SemaphoreCountsRequests
    <2>1. Poppers = {}
      BY DEF HttpInit, Poppers
    <2>2. Cardinality(Poppers) = 0
      BY <2>1, FS_EmptySet
    <2> QED
      BY <2>2, CountForm, PoolAssumption DEF HttpInit, Posting
  <1> QED
    BY <1>1, <1>2, <1>3, <1>4, <1>5 DEF HttpInv, ListInv

-----------------------------------------------------------------------------
(* append, up to unlock.  The connection was armed, so it is in no other   *)
(* place; a refused one is then nowhere.                                   *)
LEMMA EventKeeps ==
  ASSUME HttpInv, NEW r \in Requests, NEW state \in {0, m_actor_model}, Event(r, state)
  PROVE  HttpInv'
  <1> USE DEF HttpInv, ListInv
  <1>1. /\ loop = "epoll" /\ r \in armed /\ armed' = armed \ {r}
        /\ UNCHANGED <<m_actor_model, m_queuestat, wat, request, mysql>> /\ UNCHANGED poolVars
        /\ Append_(r, state)
    BY DEF Event, Report, workerVars
  <1>2. Db!PoolInv' /\ conRAII' = conRAII
    BY <1>1, PoolQuiet DEF poolVars
  <1>3. Borrowed' /\ Serving'
    BY <1>1, <1>2 DEF Borrowed, Serving, Handles
  <1>4. state \in {0, 1}
    BY DEF HttpType
  <1>5. CASE Len(m_workqueue) >= m_max_requests
    <2>1. UNCHANGED <<m_workqueue, m_state, asked, loop>>
      BY <1>1, <1>5 DEF Append_
    <2>2. HttpType' /\ Told' /\ OnePlace'
      BY <1>1, <2>1 DEF HttpType, Told, OnePlace, Handles
    <2>3. SemaphoreCountsRequests'
      BY <1>1, <2>1 DEF SemaphoreCountsRequests
    <2> QED
      BY <1>2, <1>3, <2>2, <2>3
  <1>6. CASE ~(Len(m_workqueue) >= m_max_requests)
    <2>1. /\ m_state' = (IF m_actor_model = 1 THEN [m_state EXCEPT ![r] = state] ELSE m_state)
          /\ asked' = [asked EXCEPT ![r] = state]
          /\ m_workqueue' = Append(m_workqueue, r) /\ loop' = "post"
      BY <1>1, <1>6 DEF Append_
    <2>2. /\ m_workqueue' \in Seq(Requests) /\ Len(m_workqueue') = Len(m_workqueue) + 1
          /\ \A i \in DOMAIN m_workqueue' : \/ i = Len(m_workqueue) + 1 /\ m_workqueue'[i] = r
                                            \/ i \in DOMAIN m_workqueue /\ m_workqueue'[i] = m_workqueue[i]
      BY <2>1 DEF HttpType
    <2>3. HttpType'
      BY <1>1, <1>4, <2>1, <2>2 DEF HttpType
    <2>4. Told'
      BY <1>1, <2>1 DEF Told
    <2>5. OnePlace'
      <3>1. \A i \in DOMAIN m_workqueue : m_workqueue[i] # r
        BY <1>1 DEF OnePlace
      <3>2. \A w \in Workers : Handles(w) => request[w] # r
        BY <1>1 DEF OnePlace
      <3>6. \A w \in Workers : Handles(w)' <=> Handles(w)
        BY <1>1 DEF Handles
      <3>3. \A i, j \in DOMAIN m_workqueue' : i # j => m_workqueue'[i] # m_workqueue'[j]
        BY <2>2, <3>1 DEF OnePlace
      <3>4. \A i \in DOMAIN m_workqueue' : m_workqueue'[i] \notin armed'
        BY <1>1, <2>2 DEF OnePlace
      <3>5. \A w \in Workers : Handles(w) => \A i \in DOMAIN m_workqueue' : m_workqueue'[i] # request'[w]
        BY <1>1, <2>2, <3>2 DEF OnePlace
      <3> QED
        BY <1>1, <3>3, <3>4, <3>5, <3>6 DEF OnePlace
    <2>6. SemaphoreCountsRequests'
      <3>1. Cardinality(Poppers)' = Cardinality(Poppers) /\ Cardinality(Poppers) \in Nat
        <4>1. Poppers' = Poppers /\ IsFiniteSet(Poppers)
          BY <1>1, FS_Subset, PoolAssumption DEF Poppers
        <4> QED
          BY <4>1, FS_CardinalityType
      <3>2. Posting = 0 /\ Posting' = 1
        BY <1>1, <2>1 DEF Posting
      <3> HIDE DEF Posting
      <3>3. Len(m_workqueue) = m_queuestat + Posting + Cardinality(Poppers)
        BY CountForm
      <3>4. Len(m_workqueue') = m_queuestat' + Posting' + Cardinality(Poppers)'
        BY <1>1, <2>2, <3>1, <3>2, <3>3 DEF HttpType
      <3>5. Len(m_workqueue') <= m_max_requests
        BY <1>6, <2>2, PoolAssumption DEF HttpType
      <3> QED
        BY <3>4, <3>5 DEF SemaphoreCountsRequests, Posting, Poppers
    <2> QED
      BY <1>2, <1>3, <2>3, <2>4, <2>5, <2>6
  <1> QED
    BY <1>5, <1>6

(* The post of append. *)
LEMMA PostKeeps == ASSUME HttpInv, Post PROVE HttpInv'
  <1> USE DEF HttpInv, ListInv
  <1>1. /\ loop = "post" /\ loop' = "epoll" /\ m_queuestat' = m_queuestat + 1
        /\ UNCHANGED <<m_actor_model, m_workqueue, wat, request, armed, m_state, mysql, asked>>
        /\ UNCHANGED poolVars
    BY DEF Post, workerVars, connVars
  <1>2. Db!PoolInv' /\ conRAII' = conRAII
    BY <1>1, PoolQuiet DEF poolVars
  <1>3. HttpType' /\ Serving' /\ OnePlace' /\ Told' /\ Borrowed'
    BY <1>1, <1>2 DEF HttpType, Serving, OnePlace, Told, Borrowed, Handles
  <1>4. SemaphoreCountsRequests'
    <2>1. Cardinality(Poppers)' = Cardinality(Poppers) /\ Cardinality(Poppers) \in Nat
      <3>1. Poppers' = Poppers /\ IsFiniteSet(Poppers)
        BY <1>1, FS_Subset, PoolAssumption DEF Poppers
      <3> QED
        BY <3>1, FS_CardinalityType
    <2>2. Posting = 1 /\ Posting' = 0
      BY <1>1 DEF Posting
    <2> HIDE DEF Posting
    <2>3. /\ Len(m_workqueue) = m_queuestat + Posting + Cardinality(Poppers)
          /\ Len(m_workqueue) <= m_max_requests
      BY CountForm
    <2>4. Len(m_workqueue') = m_queuestat' + Posting' + Cardinality(Poppers)'
      BY <1>1, <2>1, <2>2, <2>3 DEF HttpType
    <2> QED
      BY <1>1, <2>3, <2>4 DEF SemaphoreCountsRequests, Posting, Poppers
  <1> QED
    BY <1>2, <1>3, <1>4

(* Only a connection that is nowhere is opened again. *)
LEMMA ReopenKeeps == ASSUME HttpInv, NEW r \in Requests, Reopen(r) PROVE HttpInv'
  <1> USE DEF HttpInv, ListInv
  <1>1. /\ armed' = armed \cup {r}
        /\ \A i \in DOMAIN m_workqueue : m_workqueue[i] # r
        /\ \A w \in Workers : Handles(w) => request[w] # r
        /\ UNCHANGED <<m_actor_model, m_workqueue, m_queuestat, wat, request, loop, m_state, mysql, asked>>
        /\ UNCHANGED poolVars
    BY DEF Reopen, workerVars, workqueueVars
  <1>2. Db!PoolInv' /\ conRAII' = conRAII
    BY <1>1, PoolQuiet DEF poolVars
  <1>3. HttpType' /\ Serving' /\ Told' /\ Borrowed' /\ SemaphoreCountsRequests'
    BY <1>1, <1>2 DEF HttpType, Serving, Told, Borrowed, SemaphoreCountsRequests, Handles
  <1>4. OnePlace'
    BY <1>1 DEF OnePlace, Handles
  <1> QED
    BY <1>2, <1>3, <1>4

-----------------------------------------------------------------------------
(* A worker passes the semaphore: the post it uses up is now its own count. *)
LEMMA WorkerWaitKeeps == ASSUME HttpInv, NEW w \in Workers, Wait(w) PROVE HttpInv'
  <1> USE DEF HttpInv, ListInv
  <1>1. /\ wat[w] = "wait" /\ m_queuestat > 0 /\ m_queuestat' = m_queuestat - 1 /\ GotoStep(w, "pop")
        /\ UNCHANGED <<m_actor_model, m_workqueue, request, loop, armed, m_state, mysql, asked>>
        /\ UNCHANGED poolVars
    BY DEF Wait, connVars
  <1>2. Db!PoolInv' /\ conRAII' = conRAII
    BY <1>1, PoolQuiet DEF poolVars
  <1>3. /\ wat' \in [Workers -> Steps] /\ wat'[w] = "pop" /\ \A v \in Workers \ {w} : wat'[v] = wat[v]
        /\ Cardinality(Poppers) \in Nat /\ Cardinality(Poppers)' = Cardinality(Poppers) + 1
    BY <1>1, PopCounts DEF Steps
  <1>4. HttpType'
    BY <1>1, <1>3 DEF HttpType
  <1>5. Serving' /\ OnePlace' /\ Told' /\ Borrowed'
    <2>1. \A v \in Workers : Handles(v)' <=> Handles(v)
      BY <1>1, <1>3 DEF Handles
    <2> QED
      BY <1>1, <1>2, <1>3, <2>1 DEF Serving, OnePlace, Told, Borrowed
  <1>6. SemaphoreCountsRequests'
    <2>1. Posting' = Posting /\ Posting \in Nat
      BY <1>1 DEF Posting
    <2> HIDE DEF Posting
    <2>2. /\ Len(m_workqueue) = m_queuestat + Posting + Cardinality(Poppers)
          /\ Len(m_workqueue) <= m_max_requests
      BY CountForm
    <2>3. Len(m_workqueue') = m_queuestat' + Posting' + Cardinality(Poppers)'
      BY <1>1, <1>3, <2>1, <2>2 DEF HttpType
    <2> QED
      BY <1>1, <2>2, <2>3 DEF SemaphoreCountsRequests, Posting, Poppers
  <1> QED
    BY <1>2, <1>4, <1>5, <1>6

(* A worker about to lock is counted, so the list is not empty. *)
LEMMA PopFinds == ASSUME HttpInv, NEW w \in Workers, wat[w] = "pop" PROVE m_workqueue # <<>>
  <1> USE DEF HttpInv, ListInv
  <1>1. Poppers \in SUBSET Workers /\ w \in Poppers
    BY DEF Poppers
  <1>2. Db!Cardinality(Poppers) \in Nat /\ Db!Cardinality(Poppers) > 0
    BY <1>1, DbAssumption, Db!OneChanges
  <1>3. Cardinality(Poppers) \in Nat /\ Cardinality(Poppers) > 0
    BY <1>2, DbCardinality
  <1>4. Posting \in Nat
    BY DEF Posting
  <1>5. Len(m_workqueue) = m_queuestat + Posting + Cardinality(Poppers)
    BY CountForm
  <1>6. Len(m_workqueue) > 0
    BY <1>3, <1>4, <1>5 DEF HttpType
  <1> QED
    BY <1>6

(* The front of the list moves to the worker. *)
LEMMA PopKeeps == ASSUME HttpInv, NEW w \in Workers, Pop(w) PROVE HttpInv'
  <1> USE DEF HttpInv, ListInv
  <1> DEFINE r == Head(m_workqueue)
             b == IF m_actor_model = 1 THEN "io" ELSE "connect"
  <1>1. wat[w] = "pop" /\ m_workqueue # <<>>
    BY PopFinds DEF Pop
  <1>2. /\ request' = [request EXCEPT ![w] = r] /\ m_workqueue' = Tail(m_workqueue) /\ GotoStep(w, b)
        /\ UNCHANGED <<m_actor_model, m_queuestat, loop, armed, m_state, mysql, asked>>
        /\ UNCHANGED poolVars
    BY <1>1 DEF Pop, connVars
  <1>3. Db!PoolInv' /\ conRAII' = conRAII
    BY <1>2, PoolQuiet DEF poolVars
  <1>4. /\ r \in Requests /\ r = m_workqueue[1] /\ 1 \in DOMAIN m_workqueue
        /\ m_workqueue' \in Seq(Requests) /\ Len(m_workqueue') = Len(m_workqueue) - 1
        /\ \A i \in DOMAIN m_workqueue' :
              i + 1 \in DOMAIN m_workqueue /\ i + 1 # 1 /\ m_workqueue'[i] = m_workqueue[i + 1]
    BY <1>1, <1>2 DEF HttpType
  <1>6. /\ wat' \in [Workers -> Steps] /\ wat'[w] = b /\ \A v \in Workers \ {w} : wat'[v] = wat[v]
        /\ Cardinality(Poppers) \in Nat /\ Cardinality(Poppers)' = Cardinality(Poppers) - 1
    BY <1>1, <1>2, PopCounts DEF Steps
  <1>7. request'[w] = r /\ \A v \in Workers \ {w} : request'[v] = request[v]
    BY <1>2 DEF HttpType
  <1>8. b \in {"io", "connect"} /\ (b = "io" => m_actor_model = 1)
    OBVIOUS
  <1>5. \A v \in Workers : Handles(v)' <=> Handles(v) \/ v = w
    BY <1>6, <1>8 DEF Handles
  <1> HIDE DEF r, b
  <1>9. HttpType'
    <2>1. request' \in [Workers -> Requests \cup {NULL}]
      BY <1>2, <1>4 DEF HttpType
    <2> QED
      BY <1>2, <1>4, <1>6, <2>1 DEF HttpType
  <1>10. Serving' /\ Told' /\ Borrowed'
    BY <1>2, <1>3, <1>4, <1>5, <1>6, <1>7, <1>8 DEF Serving, Told, Borrowed
  <1>11. OnePlace'
    <2>1. \A v \in Workers \ {w} : Handles(v)' => Handles(v) /\ request[v] # r
      BY <1>4, <1>5 DEF OnePlace
    <2>2. \A v, u \in Workers : v # u /\ Handles(v)' /\ Handles(u)' => request'[v] # request'[u]
      BY <1>5, <1>7, <2>1 DEF OnePlace
    <2>3. \A v \in Workers : Handles(v)' => \A i \in DOMAIN m_workqueue' : m_workqueue'[i] # request'[v]
      BY <1>4, <1>5, <1>7 DEF OnePlace
    <2>4. \A i, j \in DOMAIN m_workqueue' : i # j => m_workqueue'[i] # m_workqueue'[j]
      BY <1>4, <1>9 DEF OnePlace, HttpType
    <2>5. \A i \in DOMAIN m_workqueue' : m_workqueue'[i] \notin armed'
      BY <1>2, <1>4 DEF OnePlace
    <2>6. \A v \in Workers : Handles(v)' => request'[v] \notin armed'
      BY <1>2, <1>4, <1>5, <1>7 DEF OnePlace
    <2> QED
      BY <2>2, <2>3, <2>4, <2>5, <2>6 DEF OnePlace
  <1>12. SemaphoreCountsRequests'
    <2>1. Posting' = Posting /\ Posting \in Nat
      BY <1>2 DEF Posting
    <2> HIDE DEF Posting
    <2>2. /\ Len(m_workqueue) = m_queuestat + Posting + Cardinality(Poppers)
          /\ Len(m_workqueue) <= m_max_requests
      BY CountForm
    <2>3. /\ Len(m_workqueue') = m_queuestat' + Posting' + Cardinality(Poppers)'
          /\ Len(m_workqueue') <= m_max_requests
      BY <1>2, <1>4, <1>6, <2>1, <2>2, PoolAssumption DEF HttpType
    <2> QED
      BY <2>3 DEF SemaphoreCountsRequests, Posting, Poppers
  <1> QED
    BY <1>3, <1>9, <1>10, <1>11, <1>12

(* The list and the workers about to lock are left alone by every step     *)
(* that moves a worker between other places.                               *)
LEMMA CountsStay ==
  ASSUME ListInv, NEW w \in Workers, NEW b \in Steps \ {"pop"}, wat[w] # "pop",
         GotoStep(w, b), UNCHANGED <<m_workqueue, m_queuestat, loop>>
  PROVE  SemaphoreCountsRequests'
  <1>1. Cardinality(Poppers)' = Cardinality(Poppers) /\ Cardinality(Poppers) \in Nat
    BY PopCounts DEF ListInv
  <1> QED
    BY <1>1 DEF ListInv, SemaphoreCountsRequests, Poppers

(* A worker goes on with its request, or lets go of it: then the request   *)
(* is armed again or nowhere.  A request is taken up by Pop alone.         *)
LEMMA GoesOn ==
  ASSUME HttpInv, NEW w \in Workers, NEW b \in Steps \ {"pop", "io", "process"},
         wat[w] # "pop", GotoStep(w, b),
         request' \in {request, [request EXCEPT ![w] = NULL]}, armed' \in {armed, armed \cup {request[w]}},
         b \in {"failed", "flag", "connect"} => Handles(w) /\ request' = request /\ armed' = armed,
         armed' # armed => Handles(w),
         UNCHANGED <<m_actor_model, m_workqueue, m_queuestat, loop, m_state, mysql, asked>>,
         UNCHANGED poolVars
  PROVE  HttpInv'
  <1> USE DEF HttpInv, ListInv
  <1>1. Db!PoolInv' /\ conRAII' = conRAII
    BY PoolQuiet DEF poolVars
  <1>2. wat' \in [Workers -> Steps] /\ wat'[w] = b /\ \A v \in Workers \ {w} : wat'[v] = wat[v]
    BY PopCounts DEF Steps
  <1>3. /\ request' \in [Workers -> Requests \cup {NULL}]
        /\ \A v \in Workers \ {w} : request'[v] = request[v] /\ (Handles(v)' <=> Handles(v))
        /\ Handles(w)' => Handles(w) /\ request'[w] = request[w] /\ armed' = armed
    BY <1>2 DEF HttpType, Handles, Steps
  <1>4. armed' # armed => request[w] \in Requests /\ Handles(w)
    BY DEF Serving
  <1>5. HttpType'
    BY <1>2, <1>3, <1>4 DEF HttpType
  <1>6. Serving' /\ Told' /\ Borrowed'
    <2>1. Serving'
      BY <1>3 DEF Serving
    <2> QED
      BY <1>1, <1>2, <1>3, <2>1 DEF Told, Borrowed
  <1>7. OnePlace'
    <2>1. \A v, u \in Workers : v # u /\ Handles(v)' /\ Handles(u)' => request'[v] # request'[u]
      BY <1>3 DEF OnePlace
    <2>2. \A v \in Workers : Handles(v)' => \A i \in DOMAIN m_workqueue' : m_workqueue'[i] # request'[v]
      BY <1>3 DEF OnePlace
    <2>3. \A i \in DOMAIN m_workqueue : m_workqueue[i] \notin armed'
      BY <1>4 DEF OnePlace
    <2>4. \A v \in Workers : Handles(v)' => request'[v] \notin armed'
      BY <1>3, <1>4 DEF OnePlace
    <2> QED
      BY <2>1, <2>2, <2>3, <2>4 DEF OnePlace
  <1>8. SemaphoreCountsRequests'
    BY CountsStay DEF Steps
  <1> QED
    BY <1>1, <1>5, <1>6, <1>7, <1>8

LEMMA ReadKeeps == ASSUME HttpInv, NEW w \in Workers, Read(w) PROVE HttpInv'
  <1>1. /\ wat[w] = "io" /\ (GotoStep(w, "connect") \/ GotoStep(w, "failed"))
        /\ UNCHANGED <<m_actor_model, m_workqueue, m_queuestat, request, loop, armed, m_state, mysql, asked>>
        /\ UNCHANGED poolVars
    BY DEF Read, workqueueVars
  <1>2. CASE GotoStep(w, "connect")
    BY <1>1, <1>2, GoesOn DEF Steps, Handles
  <1>3. CASE GotoStep(w, "failed")
    BY <1>1, <1>3, GoesOn DEF Steps, Handles
  <1> QED
    BY <1>1, <1>2, <1>3

LEMMA WriteKeeps == ASSUME HttpInv, NEW w \in Workers, Write(w) PROVE HttpInv'
  <1>1. /\ wat[w] = "io"
        /\ UNCHANGED <<m_actor_model, m_workqueue, m_queuestat, request, loop, m_state, mysql, asked>>
        /\ UNCHANGED poolVars
        /\ \/ GotoStep(w, "served") /\ armed' = armed \cup {request[w]}
           \/ GotoStep(w, "failed") /\ armed' = armed
    BY DEF Write, workqueueVars, connVars
  <1>2. CASE GotoStep(w, "served") /\ armed' = armed \cup {request[w]}
    BY <1>1, <1>2, GoesOn DEF Steps, Handles
  <1>3. CASE GotoStep(w, "failed") /\ armed' = armed
    BY <1>1, <1>3, GoesOn DEF Steps, Handles
  <1> QED
    BY <1>1, <1>2, <1>3

(* The store behind a write() of which another worker may have the          *)
(* connection by now, and those behind a failure.                          *)
LEMMA NoteKeeps == ASSUME HttpInv, NEW w \in Workers, Note(w) \/ Flag(w) PROVE HttpInv'
  <1>1. /\ wat[w] \in {"served", "failed", "flag"}
        /\ UNCHANGED <<m_actor_model, m_workqueue, m_queuestat, loop, armed, m_state, mysql, asked>>
        /\ UNCHANGED poolVars
        /\ \/ GotoStep(w, "wait") /\ request' = [request EXCEPT ![w] = NULL]
           \/ wat[w] = "failed" /\ GotoStep(w, "flag") /\ request' = request
    BY DEF Note, Flag, workqueueVars
  <1>2. CASE GotoStep(w, "wait") /\ request' = [request EXCEPT ![w] = NULL]
    BY <1>1, <1>2, GoesOn DEF Steps
  <1>3. CASE wat[w] = "failed" /\ GotoStep(w, "flag") /\ request' = request
    BY <1>1, <1>3, GoesOn DEF Steps, Handles
  <1> QED
    BY <1>1, <1>2, <1>3

LEMMA ProcessKeeps == ASSUME HttpInv, NEW w \in Workers, Process(w) PROVE HttpInv'
  <1>1. /\ wat[w] = "process" /\ GotoStep(w, "release") /\ request' = [request EXCEPT ![w] = NULL]
        /\ armed' = armed \cup {request[w]}
        /\ UNCHANGED <<m_actor_model, m_workqueue, m_queuestat, loop, m_state, mysql, asked>>
        /\ UNCHANGED poolVars
    BY DEF Process, workqueueVars, connVars
  <1> QED
    BY <1>1, GoesOn DEF Steps, Handles

-----------------------------------------------------------------------------
(* The steps of the connection pool are steps of ConnPool and change what  *)
(* their own worker holds, nobody else's.                                  *)
LEMMA ConnectDb == ASSUME HttpInv, NEW w \in Workers, Pool!GetConnection(w)
                   PROVE  Db!PoolInv' /\ \A v \in Workers \ {w} : conRAII'[v] = conRAII[v]
  <1>1. Db!Next
    BY DbGet DEF Db!Next
  <1>2. conRAII' = conRAII \/ \E c : conRAII' = [conRAII EXCEPT ![w] = c]
    BY DEF Pool!GetConnection, Pool!GetFindsNone, Pool!GetFindsSome, Pool!ReserveWait, Pool!TakeFront
  <1>3. conRAII \in [Workers -> Conns \cup {NULL}]
    BY DEF HttpInv, Db!PoolInv, Db!PoolType
  <1> QED
    BY <1>1, <1>2, <1>3, DbStep DEF HttpInv

LEMMA ReleaseDb == ASSUME HttpInv, NEW w \in Workers, Pool!ReleaseConnection(w)
                   PROVE  Db!PoolInv' /\ \A v \in Workers \ {w} : conRAII'[v] = conRAII[v]
  <1>1. Db!Next
    BY DbRelease DEF Db!Next
  <1>2. conRAII' = conRAII \/ \E c : conRAII' = [conRAII EXCEPT ![w] = c]
    BY DEF Pool!ReleaseConnection, Pool!ReleaseNull, Pool!ReleasePush, Pool!ReservePost
  <1>3. conRAII \in [Workers -> Conns \cup {NULL}]
    BY DEF HttpInv, Db!PoolInv, Db!PoolType
  <1> QED
    BY <1>1, <1>2, <1>3, DbStep DEF HttpInv

(* The constructor of connectionRAII writes to its own request only. *)
LEMMA ConnectKeeps == ASSUME HttpInv, NEW w \in Workers, Connect(w) PROVE HttpInv'
  <1> USE DEF HttpInv, ListInv
  <1>1. /\ wat[w] = "connect" /\ Pool!GetConnection(w)
        /\ UNCHANGED <<m_actor_model, m_workqueue, m_queuestat, request, loop, armed, m_state, asked>>
    BY DEF Connect, workqueueVars
  <1>2. Db!PoolInv' /\ \A v \in Workers \ {w} : conRAII'[v] = conRAII[v]
    BY <1>1, ConnectDb
  <1>3. conRAII' \in [Workers -> Conns \cup {NULL}]
    BY <1>2 DEF Db!PoolInv, Db!PoolType
  <1>4. request[w] \in Requests /\ \A v \in Workers \ {w} : Handles(v) => request[v] # request[w]
    BY <1>1 DEF Serving, OnePlace, Handles
  <1>8. wat' = wat \/ GotoStep(w, "process")
    BY DEF Connect
  <1>9. \A v \in Workers : Handles(v)' <=> Handles(v)
    BY <1>1, <1>8 DEF Handles, HttpType, GotoStep
  <1>5. OnePlace' /\ Serving'
    BY <1>1, <1>9 DEF OnePlace, Serving
  <1>6. CASE pc'[w] = "using"
    <2>1. mysql' = [mysql EXCEPT ![request[w]] = conRAII'[w]] /\ GotoStep(w, "process")
      BY <1>6 DEF Connect
    <2>2. wat' \in [Workers -> Steps] /\ wat'[w] = "process" /\ \A v \in Workers \ {w} : wat'[v] = wat[v]
      BY <2>1, PopCounts DEF Steps
    <2>3. HttpType'
      BY <1>1, <1>3, <1>4, <2>1, <2>2 DEF HttpType
    <2>4. Told'
      BY <1>1, <2>2 DEF Told
    <2>5. Borrowed'
      <3>1. mysql'[request[w]] = conRAII'[w] /\ \A r \in Requests \ {request[w]} : mysql'[r] = mysql[r]
        BY <1>4, <2>1 DEF HttpType
      <3>2. \A v \in Workers : wat[v] = "process" => request[v] \in Requests /\ Handles(v)
        BY DEF Serving, Handles
      <3> QED
        BY <1>1, <1>2, <1>4, <2>2, <3>1, <3>2 DEF Borrowed
    <2>6. SemaphoreCountsRequests'
      BY <1>1, <2>1, CountsStay DEF Steps
    <2> QED
      BY <1>2, <1>5, <2>3, <2>4, <2>5, <2>6
  <1>7. CASE pc'[w] # "using"
    <2>1. UNCHANGED <<mysql, wat>>
      BY <1>7 DEF Connect
    <2>2. HttpType' /\ Told' /\ SemaphoreCountsRequests'
      BY <1>1, <2>1 DEF HttpType, Told, SemaphoreCountsRequests
    <2>3. Borrowed'
      BY <1>1, <1>2, <2>1 DEF Borrowed
    <2> QED
      BY <1>2, <1>5, <2>2, <2>3
  <1> QED
    BY <1>6, <1>7

(* The destructor of connectionRAII. *)
LEMMA ReleaseKeeps == ASSUME HttpInv, NEW w \in Workers, Release(w) PROVE HttpInv'
  <1> USE DEF HttpInv, ListInv
  <1>1. /\ wat[w] = "release" /\ Pool!ReleaseConnection(w)
        /\ UNCHANGED <<m_actor_model, m_workqueue, m_queuestat, request, loop, armed, m_state, mysql, asked>>
    BY DEF Release, workqueueVars, connVars
  <1>2. Db!PoolInv' /\ \A v \in Workers \ {w} : conRAII'[v] = conRAII[v]
    BY <1>1, ReleaseDb
  <1>6. wat' = wat \/ GotoStep(w, "wait")
    BY DEF Release
  <1>7. \A v \in Workers : Handles(v)' <=> Handles(v)
    BY <1>1, <1>6 DEF Handles, HttpType, GotoStep
  <1>3. OnePlace' /\ Serving'
    BY <1>1, <1>7 DEF OnePlace, Serving
  <1>4. CASE GotoStep(w, "wait")
    <2>1. wat' \in [Workers -> Steps] /\ wat'[w] = "wait" /\ \A v \in Workers \ {w} : wat'[v] = wat[v]
      BY <1>4, PopCounts DEF Steps
    <2>2. HttpType' /\ Told' /\ Borrowed'
      BY <1>1, <1>2, <2>1 DEF HttpType, Told, Borrowed
    <2>3. SemaphoreCountsRequests'
      BY <1>1, <1>4, CountsStay DEF Steps
    <2> QED
      BY <1>2, <1>3, <2>2, <2>3
  <1>5. CASE UNCHANGED wat
    BY <1>1, <1>2, <1>3, <1>5 DEF HttpType, Told, Borrowed, SemaphoreCountsRequests
  <1> QED
    BY <1>4, <1>5 DEF Release

-----------------------------------------------------------------------------
LEMMA HttpStep == HttpInv /\ [HttpNext]_httpVars => HttpInv'
  <1> SUFFICES ASSUME HttpInv, [HttpNext]_httpVars PROVE HttpInv'
    OBVIOUS
  <1>1. CASE Post
    BY <1>1, PostKeeps
  <1>2. ASSUME NEW r \in Requests, Reopen(r) PROVE HttpInv'
    BY <1>2, ReopenKeeps
  <1>3. ASSUME NEW r \in Requests, NEW state \in {0, m_actor_model}, Event(r, state) PROVE HttpInv'
    BY <1>3, EventKeeps
  <1>4. ASSUME NEW w \in Workers, Wait(w) \/ Connect(w) \/ Work(w) PROVE HttpInv'
    BY <1>4, WorkerWaitKeeps, ConnectKeeps, PopKeeps, ReadKeeps, WriteKeeps, NoteKeeps, ProcessKeeps, ReleaseKeeps DEF Work
  <1>5. CASE UNCHANGED httpVars
    <2>1. Db!PoolInv'
      BY <1>5, PoolQuiet DEF httpVars, HttpInv
    <2> QED
      BY <1>5, <2>1 DEF httpVars, workqueueVars, workerVars, connVars, poolVars, HttpInv, ListInv,
                        HttpType, Serving, OnePlace, Told, Borrowed, SemaphoreCountsRequests, Handles
  <1> QED
    BY <1>1, <1>2, <1>3, <1>4, <1>5 DEF HttpNext

(* What the invariant says of the workers and their connections. *)
LEMMA InvSound == HttpInv => RequestsSound
  <1> SUFFICES ASSUME HttpInv PROVE RequestsSound
    OBVIOUS
  <1> USE DEF HttpInv, ListInv
  <1>1. \A w, v \in Workers : w # v /\ conRAII[w] # NULL => conRAII[w] # conRAII[v]
    BY DEF Db!PoolInv, Db!PoolSound, Db!ConnExclusive
  <1>2. \A w \in Workers : wat[w] = "io" /\ m_actor_model = 1 => m_state[request[w]] = asked[request[w]]
    BY DEF Told
  <1>3. OneHandler
    BY <1>1, <1>2 DEF OneHandler, OnePlace, Borrowed
  <1> QED
    BY <1>3 DEF RequestsSound

(* For every number of workers, requests, connections and places in the    *)
(* list: append, run and the semaphore never lose a request or let two     *)
(* workers handle it, although write() lets the next event of a connection *)
(* in before its worker has stored improv, and process() uses a connection *)
(* of the pool that is its own.                                            *)
THEOREM RequestsKept == HttpSpec => []RequestsSound
  <1> QED
    BY InvSound, HttpInitInv, HttpStep, PTL DEF HttpSpec

(* The workers keep the promises of the connection pool, which are proved  *)
(* of threads that call it in any order.                                   *)
THEOREM WorkersKeepPool == HttpSpec => []Pool!PoolSound
  <1>1. HttpInv => Pool!PoolSound
    BY DbSound DEF HttpInv
  <1> QED
    BY <1>1, HttpInitInv, HttpStep, PTL DEF HttpSpec

(* The `empty` test of run() never succeeds: a worker that has passed      *)
(* m_queuestat.wait() finds a request.                                     *)
WokenFinds == \A w \in Workers : wat[w] = "pop" => m_workqueue # <<>>

(* No worker takes the semaphore for a request another has taken.          *)
THEOREM NoEmptyPop == HttpSpec => []WokenFinds
  <1>1. HttpInv => WokenFinds
    BY PopFinds DEF WokenFinds
  <1> QED
    BY <1>1, HttpInitInv, HttpStep, PTL DEF HttpSpec

-----------------------------------------------------------------------------
(* The inductive invariant: a thread in the critical section is the only   *)
(* one, and the word says whether there is one.                            *)
LockInv == LockType /\ SpinExclusive

(* What a step does to the word and to one thread, whichever access of     *)
(* spinlock.h it is: it stays outside and leaves the word as it was, it    *)
(* enters and finds the word 0, or it leaves and clears it.                *)
LEMMA StepKinds ==
  ASSUME LockType, NEW t \in LockUsers, LockStep(t)
  PROVE  /\ LockType'
         /\ \/ lockPc[t] # "in" /\ lockPc'[t] # "in" /\ word' = word
            \/ lockPc[t] # "in" /\ lockPc'[t] = "in" /\ word = 0 /\ word' = 1
            \/ lockPc[t] = "in" /\ lockPc'[t] # "in" /\ word' = 0
         /\ \A u \in LockUsers \ {t} : lockPc'[u] = lockPc[u]
  <1>1. CASE Calls(t)
    BY <1>1 DEF Calls, Moves, LockType
  <1>2. CASE Exchange(t)
    BY <1>2 DEF Exchange, Moves, LockType
  <1>3. CASE Look(t)
    BY <1>3 DEF Look, Moves, LockType
  <1>4. CASE TryLook(t)
    BY <1>4 DEF TryLook, Moves, LockType
  <1>5. CASE TryExchange(t)
    BY <1>5 DEF TryExchange, Moves, LockType
  <1>6. CASE Unlock(t)
    BY <1>6 DEF Unlock, Moves, LockType
  <1> QED
    BY <1>1, <1>2, <1>3, <1>4, <1>5, <1>6 DEF LockStep

(* Each of the three kinds of step keeps the invariant: entering needs     *)
(* word = 0, hence nobody inside; leaving is done by the only one inside.  *)
LEMMA LockInvStep == LockInv /\ [LockNext]_lockVars => LockInv'
  <1> SUFFICES ASSUME LockInv, [LockNext]_lockVars PROVE LockInv'
    OBVIOUS
  <1> USE DEF LockInv
  <1>1. CASE LockNext
    <2>1. PICK t \in LockUsers : LockStep(t)
      BY <1>1 DEF LockNext
    <2>2. LockType'
      BY <2>1, StepKinds
    <2>3. \A u \in LockUsers \ {t} : lockPc'[u] = lockPc[u]
      BY <2>1, StepKinds
    <2>4. CASE lockPc[t] # "in" /\ lockPc'[t] # "in" /\ word' = word
      BY <2>2, <2>3, <2>4 DEF SpinExclusive
    <2>5. CASE lockPc[t] # "in" /\ lockPc'[t] = "in" /\ word = 0 /\ word' = 1
      <3>1. \A u \in LockUsers : lockPc[u] # "in"
        BY <2>5 DEF SpinExclusive
      <3> QED
        BY <2>2, <2>3, <2>5, <3>1 DEF SpinExclusive
    <2>6. CASE lockPc[t] = "in" /\ lockPc'[t] # "in" /\ word' = 0
      <3>1. \A u \in LockUsers \ {t} : lockPc[u] # "in"
        BY <2>6 DEF SpinExclusive
      <3> QED
        BY <2>2, <2>3, <2>6, <3>1 DEF SpinExclusive
    <2> QED
      BY <2>1, <2>4, <2>5, <2>6, StepKinds
  <1>2. CASE UNCHANGED lockVars
    BY <1>2 DEF lockVars, LockType, SpinExclusive
  <1> QED
    BY <1>1, <1>2

(* Mutual exclusion between spinlock_lock, or a spinlock_trylock that      *)
(* succeeded, and spinlock_unlock, in both builds with atomics; and the    *)
(* word is clear whenever nobody is inside.                                *)
THEOREM SpinMutex == LockSpec => []SpinExclusive
  <1>1. LockInit => LockInv
    BY DEF LockInit, LockInv, LockType, SpinExclusive
  <1>2. LockInv => SpinExclusive
    BY DEF LockInv
  <1> QED
    BY <1>1, <1>2, LockInvStep, PTL DEF LockSpec

-----------------------------------------------------------------------------
SpinSteps == {"create", "unborn", "post", "add", "signal", "join", "done", "quit", "nonblock", "broadcast",
              "loop", "pop", "lock", "asleep", "run", "test", "exited"}

SpinType == /\ posted \in Nat /\ posted <= MaxPosts /\ next \in [1 .. MaxPosts -> Nat]
            /\ at \in [Threads -> SpinSteps] /\ task \in [SpinWorkers -> Nat] /\ ran \in Seq(Nat)

(* The bound on the tasks was tested before the task is added; a worker    *)
(* holds a task, and one that was posted, only between pop and handler.    *)
HeldTasks == /\ at[Main] = "add" => posted < MaxPosts
             /\ \A w \in SpinWorkers : IF at[w] = "run" THEN task[w] \in 1 .. posted ELSE task[w] = 0

(* Only tasks that were posted have run. *)
RanPosted == \A i \in DOMAIN ran : ran[i] \in 1 .. posted

SpinInv == SpinType /\ HeldTasks /\ RanPosted /\ SpinQueueSound

RanTimes(k) == Cardinality({i \in DOMAIN ran : ran[i] = k})
Holders(k) == Cardinality({w \in SpinWorkers : task[w] = k})

(* The number of workers with some property, when only worker t changes.   *)
LEMMA OneWorker ==
  ASSUME NEW P \in SUBSET SpinWorkers, NEW Q \in SUBSET SpinWorkers, NEW t \in SpinWorkers,
         \A u \in SpinWorkers \ {t} : u \in P <=> u \in Q
  PROVE  /\ Cardinality(P) \in Nat /\ Cardinality(Q) \in Nat
         /\ Cardinality(Q) = Cardinality(P) + (IF t \in Q THEN 1 ELSE 0) - (IF t \in P THEN 1 ELSE 0)
  <1>1. IsFiniteSet(P) /\ IsFiniteSet(Q)
    BY FS_Subset, SpinAssumption
  <1>2. Cardinality(P) \in Nat /\ Cardinality(Q) \in Nat
    BY <1>1, FS_CardinalityType
  <1>3. P \ {t} = Q \ {t}
    OBVIOUS
  <1>4. /\ Cardinality(P \ {t}) = (IF t \in P THEN Cardinality(P) - 1 ELSE Cardinality(P))
        /\ Cardinality(Q \ {t}) = (IF t \in Q THEN Cardinality(Q) - 1 ELSE Cardinality(Q))
    BY <1>1, FS_RemoveElement
  <1> QED
    BY <1>2, <1>3, <1>4

(* Counting positions of a sequence that grows by one at its end. *)
LEMMA OneMore ==
  ASSUME NEW m \in Nat, NEW P \in SUBSET (1 .. m), NEW Q \in SUBSET (1 .. m + 1),
         \A i \in 1 .. m : i \in Q <=> i \in P
  PROVE  Cardinality(P) \in Nat /\ Cardinality(Q) = Cardinality(P) + (IF m + 1 \in Q THEN 1 ELSE 0)
  <1>1. IsFiniteSet(1 .. m)
    BY FS_Interval
  <1>2. IsFiniteSet(P) /\ Cardinality(P) \in Nat
    BY <1>1, FS_Subset, FS_CardinalityType
  <1>3. m + 1 \notin P
    OBVIOUS
  <1>4. Q = IF m + 1 \in Q THEN P \cup {m + 1} ELSE P
    <2>1. \A i : i \in 1 .. m + 1 <=> i \in 1 .. m \/ i = m + 1
      OBVIOUS
    <2>2. \A i : i \in Q => i \in 1 .. m + 1
      OBVIOUS
    <2>3. \A i : i \in P => i \in 1 .. m /\ i \in Q
      OBVIOUS
    <2>4. \A i : i \in Q <=> i \in P \/ (i = m + 1 /\ m + 1 \in Q)
      BY <2>1, <2>2, <2>3
    <2> QED
      BY <2>4
  <1>5. Cardinality(P \cup {m + 1}) = Cardinality(P) + 1
    BY <1>2, <1>3, FS_AddElement
  <1> QED
    BY <1>2, <1>4, <1>5

(* Calling a handler adds one to the calls of that task. *)
LEMMA RanOnce ==
  ASSUME SpinType, NEW e \in Nat, ran' = Append(ran, e)
  PROVE  \A k : RanTimes(k)' = RanTimes(k) + (IF e = k THEN 1 ELSE 0)
  <1> SUFFICES ASSUME NEW k PROVE RanTimes(k)' = RanTimes(k) + (IF e = k THEN 1 ELSE 0)
    OBVIOUS
  <1> DEFINE m == Len(ran)
             P == {i \in DOMAIN ran : ran[i] = k}
             Q == {i \in DOMAIN ran' : ran'[i] = k}
  <1>1. /\ m \in Nat /\ DOMAIN ran = 1 .. m /\ DOMAIN ran' = 1 .. m + 1
        /\ ran'[m + 1] = e /\ \A i \in 1 .. m : ran'[i] = ran[i]
    BY DEF SpinType
  <1> HIDE DEF m
  <1>2. /\ P \in SUBSET (1 .. m) /\ Q \in SUBSET (1 .. m + 1) /\ \A i \in 1 .. m : i \in Q <=> i \in P
        /\ m + 1 \in Q <=> e = k
    BY <1>1
  <1> HIDE DEF P, Q
  <1>3. Cardinality(Q) = Cardinality(P) + (IF m + 1 \in Q THEN 1 ELSE 0)
    BY <1>1, <1>2, OneMore
  <1> QED
    BY <1>2, <1>3 DEF RanTimes, P, Q

LEMMA TakenForm == SpinType => \A k : Taken(k) = RanTimes(k) + Holders(k) /\ RanTimes(k) \in Nat /\ Holders(k) \in Nat
  <1> SUFFICES ASSUME SpinType, NEW k PROVE Taken(k) = RanTimes(k) + Holders(k) /\ RanTimes(k) \in Nat /\ Holders(k) \in Nat
    OBVIOUS
  <1>1. RanTimes(k) \in Nat
    <2> DEFINE P == {i \in DOMAIN ran : ran[i] = k}
    <2>1. Len(ran) \in Nat /\ P \in SUBSET (1 .. Len(ran))
      BY DEF SpinType
    <2> HIDE DEF P
    <2>2. IsFiniteSet(1 .. Len(ran))
      BY <2>1, FS_Interval
    <2>3. IsFiniteSet(P)
      BY <2>1, <2>2, FS_Subset
    <2> QED
      BY <2>3, FS_CardinalityType DEF RanTimes, P
  <1>2. {w \in SpinWorkers : task[w] = k} \in SUBSET SpinWorkers
    OBVIOUS
  <1>3. Holders(k) \in Nat
    BY <1>2, SpinAssumption, FS_Subset, FS_CardinalityType DEF Holders
  <1> QED
    BY <1>1, <1>3 DEF Taken, RanTimes, Holders

LEMMA SpinInitInv == SpinInit => SpinInv
  <1> SUFFICES ASSUME SpinInit PROVE SpinInv
    OBVIOUS
  <1>1. SpinType
    BY SpinAssumption DEF SpinInit, SpinType, SpinSteps, Threads
  <1>2. HeldTasks
    BY SpinAssumption DEF SpinInit, HeldTasks, Threads
  <1>3. SpinQueueSound
    BY DEF SpinInit, SpinQueueSound, First, Head0
  <1> QED
    BY <1>1, <1>2, <1>3 DEF SpinInv, RanPosted, SpinInit

(* A step that only moves threads, none of them to or from its handler. *)
LEMMA OnlyMoves ==
  ASSUME SpinInv, UNCHANGED <<head, tail, next, task, posted, ran>>, at' \in [Threads -> SpinSteps],
         at'[Main] = "add" => posted < MaxPosts, \A w \in SpinWorkers : at'[w] = "run" <=> at[w] = "run"
  PROVE  SpinInv'
  <1>1. SpinType'
    BY DEF SpinInv, SpinType
  <1>2. HeldTasks' /\ RanPosted'
    BY DEF SpinInv, HeldTasks, RanPosted
  <1>3. SpinQueueSound'
    BY DEF SpinInv, SpinQueueSound, First, Taken
  <1> QED
    BY <1>1, <1>2, <1>3 DEF SpinInv

LEMMA AddTaskKeeps == ASSUME SpinInv, AddTask PROVE SpinInv'
  <1> DEFINE k == posted + 1
  <1>1. /\ at[Main] = "add" /\ tail' = k /\ posted' = k /\ at' = [at EXCEPT ![Main] = "signal"]
        /\ \/ tail = Head0 /\ head' = k /\ next' = [next EXCEPT ![k] = 0]
           \/ tail # Head0 /\ head' = head /\ next' = [next EXCEPT ![k] = 0, ![tail] = k]
        /\ UNCHANGED <<task, ran>>
    BY DEF AddTask, Goto
  <1>2. /\ posted \in Nat /\ MaxPosts \in Nat /\ posted < MaxPosts /\ k \in 1 .. MaxPosts
        /\ head \in 0 .. posted /\ tail = (IF head = 0 THEN 0 ELSE posted)
        /\ next \in [1 .. MaxPosts -> Nat]
    BY <1>1, SpinAssumption DEF SpinInv, SpinType, HeldTasks, SpinQueueSound, Head0
  <1>3. SpinType'
    <2>1. next' \in [1 .. MaxPosts -> Nat]
      BY <1>1, <1>2
    <2>2. at' \in [Threads -> SpinSteps]
      BY <1>1 DEF SpinInv, SpinType, SpinSteps
    <2> QED
      BY <1>1, <1>2, <2>1, <2>2 DEF SpinInv, SpinType
  <1>4. HeldTasks'
    <2>1. at'[Main] = "signal" /\ \A w \in SpinWorkers : at'[w] = at[w]
      BY <1>1, SpinAssumption DEF SpinInv, SpinType, Threads
    <2>2. \A w \in SpinWorkers : task[w] \in 1 .. posted => task[w] \in 1 .. k
      BY <1>2
    <2> QED
      BY <1>1, <2>1, <2>2 DEF SpinInv, HeldTasks
  <1>5. SpinQueueSound'
    <2>1. /\ head' \in 0 .. posted' /\ head' # 0 /\ tail' = posted'
          /\ First' = First
      <3>1. CASE head = 0
        <4>1. head' = k
          BY <1>1, <1>2, <3>1 DEF Head0
        <4> QED
          BY <1>1, <1>2, <3>1, <4>1 DEF First
      <3>2. CASE head # 0
        <4>1. head' = head
          BY <1>1, <1>2, <3>2 DEF Head0
        <4> QED
          BY <1>1, <1>2, <3>2, <4>1 DEF First
      <3> QED
        BY <3>1, <3>2
    <2>2. \A j \in First .. k : next'[j] = IF j = k THEN 0 ELSE j + 1
      <3> SUFFICES ASSUME NEW j \in First .. k PROVE next'[j] = IF j = k THEN 0 ELSE j + 1
        OBVIOUS
      <3>1. First \in 1 .. k /\ (head = 0 => First = k)
        BY <1>2 DEF First
      <3>2. next'[k] = 0 /\ (head # 0 => next'[posted] = k /\ posted \in 1 .. MaxPosts)
        BY <1>1, <1>2 DEF Head0
      <3>3. \A i \in 1 .. MaxPosts : i # k /\ i # posted => next'[i] = next[i]
        BY <1>1, <1>2 DEF Head0
      <3>4. CASE j = k
        BY <3>2, <3>4
      <3>5. CASE j # k /\ j = posted
        BY <1>2, <3>1, <3>2, <3>5
      <3>6. CASE j # k /\ j # posted
        <4>1. j \in First .. posted /\ j \in 1 .. MaxPosts
          BY <1>2, <3>1, <3>6
        <4>2. next[j] = j + 1
          BY <4>1, <3>6 DEF SpinInv, SpinQueueSound
        <4> QED
          BY <3>3, <3>6, <4>1, <4>2
      <3> QED
        BY <3>4, <3>5, <3>6
    <2>3. \A j : Taken(j)' = Taken(j)
      BY <1>1 DEF Taken
    <2>4. Taken(k) = 0
      <3>1. \A w \in SpinWorkers : task[w] # k
        BY <1>2 DEF SpinInv, HeldTasks
      <3>2. \A i \in DOMAIN ran : ran[i] # k
        BY <1>2 DEF SpinInv, RanPosted
      <3>3. {i \in DOMAIN ran : ran[i] = k} = {} /\ {w \in SpinWorkers : task[w] = k} = {}
        BY <3>1, <3>2
      <3> QED
        BY <3>3, FS_EmptySet DEF Taken
    <2>5. \A j \in 1 .. posted' : Taken(j)' = IF j < First' THEN 1 ELSE 0
      <3>1. First \in 1 .. k
        BY <1>2 DEF First
      <3> SUFFICES ASSUME NEW j \in 1 .. k PROVE Taken(j) = IF j < First THEN 1 ELSE 0
        BY <1>1, <2>1, <2>3
      <3>2. CASE j = k
        BY <1>2, <2>4, <3>1, <3>2
      <3>3. CASE j # k
        <4>1. j \in 1 .. posted
          BY <1>2, <3>3
        <4> QED
          BY <4>1 DEF SpinInv, SpinQueueSound
      <3> QED
        BY <3>2, <3>3
    <2> QED
      BY <1>1, <2>1, <2>2, <2>5 DEF SpinQueueSound
  <1>6. RanPosted'
    BY <1>1, <1>2 DEF SpinInv, RanPosted
  <1> QED
    BY <1>3, <1>4, <1>5, <1>6 DEF SpinInv

(* Worker w takes task e, or gives back the one it has (e = 0). *)
LEMMA HoldersChange ==
  ASSUME SpinType, NEW w \in SpinWorkers, NEW e \in Nat, task' = [task EXCEPT ![w] = e]
  PROVE  \A k : Holders(k)' = Holders(k) + (IF e = k THEN 1 ELSE 0) - (IF task[w] = k THEN 1 ELSE 0)
  <1> SUFFICES ASSUME NEW k
               PROVE  Holders(k)' = Holders(k) + (IF e = k THEN 1 ELSE 0) - (IF task[w] = k THEN 1 ELSE 0)
    OBVIOUS
  <1> DEFINE P == {u \in SpinWorkers : task[u] = k}
             Q == {u \in SpinWorkers : task'[u] = k}
  <1>1. task'[w] = e /\ \A u \in SpinWorkers \ {w} : task'[u] = task[u]
    BY DEF SpinType
  <1>2. /\ P \in SUBSET SpinWorkers /\ Q \in SUBSET SpinWorkers /\ \A u \in SpinWorkers \ {w} : u \in P <=> u \in Q
        /\ w \in P <=> task[w] = k
        /\ w \in Q <=> e = k
    BY <1>1
  <1> HIDE DEF P, Q
  <1>3. Cardinality(Q) = Cardinality(P) + (IF w \in Q THEN 1 ELSE 0) - (IF w \in P THEN 1 ELSE 0)
    BY <1>2, OneWorker
  <1> QED
    BY <1>2, <1>3 DEF Holders, P, Q

LEMMA TakenNext ==
  ASSUME SpinType' PROVE \A k : Taken(k)' = RanTimes(k)' + Holders(k)' /\ RanTimes(k)' \in Nat /\ Holders(k)' \in Nat
  <1>1. SpinType' => (\A k : Taken(k) = RanTimes(k) + Holders(k) /\ RanTimes(k) \in Nat /\ Holders(k) \in Nat)'
    BY TakenForm, PTL
  <1> QED
    BY <1>1

LEMMA PopTaskKeeps == ASSUME SpinInv, NEW w \in SpinWorkers, PopTask(w), head # 0 PROVE SpinInv'
  <1>1. /\ at[w] = "pop" /\ task' = [task EXCEPT ![w] = head] /\ head' = next[head] /\ next' = next
        /\ tail' = (IF head' = 0 THEN Head0 ELSE tail) /\ at' = [at EXCEPT ![w] = "run"]
        /\ UNCHANGED <<posted, ran>>
    BY DEF PopTask, Goto
  <1>2. /\ posted \in Nat /\ head \in 1 .. posted /\ tail = posted /\ First = head
        /\ head' = (IF head = posted THEN 0 ELSE head + 1)
    <2>1. posted \in Nat /\ head \in 1 .. posted /\ tail = posted /\ First = head
      BY DEF SpinInv, SpinType, SpinQueueSound, First
    <2>2. head \in First .. posted
      BY <2>1
    <2> QED
      BY <1>1, <2>1, <2>2 DEF SpinInv, SpinQueueSound
  <1>0. head \in Nat
    BY <1>2
  <1>3. First' = head + 1
    BY <1>1, <1>2 DEF First
  <1>4. at'[w] = "run" /\ task'[w] = head /\ task[w] = 0 /\ at'[Main] = at[Main]
        /\ \A u \in SpinWorkers \ {w} : at'[u] = at[u] /\ task'[u] = task[u]
    BY <1>1, SpinAssumption DEF SpinInv, SpinType, HeldTasks, Threads
  <1>5. SpinType'
    <2>1. at' \in [Threads -> SpinSteps]
      BY <1>1 DEF SpinInv, SpinType, SpinSteps
    <2>2. task' \in [SpinWorkers -> Nat]
      BY <1>1, <1>0 DEF SpinInv, SpinType
    <2> QED
      BY <1>1, <2>1, <2>2 DEF SpinInv, SpinType
  <1>6. HeldTasks' /\ RanPosted'
    BY <1>1, <1>2, <1>4 DEF SpinInv, HeldTasks, RanPosted
  <1>7. SpinQueueSound'
    <2>1. head' \in 0 .. posted' /\ tail' = (IF head' = 0 THEN Head0 ELSE posted')
      BY <1>1, <1>2
    <2>2. \A k \in First' .. posted' : next'[k] = IF k = posted' THEN 0 ELSE k + 1
      <3>1. \A k \in head + 1 .. posted : k \in First .. posted
        BY <1>2
      <3> QED
        BY <1>1, <1>3, <3>1 DEF SpinInv, SpinQueueSound
    <2>3. \A k \in 1 .. posted : Taken(k)' = Taken(k) + (IF head = k THEN 1 ELSE 0) /\ Taken(k) \in Nat
      <3>1. \A k : Holders(k)' = Holders(k) + (IF head = k THEN 1 ELSE 0) - (IF task[w] = k THEN 1 ELSE 0)
        BY <1>0, <1>1, HoldersChange DEF SpinInv
      <3>2. \A k : RanTimes(k)' = RanTimes(k)
        BY <1>1 DEF RanTimes
      <3>3. \A k : Taken(k) = RanTimes(k) + Holders(k) /\ RanTimes(k) \in Nat /\ Holders(k) \in Nat
        BY TakenForm DEF SpinInv
      <3>4. \A k : Taken(k)' = RanTimes(k)' + Holders(k)'
        BY <1>5, TakenNext
      <3>5. \A k \in 1 .. posted : task[w] # k
        BY <1>4
      <3> QED
        BY <3>1, <3>2, <3>3, <3>4, <3>5
    <2>4. \A k \in 1 .. posted' : Taken(k)' = IF k < First' THEN 1 ELSE 0
      <3> SUFFICES ASSUME NEW k \in 1 .. posted PROVE Taken(k)' = IF k < head + 1 THEN 1 ELSE 0
        BY <1>1, <1>3
      <3>1. Taken(k) = IF k < head THEN 1 ELSE 0
        BY <1>2 DEF SpinInv, SpinQueueSound
      <3>2. Taken(k)' = Taken(k) + (IF head = k THEN 1 ELSE 0)
        BY <2>3
      <3> QED
        BY <1>2, <3>1, <3>2
    <2> QED
      BY <2>1, <2>2, <2>4 DEF SpinQueueSound
  <1> QED
    BY <1>5, <1>6, <1>7 DEF SpinInv

LEMMA RunTaskKeeps == ASSUME SpinInv, NEW w \in SpinWorkers, RunTask(w) PROVE SpinInv'
  <1>1. /\ at[w] = "run" /\ ran' = Append(ran, task[w]) /\ task' = [task EXCEPT ![w] = 0]
        /\ at' = [at EXCEPT ![w] = "test"] /\ UNCHANGED <<head, tail, next, posted>>
    BY DEF RunTask, Goto, queueVars
  <1>2. posted \in Nat /\ task[w] \in 1 .. posted
    BY <1>1 DEF SpinInv, SpinType, HeldTasks
  <1>3. at'[w] = "test" /\ task'[w] = 0 /\ at'[Main] = at[Main]
        /\ \A u \in SpinWorkers \ {w} : at'[u] = at[u] /\ task'[u] = task[u]
    BY <1>1, SpinAssumption DEF SpinInv, SpinType, HeldTasks, Threads
  <1>4. SpinType'
    <2>1. at' \in [Threads -> SpinSteps] /\ task' \in [SpinWorkers -> Nat]
      BY <1>1 DEF SpinInv, SpinType, SpinSteps
    <2>2. ran' \in Seq(Nat)
      BY <1>1, <1>2 DEF SpinInv, SpinType
    <2> QED
      BY <1>1, <2>1, <2>2 DEF SpinInv, SpinType
  <1>5. HeldTasks'
    BY <1>1, <1>3 DEF SpinInv, HeldTasks
  <1>6. RanPosted'
    <2>1. ran \in Seq(Nat) /\ DOMAIN ran' = 1 .. Len(ran) + 1 /\ Len(ran) \in Nat
          /\ ran'[Len(ran) + 1] = task[w] /\ \A i \in 1 .. Len(ran) : ran'[i] = ran[i] /\ i \in DOMAIN ran
      BY <1>1, <1>2 DEF SpinInv, SpinType
    <2> SUFFICES ASSUME NEW i \in DOMAIN ran' PROVE ran'[i] \in 1 .. posted
      BY <1>1 DEF RanPosted
    <2>2. i = Len(ran) + 1 \/ i \in 1 .. Len(ran)
      BY <2>1
    <2> QED
      BY <1>2, <2>1, <2>2 DEF SpinInv, RanPosted
  <1>7. SpinQueueSound'
    <2>1. \A k \in 1 .. posted : Taken(k)' = Taken(k)
      <3>1. \A k : Holders(k)' = Holders(k) + (IF 0 = k THEN 1 ELSE 0) - (IF task[w] = k THEN 1 ELSE 0)
        BY <1>1, HoldersChange DEF SpinInv
      <3>2. \A k : RanTimes(k)' = RanTimes(k) + (IF task[w] = k THEN 1 ELSE 0)
        <4>1. ran \in Seq(Nat) /\ task[w] \in Nat
          BY <1>2 DEF SpinInv, SpinType
        <4> QED
          BY <1>1, <4>1, RanOnce DEF SpinInv
      <3>3. \A k : Taken(k) = RanTimes(k) + Holders(k) /\ RanTimes(k) \in Nat /\ Holders(k) \in Nat
        BY TakenForm DEF SpinInv
      <3>4. \A k : Taken(k)' = RanTimes(k)' + Holders(k)'
        BY <1>4, TakenNext
      <3> QED
        BY <3>1, <3>2, <3>3, <3>4
    <2>2. First' = First
      BY <1>1 DEF First
    <2> QED
      BY <1>1, <2>1, <2>2 DEF SpinInv, SpinQueueSound
  <1> QED
    BY <1>4, <1>5, <1>6, <1>7 DEF SpinInv

(* The other steps only move threads. *)
LEMMA GotoMoves ==
  ASSUME SpinType, NEW x \in Threads, NEW step \in SpinSteps, Goto(x, step)
  PROVE  at' \in [Threads -> SpinSteps] /\ at'[x] = step /\ \A y \in Threads \ {x} : at'[y] = at[y]
  BY DEF SpinType, Goto

LEMMA ThreadKeeps ==
  ASSUME SpinInv, NEW x \in Threads, NEW step \in SpinSteps \ {"run"}, Goto(x, step), at[x] # "run",
         step = "add" => posted < MaxPosts, UNCHANGED <<head, tail, next, task, posted, ran>>
  PROVE  SpinInv'
  <1>1. at' \in [Threads -> SpinSteps] /\ at'[x] = step /\ \A y \in Threads \ {x} : at'[y] = at[y]
    BY GotoMoves DEF SpinInv
  <1>2. at'[Main] = "add" => posted < MaxPosts
    BY <1>1 DEF SpinInv, HeldTasks, Threads
  <1>3. \A w \in SpinWorkers : at'[w] = "run" <=> at[w] = "run"
    BY <1>1 DEF Threads
  <1> QED
    BY <1>1, <1>2, <1>3, OnlyMoves

LEMMA SpinStep == SpinInv /\ [SpinNext]_spinVars => SpinInv'
  <1> SUFFICES ASSUME SpinInv, [SpinNext]_spinVars PROVE SpinInv'
    OBVIOUS
  <1>0. Main \in Threads /\ SpinWorkers \subseteq Threads /\ Main \notin SpinWorkers /\ at \in [Threads -> SpinSteps]
    BY SpinAssumption DEF Threads, SpinInv, SpinType
  <1>1. ASSUME NEW w \in SpinWorkers, CreateWorker(w) PROVE SpinInv'
    <2> DEFINE step == IF Unborn = {w} THEN "post" ELSE "create"
    <2>1. /\ at[w] = "unborn" /\ at[Main] = "create" /\ at' = [at EXCEPT ![w] = "loop", ![Main] = step]
          /\ UNCHANGED <<head, tail, next, task, posted, ran>>
      BY <1>1 DEF CreateWorker, Unborn, queueVars
    <2>2. step \in {"post", "create"}
      OBVIOUS
    <2> HIDE DEF step
    <2>3. /\ at' \in [Threads -> SpinSteps] /\ at'[Main] = step /\ at'[w] = "loop"
          /\ \A u \in SpinWorkers \ {w} : at'[u] = at[u]
      BY <1>0, <2>1, <2>2 DEF SpinSteps
    <2> QED
      BY <2>1, <2>2, <2>3, OnlyMoves
  <1>2. CASE PostCheck
    <2>1. /\ at[Main] = "post" /\ (quit = 1 \/ posted < MaxPosts) /\ Goto(Main, IF quit = 1 THEN "join" ELSE "add")
          /\ UNCHANGED <<head, tail, next, task, posted, ran>>
      BY <1>2 DEF PostCheck, queueVars
    <2>2. CASE quit = 1
      BY <1>0, <2>1, <2>2, ThreadKeeps DEF SpinSteps
    <2>3. CASE quit # 1
      BY <1>0, <2>1, <2>3, ThreadKeeps DEF SpinSteps
    <2> QED
      BY <2>2, <2>3
  <1>3. CASE AddTask
    BY <1>3, AddTaskKeeps
  <1>4. CASE Signal
    <2>1. at[Main] = "signal" /\ UNCHANGED <<head, tail, next, task, posted, ran>>
      BY <1>4 DEF Signal, queueVars
    <2>2. CASE Goto(Main, "post")
      BY <1>0, <2>1, <2>2, ThreadKeeps DEF SpinSteps
    <2>3. ASSUME NEW w \in Asleep, at' = [at EXCEPT ![w] = "pop", ![Main] = "post"] PROVE SpinInv'
      <3>1. w \in SpinWorkers /\ at[w] = "asleep"
        BY DEF Asleep
      <3>2. /\ at' \in [Threads -> SpinSteps] /\ at'[Main] = "post" /\ at'[w] = "pop"
            /\ \A u \in SpinWorkers \ {w} : at'[u] = at[u]
        BY <1>0, <2>3, <3>1 DEF SpinSteps
      <3> QED
        BY <2>1, <3>1, <3>2, OnlyMoves
    <2> QED
      BY <1>4, <2>2, <2>3 DEF Signal
  <1>5. CASE Join \/ CreateFails \/ PostFails
    <2>1. /\ at[Main] # "run" /\ (Goto(Main, "done") \/ Goto(Main, "quit") \/ Goto(Main, "join"))
          /\ UNCHANGED <<head, tail, next, task, posted, ran>>
      BY <1>5 DEF Join, CreateFails, PostFails, queueVars
    <2> QED
      BY <1>0, <2>1, ThreadKeeps DEF SpinSteps
  <1>6. ASSUME NEW x \in Threads, Terminate(x) PROVE SpinInv'
    <2>1. CASE StoreQuit(x) \/ Nonblock(x)
      <3>1. /\ at[x] # "run" /\ (Goto(x, "nonblock") \/ Goto(x, "broadcast"))
            /\ UNCHANGED <<head, tail, next, task, posted, ran>>
        BY <2>1 DEF StoreQuit, Nonblock, queueVars
      <3> QED
        BY <3>1, ThreadKeeps DEF SpinSteps
    <2>2. CASE Broadcast(x)
      <3>1. /\ at[x] = "broadcast" /\ UNCHANGED <<head, tail, next, task, posted, ran>>
            /\ at' = [y \in Threads |-> IF y \in Asleep THEN "pop"
                                        ELSE IF y = x THEN (IF x = Main THEN "join" ELSE "loop") ELSE at[y]]
        BY <2>2 DEF Broadcast, queueVars
      <3>2. /\ at' \in [Threads -> SpinSteps] /\ (at'[Main] # "add" \/ at'[Main] = at[Main])
            /\ \A u \in SpinWorkers : at'[u] = "run" <=> at[u] = "run"
        BY <1>0, <3>1 DEF SpinSteps, Asleep
      <3> QED
        BY <3>1, <3>2, OnlyMoves DEF SpinInv, HeldTasks
    <2> QED
      BY <1>6, <2>1, <2>2 DEF Terminate
  <1>7. ASSUME NEW w \in SpinWorkers, WorkerStep(w) \/ SpuriousWakeup(w) PROVE SpinInv'
    <2>1. CASE RunTask(w)
      BY <2>1, RunTaskKeeps
    <2>2. CASE PopTask(w) /\ head # 0
      BY <2>2, PopTaskKeeps
    <2>3. CASE WorkerLoop(w) \/ (PopTask(w) /\ head = 0) \/ LockAndWait(w) \/ SpuriousWakeup(w) \/ TestDone(w)
      <3>1. at[w] # "run" /\ UNCHANGED <<head, tail, next, task, posted, ran>>
        BY <2>3 DEF WorkerLoop, PopTask, LockAndWait, SpuriousWakeup, TestDone, queueVars
      <3>2. \E step \in SpinSteps \ {"run", "add"} : Goto(w, step)
        BY <2>3 DEF WorkerLoop, PopTask, LockAndWait, SpuriousWakeup, TestDone, SpinSteps
      <3> QED
        BY <1>0, <3>1, <3>2, ThreadKeeps
    <2> QED
      BY <1>7, <2>1, <2>2, <2>3 DEF WorkerStep
  <1>8. CASE UNCHANGED spinVars
    BY <1>0, <1>8, OnlyMoves DEF spinVars, SpinInv, HeldTasks
  <1> QED
    BY <1>1, <1>2, <1>3, <1>4, <1>5, <1>6, <1>7, <1>8 DEF SpinNext, MainStep

(* __add_task and __pop_task, whatever the number of workers and in        *)
(* whatever order they come: the links are the tasks not yet popped in the *)
(* order of posting, tail is the last of them, and no task is lost or      *)
(* handed to two workers.                                                  *)
THEOREM TasksOnce == SpinSpec => []SpinQueueSound
  <1>1. SpinInv => SpinQueueSound
    BY DEF SpinInv
  <1> QED
    BY <1>1, SpinInitInv, SpinStep, PTL DEF SpinSpec

-----------------------------------------------------------------------------
(* A set of naturals has a least element. *)
LEMMA Least == ASSUME NEW S \in SUBSET Nat, S # {} PROVE \E x \in S : \A y \in S : x <= y
  <1>1. \E x \in S : \A y \in S : ~(<<y, x>> \in OpToRel(<, Nat))
    BY NatLessThanWellFounded, WFMin, Zenon
  <1>2. \A p \in Nat \X Nat : p[1] < p[2] => p \in OpToRel(<, Nat)
    BY Zenon DEF OpToRel
  <1>3. \A x, y \in Nat : y < x => <<y, x>> \in OpToRel(<, Nat)
    <2> SUFFICES ASSUME NEW x \in Nat, NEW y \in Nat, y < x PROVE <<y, x>> \in OpToRel(<, Nat)
      OBVIOUS
    <2>1. <<y, x>> \in Nat \X Nat /\ <<y, x>>[1] = y /\ <<y, x>>[2] = x
      OBVIOUS
    <2>2. <<y, x>>[1] < <<y, x>>[2]
      BY <2>1
    <2> QED
      BY <1>2, <2>1, <2>2, Zenon
  <1>4. \E x \in S : \A y \in S : ~(y < x)
    BY <1>1, <1>3, Zenon
  <1> QED
    BY <1>4

-----------------------------------------------------------------------------
(* threadpool/version1.  The tasks that are pushed, not taken and not run. *)
LLOwed == {k \in 1 .. pushed : lran[k] = 0 /\ \A w \in LLWorkers : ltask[w] # k}

LLType ==
    /\ tasks \in 0 .. LLTasks /\ pushed \in 0 .. LLTasks
    /\ tnext \in [1 .. LLTasks -> 0 .. LLTasks] /\ tprev \in [1 .. LLTasks -> 0 .. LLTasks]
    /\ lat \in [LLWorkers -> {"unborn", "get", "asleep", "run", "freed"}]
    /\ ltask \in [LLWorkers -> 0 .. LLTasks] /\ lran \in [1 .. LLTasks -> {0, 1}]

(* A worker that runs a task has it alone. *)
LLHeld ==
    /\ \A w \in LLWorkers : IF lat[w] = "run" THEN ltask[w] \in 1 .. pushed /\ lran[ltask[w]] = 0 ELSE ltask[w] = 0
    /\ \A v, w \in LLWorkers : ltask[v] = ltask[w] /\ ltask[v] # 0 => v = w
    /\ \A k \in 1 .. LLTasks : k > pushed => lran[k] = 0

(* The list has the tasks owed, the youngest first. *)
LLLinks ==
    /\ tasks = 0 => LLOwed = {}
    /\ tasks # 0 => tasks \in LLOwed /\ tprev[tasks] = 0 /\ \A x \in LLOwed : x <= tasks
    /\ \A k \in LLOwed : /\ tnext[k] < k /\ (tnext[k] # 0 => tnext[k] \in LLOwed)
                         /\ \A x \in LLOwed : x < k => x <= tnext[k]
                         /\ k # tasks => tprev[k] \in LLOwed /\ tnext[tprev[k]] = k
    /\ \A k \in (1 .. LLTasks) \ LLOwed : tnext[k] = 0

LLInv == LLType /\ LLHeld /\ LLLinks

-----------------------------------------------------------------------------
(* What the recursion along tnext collects: from an owed task on, those    *)
(* below it.  There is one function that satisfies its equation.           *)
LLFrom(f) == f = [k \in 0 .. LLTasks |-> IF k = 0 THEN {} ELSE {k} \cup f[tnext[k]]]
LLBelow == [k \in 0 .. LLTasks |-> IF k = 0 THEN {} ELSE IF k \in LLOwed THEN {x \in LLOwed : x <= k} ELSE {k}]

LEMMA OwedType == LLInv => LLOwed \subseteq 1 .. LLTasks /\ LLTasks \in Nat /\ LLOwed \subseteq Nat \ {0}
  BY LLAssumption DEF LLInv, LLType, LLOwed

LEMMA BelowSolves == ASSUME LLInv PROVE LLFrom(LLBelow)
  <1>1. LLOwed \subseteq 1 .. LLTasks /\ LLTasks \in Nat /\ LLOwed \subseteq Nat \ {0} /\ 0 \in 0 .. LLTasks
        /\ tnext \in [1 .. LLTasks -> 0 .. LLTasks]
    BY OwedType DEF LLInv, LLType
  <1>2. LLBelow[0] = {}
    BY <1>1 DEF LLBelow
  <1>3. ASSUME NEW k \in 1 .. LLTasks PROVE LLBelow[k] = {k} \cup LLBelow[tnext[k]]
    <2>0. k \in 0 .. LLTasks /\ k # 0 /\ tnext[k] \in 0 .. LLTasks
      BY <1>1
    <2>1. CASE k \notin LLOwed
      BY <1>1, <1>2, <2>0, <2>1 DEF LLBelow, LLInv, LLLinks
    <2>2. CASE k \in LLOwed
      <3>1. LLBelow[k] = {x \in LLOwed : x <= k}
        BY <2>0, <2>2 DEF LLBelow
      <3>2. LLBelow[tnext[k]] = {x \in LLOwed : x <= tnext[k]}
        <4>1. CASE tnext[k] = 0
          <5>1. \A x \in LLOwed : ~(x <= 0)
            BY <1>1
          <5>2. {x \in LLOwed : x <= 0} = {}
            BY <5>1
          <5> QED
            BY <1>2, <4>1, <5>2
        <4>2. CASE tnext[k] # 0
          BY <2>0, <2>2, <4>2 DEF LLBelow, LLInv, LLLinks
        <4> QED
          BY <4>1, <4>2
      <3>3. tnext[k] < k /\ \A x \in LLOwed : x < k => x <= tnext[k]
        BY <2>2 DEF LLInv, LLLinks
      <3>4. \A x \in LLOwed : x <= k <=> x = k \/ x <= tnext[k]
        BY <1>1, <2>0, <3>3
      <3> QED
        BY <2>2, <3>1, <3>2, <3>4
    <2> QED
      BY <2>1, <2>2
  <1> DEFINE R == [k \in 0 .. LLTasks |-> IF k = 0 THEN {} ELSE {k} \cup LLBelow[tnext[k]]]
  <1>4. \A k \in 0 .. LLTasks : k = 0 \/ k \in 1 .. LLTasks
    BY <1>1
  <1>5. \A k \in 0 .. LLTasks : LLBelow[k] = R[k]
    BY <1>2, <1>3, <1>4
  <1>6. LLBelow = [k \in 0 .. LLTasks |-> LLBelow[k]]
    BY DEF LLBelow
  <1> QED
    BY <1>5, <1>6 DEF LLFrom

LEMMA OneSolution == ASSUME LLInv, NEW f, LLFrom(f), NEW k \in 0 .. LLTasks PROVE f[k] = LLBelow[k]
  <1>1. LLTasks \in Nat /\ tnext \in [1 .. LLTasks -> 0 .. LLTasks]
    BY OwedType DEF LLInv, LLType
  <1> DEFINE S == {x \in 0 .. LLTasks : f[x] # LLBelow[x]}
  <1> SUFFICES ASSUME S # {} PROVE FALSE
    OBVIOUS
  <1>2. S \in SUBSET Nat
    BY <1>1
  <1>3. PICK x \in S : \A y \in S : x <= y
    <2> HIDE DEF S
    <2> QED
      BY <1>2, Least
  <1>4. \A y \in 0 .. LLTasks : f[y] = IF y = 0 THEN {} ELSE {y} \cup f[tnext[y]]
    BY DEF LLFrom
  <1>5. \A y \in 0 .. LLTasks : LLBelow[y] = IF y = 0 THEN {} ELSE {y} \cup LLBelow[tnext[y]]
    BY BelowSolves DEF LLFrom
  <1>6. x \in 0 .. LLTasks /\ x # 0
    BY <1>4, <1>5
  <1>7. tnext[x] \in 0 .. LLTasks /\ tnext[x] < x
    BY <1>1, <1>6 DEF LLInv, LLLinks
  <1>8. tnext[x] \notin S
    BY <1>1, <1>3, <1>6, <1>7
  <1>9. f[tnext[x]] = LLBelow[tnext[x]]
    BY <1>7, <1>8
  <1> QED
    BY <1>4, <1>5, <1>6, <1>9

LEMMA QueuedOwed == ASSUME LLInv PROVE LLQueued = LLOwed
  <1> DEFINE F == CHOOSE f : f = [k \in 0 .. LLTasks |-> IF k = 0 THEN {} ELSE {k} \cup f[tnext[k]]]
  <1>1. LLQueued = F[tasks]
    BY DEF LLQueued
  <1>2. LLFrom(F)
    <2>1. \E f : f = [k \in 0 .. LLTasks |-> IF k = 0 THEN {} ELSE {k} \cup f[tnext[k]]]
      BY BelowSolves DEF LLFrom
    <2>2. F = [k \in 0 .. LLTasks |-> IF k = 0 THEN {} ELSE {k} \cup F[tnext[k]]]
      BY <2>1
    <2> QED
      BY <2>2 DEF LLFrom
  <1> HIDE DEF F
  <1>3. tasks \in 0 .. LLTasks
    BY DEF LLInv, LLType
  <1>4. F[tasks] = LLBelow[tasks]
    BY <1>2, <1>3, OneSolution
  <1>5. CASE tasks = 0
    BY <1>1, <1>3, <1>4, <1>5 DEF LLBelow, LLInv, LLLinks
  <1>6. CASE tasks # 0
    BY <1>1, <1>3, <1>4, <1>6 DEF LLBelow, LLInv, LLLinks
  <1> QED
    BY <1>5, <1>6

(* What the invariant says of a pushed task: it is owed, held by one       *)
(* worker or run.                                                          *)
LEMMA LLInvOnce == LLInv => LLTaskOnce
  <1> SUFFICES ASSUME LLInv PROVE LLTaskOnce
    OBVIOUS
  <1>1. LLQueued = LLOwed
    BY QueuedOwed
  <1>2. \A k \in LLQueued : IF k = tasks THEN tprev[k] = 0 ELSE tnext[tprev[k]] = k
    BY <1>1, OwedType DEF LLInv, LLLinks
  <1>3. ASSUME NEW k \in 1 .. pushed
        PROVE  lran[k] + Cardinality({w \in LLWorkers : ltask[w] = k}) + (IF k \in LLQueued THEN 1 ELSE 0) = 1
    <2> DEFINE H == {w \in LLWorkers : ltask[w] = k}
    <2>1. lran[k] \in {0, 1} /\ k # 0
      BY LLAssumption DEF LLInv, LLType
    <2>2. CASE H = {}
      <3>1. Cardinality(H) = 0
        BY <2>2, FS_EmptySet
      <3>2. k \in LLOwed <=> lran[k] = 0
        BY <2>2 DEF LLOwed
      <3> QED
        BY <1>1, <2>1, <3>1, <3>2
    <2>3. CASE H # {}
      <3>1. PICK w \in H : TRUE
        BY <2>3
      <3>2. H = {w} /\ lran[k] = 0 /\ k \notin LLOwed
        BY <2>1, <3>1 DEF LLInv, LLHeld, LLOwed
      <3>3. Cardinality(H) = 1
        BY <3>2, FS_Singleton
      <3> QED
        BY <1>1, <3>2, <3>3
    <2> QED
      BY <2>2, <2>3
  <1> QED
    BY <1>2, <1>3 DEF LLTaskOnce

LEMMA LLStart == LLInit => LLInv
  <1> SUFFICES ASSUME LLInit PROVE LLInv
    OBVIOUS
  <1>1. LLType /\ LLHeld
    BY LLAssumption DEF LLInit, LLType, LLHeld
  <1>2. LLOwed = {}
    BY DEF LLInit, LLOwed
  <1> QED
    BY <1>1, <1>2 DEF LLInit, LLInv, LLLinks

(* Steps that only wake a worker, put it to sleep, or end it. *)
LEMMA LLRest ==
  ASSUME LLInv, UNCHANGED <<listVars, ltask, pushed, lran>>,
         lat' \in [LLWorkers -> {"unborn", "get", "asleep", "run", "freed"}],
         \A w \in LLWorkers : lat'[w] = "run" <=> lat[w] = "run"
  PROVE  LLInv'
  <1>1. LLType' /\ LLHeld'
    BY DEF LLInv, LLType, LLHeld, listVars
  <1>2. LLOwed' = LLOwed
    BY DEF LLOwed
  <1> QED
    BY <1>1, <1>2 DEF LLInv, LLLinks, listVars

LEMMA PushKeeps == ASSUME LLInv, PushTask PROVE LLInv'
  <1> DEFINE k == pushed + 1
  <1>1. /\ pushed < LLTasks /\ tnext' = [tnext EXCEPT ![k] = tasks] /\ tasks' = k /\ pushed' = k
        /\ tprev' = [x \in DOMAIN tprev |-> IF x = k THEN 0 ELSE IF x = tasks THEN k ELSE tprev[x]]
        /\ UNCHANGED <<ltask, lran>>
    BY DEF PushTask
  <1>2. /\ LLTasks \in Nat /\ pushed \in 0 .. LLTasks /\ k \in 1 .. LLTasks /\ k \in 0 .. LLTasks /\ k # 0
        /\ tasks \in 0 .. LLTasks /\ k > pushed
        /\ tnext \in [1 .. LLTasks -> 0 .. LLTasks] /\ tprev \in [1 .. LLTasks -> 0 .. LLTasks]
        /\ ltask \in [LLWorkers -> 0 .. LLTasks]
        /\ LLOwed \subseteq 1 .. LLTasks
    BY <1>1, OwedType DEF LLInv, LLType
  <1>3. /\ lat' \in [LLWorkers -> {"unborn", "get", "asleep", "run", "freed"}]
        /\ \A w \in LLWorkers : lat'[w] = "run" <=> lat[w] = "run"
    BY DEF PushTask, LLAsleep, LLInv, LLType
  <1>4. 1 .. k = (1 .. pushed) \cup {k} /\ \A x \in 1 .. pushed : x < k
    <2>1. pushed \in Nat /\ k = pushed + 1
      BY <1>2
    <2> HIDE DEF k
    <2>2. \A x \in 1 .. k : x \in 1 .. pushed \/ x = k
      BY <2>1
    <2>3. \A x \in 1 .. pushed : x \in 1 .. k /\ x < k
      BY <2>1
    <2>4. k \in 1 .. k
      BY <2>1
    <2> QED
      BY <2>2, <2>3, <2>4
  <1> HIDE DEF k
  <1>5. \A w \in LLWorkers : ltask[w] # k
    BY <1>2 DEF LLInv, LLHeld
  <1>6. LLOwed' = LLOwed \cup {k} /\ k \notin LLOwed /\ \A x \in LLOwed : x < k
    <2>1. lran[k] = 0
      BY <1>2 DEF LLInv, LLHeld
    <2>2. LLOwed' = LLOwed \cup {k}
      BY <1>1, <1>4, <1>5, <2>1 DEF LLOwed
    <2>3. \A x \in LLOwed : x \in 1 .. pushed /\ x < k
      BY <1>4 DEF LLOwed
    <2> QED
      BY <1>2, <2>2, <2>3
  <1>7. /\ tnext' \in [1 .. LLTasks -> 0 .. LLTasks] /\ tprev' \in [1 .. LLTasks -> 0 .. LLTasks]
        /\ tnext'[k] = tasks /\ tprev'[k] = 0
        /\ \A x \in 1 .. LLTasks : x # k => tnext'[x] = tnext[x] /\ tprev'[x] = IF x = tasks THEN k ELSE tprev[x]
    BY <1>1, <1>2
  <1>8. LLType'
    BY <1>1, <1>2, <1>3, <1>7 DEF LLInv, LLType
  <1>9. LLHeld'
    BY <1>1, <1>2, <1>3, <1>4 DEF LLInv, LLHeld
  <1>10. tasks' \in LLOwed' /\ tprev'[tasks'] = 0 /\ \A x \in LLOwed' : x <= tasks'
    BY <1>1, <1>2, <1>6, <1>7
  <1>11. ASSUME NEW y \in LLOwed'
         PROVE  /\ tnext'[y] < y /\ (tnext'[y] # 0 => tnext'[y] \in LLOwed')
                /\ \A x \in LLOwed' : x < y => x <= tnext'[y]
                /\ y # tasks' => tprev'[y] \in LLOwed' /\ tnext'[tprev'[y]] = y
    <2>1. CASE y = k
      <3>1. tasks < k /\ (tasks # 0 => tasks \in LLOwed) /\ \A x \in LLOwed : x <= tasks
        BY <1>2, <1>6 DEF LLInv, LLLinks
      <3> QED
        BY <1>1, <1>2, <1>6, <1>7, <2>1, <3>1
    <2>2. CASE y # k
      <3>1. y \in LLOwed /\ y \in 1 .. LLTasks /\ tnext'[y] = tnext[y] /\ y < k
        BY <1>2, <1>6, <1>7, <2>2
      <3>2. tnext'[y] < y /\ (tnext'[y] # 0 => tnext'[y] \in LLOwed')
        BY <1>6, <3>1 DEF LLInv, LLLinks
      <3>3. \A x \in LLOwed' : x < y => x <= tnext'[y]
        BY <1>2, <1>6, <3>1 DEF LLInv, LLLinks
      <3>4. tprev'[y] \in LLOwed' /\ tnext'[tprev'[y]] = y
        <4>1. CASE y = tasks
          BY <1>6, <1>7, <2>2, <3>1, <4>1
        <4>2. CASE y # tasks
          <5>1. tprev'[y] = tprev[y] /\ tprev[y] \in LLOwed /\ tnext[tprev[y]] = y
            BY <1>7, <2>2, <3>1, <4>2 DEF LLInv, LLLinks
          <5>2. tprev[y] # k /\ tprev[y] \in 1 .. LLTasks
            BY <1>2, <1>6, <5>1
          <5> QED
            BY <1>6, <1>7, <5>1, <5>2
        <4> QED
          BY <4>1, <4>2
      <3> QED
        BY <3>2, <3>3, <3>4
    <2> QED
      BY <2>1, <2>2
  <1>12. \A x \in (1 .. LLTasks) \ LLOwed' : tnext'[x] = 0
    BY <1>6, <1>7 DEF LLInv, LLLinks
  <1>13. tasks' # 0
    BY <1>1, <1>2
  <1> QED
    BY <1>8, <1>9, <1>10, <1>11, <1>12, <1>13 DEF LLInv, LLLinks

LEMMA GetKeeps == ASSUME LLInv, NEW w \in LLWorkers, GetTask(w) PROVE LLInv'
  <1> DEFINE n == tnext[tasks]
  <1>1. /\ lat[w] = "get" /\ tasks # 0 /\ ltask' = [ltask EXCEPT ![w] = tasks] /\ tasks' = n
        /\ tprev' = [x \in DOMAIN tprev |-> IF x \in {tasks, n} THEN 0 ELSE tprev[x]]
        /\ tnext' = [tnext EXCEPT ![tasks] = 0] /\ lat' = [lat EXCEPT ![w] = "run"]
        /\ UNCHANGED <<pushed, lran>>
    BY DEF GetTask, mainVars
  <1>2. /\ LLTasks \in Nat /\ tasks \in LLOwed /\ tasks \in 1 .. LLTasks /\ tasks \in 0 .. LLTasks
        /\ LLOwed \subseteq 1 .. LLTasks /\ 0 \in 0 .. LLTasks
        /\ tnext \in [1 .. LLTasks -> 0 .. LLTasks] /\ tprev \in [1 .. LLTasks -> 0 .. LLTasks]
        /\ ltask \in [LLWorkers -> 0 .. LLTasks]
        /\ tasks \in 1 .. pushed /\ lran[tasks] = 0 /\ \A v \in LLWorkers : ltask[v] # tasks
    BY <1>1, OwedType DEF LLInv, LLType, LLLinks, LLOwed
  <1>3. n \in 0 .. LLTasks /\ n < tasks /\ (n # 0 => n \in LLOwed) /\ \A x \in LLOwed : x # tasks => x <= n
    <2>1. \A x \in LLOwed : x # tasks => x < tasks
      BY <1>1, <1>2 DEF LLInv, LLLinks
    <2> QED
      BY <1>2, <2>1 DEF LLInv, LLLinks
  <1> HIDE DEF n
  <1>4. ltask[w] = 0 /\ \A v \in LLWorkers : ltask'[v] = IF v = w THEN tasks ELSE ltask[v]
    BY <1>1, <1>2 DEF LLInv, LLHeld
  <1>5. LLOwed' = LLOwed \ {tasks}
    BY <1>1, <1>2, <1>4 DEF LLOwed
  <1>6. /\ tnext' \in [1 .. LLTasks -> 0 .. LLTasks] /\ tprev' \in [1 .. LLTasks -> 0 .. LLTasks]
        /\ tnext'[tasks] = 0 /\ \A x \in 1 .. LLTasks : x # tasks => tnext'[x] = tnext[x]
        /\ \A x \in 1 .. LLTasks : tprev'[x] = IF x \in {tasks, n} THEN 0 ELSE tprev[x]
    BY <1>1, <1>2
  <1>7. LLType'
    BY <1>1, <1>2, <1>3, <1>6 DEF LLInv, LLType
  <1>8. LLHeld'
    <2>1. \A v \in LLWorkers : IF lat'[v] = "run" THEN ltask'[v] \in 1 .. pushed' /\ lran'[ltask'[v]] = 0 ELSE ltask'[v] = 0
      BY <1>1, <1>2, <1>4 DEF LLInv, LLHeld, LLType
    <2>2. \A u, v \in LLWorkers : ltask'[u] = ltask'[v] /\ ltask'[u] # 0 => u = v
      BY <1>2, <1>4 DEF LLInv, LLHeld
    <2> QED
      BY <1>1, <2>1, <2>2 DEF LLInv, LLHeld
  <1>9. n = 0 => LLOwed' = {}
    <2>1. n = 0 => \A x \in LLOwed : x = tasks
      BY <1>2, <1>3
    <2> QED
      BY <1>5, <2>1
  <1>10. n # 0 => n \in LLOwed' /\ tprev'[n] = 0 /\ \A x \in LLOwed' : x <= n
    BY <1>2, <1>3, <1>5, <1>6
  <1>11. ASSUME NEW y \in LLOwed'
         PROVE  /\ tnext'[y] < y /\ (tnext'[y] # 0 => tnext'[y] \in LLOwed')
                /\ \A x \in LLOwed' : x < y => x <= tnext'[y]
                /\ y # n => tprev'[y] \in LLOwed' /\ tnext'[tprev'[y]] = y
    <2>1. y \in LLOwed /\ y # tasks /\ y \in 1 .. LLTasks /\ tnext'[y] = tnext[y] /\ y < tasks
      BY <1>2, <1>3, <1>5, <1>6
    <2>2. tnext[y] < y /\ (tnext[y] # 0 => tnext[y] \in LLOwed) /\ \A x \in LLOwed : x < y => x <= tnext[y]
      BY <2>1 DEF LLInv, LLLinks
    <2>3. tnext[y] # tasks
      BY <1>2, <2>1, <2>2
    <2>4. ASSUME y # n PROVE tprev'[y] \in LLOwed' /\ tnext'[tprev'[y]] = y
      <3>1. tprev'[y] = tprev[y] /\ tprev[y] \in LLOwed /\ tnext[tprev[y]] = y
        BY <1>6, <2>1, <2>4 DEF LLInv, LLLinks
      <3>2. tprev[y] # tasks /\ tprev[y] \in 1 .. LLTasks
        BY <1>2, <2>4, <3>1 DEF n
      <3> QED
        BY <1>5, <1>6, <3>1, <3>2
    <2> QED
      BY <1>5, <2>1, <2>2, <2>3, <2>4
  <1>12. \A x \in (1 .. LLTasks) \ LLOwed' : tnext'[x] = 0
    BY <1>5, <1>6 DEF LLInv, LLLinks
  <1> QED
    BY <1>1, <1>7, <1>8, <1>9, <1>10, <1>11, <1>12 DEF LLInv, LLLinks

LEMMA RunKeeps == ASSUME LLInv, NEW w \in LLWorkers, LLRun(w) PROVE LLInv'
  <1> DEFINE k == ltask[w]
  <1>1. /\ lat[w] = "run" /\ lran' = [lran EXCEPT ![k] = @ + 1] /\ ltask' = [ltask EXCEPT ![w] = 0]
        /\ lat' = [lat EXCEPT ![w] = "get"] /\ UNCHANGED <<tasks, tnext, tprev, pushed>>
    BY DEF LLRun, mainVars, listVars
  <1>2. /\ LLTasks \in Nat /\ pushed \in 0 .. LLTasks /\ k \in 1 .. pushed /\ lran[k] = 0 /\ k # 0
        /\ ltask \in [LLWorkers -> 0 .. LLTasks] /\ lran \in [1 .. LLTasks -> {0, 1}]
        /\ lat \in [LLWorkers -> {"unborn", "get", "asleep", "run", "freed"}]
    BY <1>1, LLAssumption DEF LLInv, LLType, LLHeld
  <1>3. k \in 1 .. LLTasks
    BY <1>2
  <1>4. \A v \in LLWorkers : v # w => ltask[v] # k
    BY <1>2 DEF LLInv, LLHeld
  <1>5. \A v \in LLWorkers : ltask'[v] = IF v = w THEN 0 ELSE ltask[v]
    BY <1>1, <1>2
  <1>6. lran' \in [1 .. LLTasks -> {0, 1}] /\ \A x \in 1 .. LLTasks : lran'[x] = IF x = k THEN 1 ELSE lran[x]
    BY <1>1, <1>2, <1>3
  <1>7. k \notin LLOwed
    BY DEF LLOwed
  <1> HIDE DEF k
  <1>8. LLOwed' = LLOwed
    <2>1. \A x \in 1 .. pushed : x \in 1 .. LLTasks
      BY <1>2
    <2>2. \A x \in 1 .. pushed : x \in LLOwed' <=> x \in LLOwed
      <3>1. \A x \in 1 .. pushed : x # k => (x \in LLOwed' <=> x \in LLOwed)
        BY <1>1, <1>5, <1>6, <2>1 DEF LLOwed, k
      <3>2. k \notin LLOwed'
        BY <1>1, <1>3, <1>6 DEF LLOwed
      <3> QED
        BY <1>7, <3>1, <3>2
    <2> QED
      BY <1>1, <2>2 DEF LLOwed
  <1>9. LLType'
    BY <1>1, <1>2, <1>6 DEF LLInv, LLType
  <1>10. LLHeld'
    <2>1. \A v \in LLWorkers : IF lat'[v] = "run" THEN ltask'[v] \in 1 .. pushed' /\ lran'[ltask'[v]] = 0 ELSE ltask'[v] = 0
      <3>0. \A x \in 1 .. pushed : x \in 1 .. LLTasks
        BY <1>2
      <3> SUFFICES ASSUME NEW v \in LLWorkers
                   PROVE  IF lat'[v] = "run" THEN ltask'[v] \in 1 .. pushed' /\ lran'[ltask'[v]] = 0 ELSE ltask'[v] = 0
        OBVIOUS
      <3>1. CASE v = w
        BY <1>1, <1>2, <1>5, <3>1
      <3>2. CASE v # w
        BY <1>1, <1>2, <1>4, <1>5, <1>6, <3>0, <3>2 DEF LLInv, LLHeld
      <3> QED
        BY <3>1, <3>2
    <2>2. \A u, v \in LLWorkers : ltask'[u] = ltask'[v] /\ ltask'[u] # 0 => u = v
      BY <1>5 DEF LLInv, LLHeld
    <2>3. \A x \in 1 .. LLTasks : x > pushed => lran'[x] = 0
      BY <1>2, <1>6 DEF LLInv, LLHeld
    <2> QED
      BY <1>1, <2>1, <2>2, <2>3 DEF LLHeld
  <1> QED
    BY <1>1, <1>8, <1>9, <1>10 DEF LLInv, LLLinks

LEMMA LLStep == LLInv /\ [LLNext]_llVars => LLInv'
  <1> SUFFICES ASSUME LLInv, [LLNext]_llVars PROVE LLInv'
    OBVIOUS
  <1>1. lat \in [LLWorkers -> {"unborn", "get", "asleep", "run", "freed"}]
    BY DEF LLInv, LLType
  <1>2. CASE UNCHANGED llVars
    BY <1>1, <1>2, LLRest DEF llVars
  <1>3. ASSUME NEW w \in LLWorkers, CreateThread(w) PROVE LLInv'
    BY <1>1, <1>3, LLRest DEF CreateThread, LLUnborn
  <1>4. CASE LinkWorker \/ CreateFallsShort \/ BeginDestroy \/ Mark \/ Follow
    BY <1>1, <1>4, LLRest DEF LinkWorker, CreateFallsShort, BeginDestroy, Mark, Follow
  <1>5. CASE PushTask
    BY <1>5, PushKeeps
  <1>6. CASE DestroyBroadcast
    BY <1>1, <1>6, LLRest DEF DestroyBroadcast, LLAsleep
  <1>7. ASSUME NEW w \in LLWorkers, GetSleeps(w) \/ GetTerminates(w) \/ SpuriousGet(w) PROVE LLInv'
    BY <1>1, <1>7, LLRest DEF GetSleeps, GetTerminates, SpuriousGet, mainVars
  <1>8. ASSUME NEW w \in LLWorkers, GetTask(w) PROVE LLInv'
    BY <1>8, GetKeeps
  <1>9. ASSUME NEW w \in LLWorkers, LLRun(w) PROVE LLInv'
    BY <1>9, RunKeeps
  <1> QED
    BY <1>2, <1>3, <1>4, <1>5, <1>6, <1>7, <1>8, <1>9 DEF LLNext, LLMain, LLWorker

(* threadpool/version1, for any number of workers and tasks, through       *)
(* creation that falls short, destruction and freed workers: the list of   *)
(* tasks is doubly linked, and every pushed task is in it, with one worker *)
(* or run, and only once.                                                  *)
THEOREM LLOnce == LLSpec => []LLTaskOnce
  <1>1. LLInit => LLInv
    BY LLStart
  <1>2. LLInv /\ [LLNext]_llVars => LLInv'
    BY LLStep
  <1>3. LLInv => LLTaskOnce
    BY LLInvOnce
  <1> QED
    BY <1>1, <1>2, <1>3, PTL DEF LLSpec

-----------------------------------------------------------------------------
(* The bytes process i copies; the last one is the parent. *)
Span(i) == {k \in Int : /\ each_process_byte * i <= k
                        /\ i # procs - 1 => k < each_process_byte * (i + 1)
                        /\ i = procs - 1 => k < byte_num}

MmType ==
    /\ byte_num \in Nat /\ procs \in Nat \ {0} /\ procs <= num_process
    /\ nextBlock \in 0 .. procs - 1
    /\ copier \in [0 .. num_process - 1 -> {"none", "failed", "runs", "exited", "reaped"}]
    /\ writers \in [0 .. byte_num - 1 -> SUBSET Blocks]
    /\ copying \in {"fork", "copy", "unmap", "returned"}
    /\ childSignal \in BOOLEAN /\ handler \in BOOLEAN

(* Who has come how far: forks are tried in order, a process writes its    *)
(* span and nothing else, one that has ended has written all of it, and so *)
(* has the parent once it unmaps.                                          *)
MmProgress ==
    /\ copying # "fork" => nextBlock = procs - 1
    /\ \A i \in Blocks : copier[i] = "none" <=> i >= nextBlock
    /\ \A k \in DOMAIN writers : \A i \in writers[k] : k \in Span(i)
    /\ \A i \in Blocks : copier[i] \in {"exited", "reaped"} =>
          \A k \in DOMAIN writers : k \in Span(i) => i \in writers[k]
    /\ copying \in {"unmap", "returned"} =>
          \A k \in DOMAIN writers : k \in Span(procs - 1) => procs - 1 \in writers[k]

MmSignalled == (handler \/ copying = "fork") /\ (\E i \in Blocks : copier[i] = "exited") => childSignal

MmInv == MmType /\ MmProgress /\ MmSignalled

-----------------------------------------------------------------------------
(* Spans of a positive or zero width e, one behind the other. *)
LEMMA SpanFacts ==
  ASSUME NEW e \in Nat, NEW i \in Nat, NEW j \in Nat, i < j
  PROVE  e * (i + 1) <= e * j
  <1> DEFINE d == j - (i + 1)
  <1>1. d \in Nat /\ j = (i + 1) + d
    OBVIOUS
  <1>2. e * j = e * (i + 1) + e * d
    BY <1>1
  <1>3. e * d \in Nat /\ e * (i + 1) \in Nat
    BY <1>1
  <1> QED
    BY <1>2, <1>3

LEMMA WidthType ==
  ASSUME MmType
  PROVE  each_process_byte \in Nat
  BY DEF MmType, each_process_byte

LEMMA SpansDisjoint ==
  ASSUME MmType, NEW i \in Blocks, NEW j \in Blocks, NEW k \in Span(i), k \in Span(j)
  PROVE  i = j
  <1> DEFINE e == each_process_byte
  <1>1. e \in Nat /\ i \in Nat /\ j \in Nat /\ k \in Int /\ i <= procs - 1 /\ j <= procs - 1 /\ procs \in Nat
    BY WidthType DEF MmType, Blocks, Span
  <1>2. e * i <= k /\ e * j <= k /\ (i # procs - 1 => k < e * (i + 1)) /\ (j # procs - 1 => k < e * (j + 1))
    BY DEF Span
  <1> HIDE DEF e
  <1>3. ASSUME i < j PROVE FALSE
    <2>1. e * (i + 1) <= e * j
      BY <1>1, <1>3, SpanFacts
    <2>2. e * (i + 1) \in Int /\ e * j \in Int
      BY <1>1
    <2> QED
      BY <1>1, <1>2, <1>3, <2>1, <2>2
  <1>4. ASSUME j < i PROVE FALSE
    <2>1. e * (j + 1) <= e * i
      BY <1>1, <1>4, SpanFacts
    <2>2. e * (j + 1) \in Int /\ e * i \in Int
      BY <1>1
    <2> QED
      BY <1>1, <1>2, <1>4, <2>1, <2>2
  <1> QED
    BY <1>1, <1>3, <1>4

(* Every byte is in a span. *)
LEMMA SpansCover ==
  ASSUME MmType, NEW k \in 0 .. byte_num - 1
  PROVE  \E i \in Blocks : k \in Span(i)
  <1> DEFINE e == each_process_byte
  <1>1. e \in Nat /\ k \in Nat /\ procs \in Nat \ {0} /\ k < byte_num /\ byte_num \in Nat
    BY WidthType DEF MmType
  <1>2. CASE e * (procs - 1) <= k
    <2>1. k \in Span(procs - 1) /\ procs - 1 \in Blocks
      BY <1>1, <1>2 DEF Span, Blocks
    <2> QED
      BY <2>1
  <1>3. CASE k < e * (procs - 1)
    <2> HIDE DEF e
    <2>1. e > 0
      <3>1. e # 0
        BY <1>1, <1>3
      <3> QED
        BY <1>1, <3>1
    <2> DEFINE i == k \div e
    <2>2. i \in Nat /\ e * i <= k /\ k < e * (i + 1)
      BY <1>1, <2>1
    <2> HIDE DEF i
    <2>3. i < procs - 1
      <3>1. ASSUME procs - 1 <= i PROVE FALSE
        <4>1. procs - 1 < i + 1 /\ procs - 1 \in Nat
          BY <1>1, <2>2, <3>1
        <4>2. procs - 1 = i \/ procs - 1 < i
          BY <1>1, <2>2, <3>1
        <4>3. CASE procs - 1 < i
          <5>1. e * ((procs - 1) + 1) <= e * i
            BY <1>1, <2>2, <4>1, <4>3, SpanFacts
          <5>2. e * ((procs - 1) + 1) = e * (procs - 1) + e
            BY <1>1
          <5>3. e * (procs - 1) \in Int /\ e * i \in Int
            BY <1>1, <2>2
          <5> QED
            BY <1>1, <1>3, <2>2, <5>1, <5>2, <5>3
        <4> QED
          BY <1>1, <1>3, <2>2, <4>2, <4>3
      <3> QED
        BY <1>1, <2>2, <3>1
    <2>4. i \in Blocks /\ k \in Span(i)
      BY <1>1, <2>2, <2>3 DEF Span, Blocks, e
    <2> QED
      BY <2>4
  <1>4. e * (procs - 1) \in Int
    BY <1>1
  <1> QED
    BY <1>1, <1>2, <1>3, <1>4

-----------------------------------------------------------------------------
(* What a process's memcpy writes is its span. *)
LEMMA MemcpyWrites ==
  ASSUME MmType, NEW i \in Blocks, NEW n,
         n = (IF i = procs - 1 THEN last_process_byte ELSE each_process_byte), Memcpy(i, n)
  PROVE  /\ DOMAIN writers' = DOMAIN writers
         /\ \A k \in DOMAIN writers : writers'[k] = IF k \in Span(i) THEN writers[k] \cup {i} ELSE writers[k]
  <1> DEFINE e == each_process_byte
  <1>1. e \in Nat /\ i \in Nat /\ procs \in Nat /\ byte_num \in Nat
    BY WidthType DEF MmType, Blocks
  <1>2. e * i \in Int /\ e * (i + 1) = e * i + e
    BY <1>1
  <1>3. \A k \in Int : k \in e * i .. e * i + n - 1 <=> k \in Span(i)
    <2>1. CASE i = procs - 1
      <3>1. n = byte_num - e * i
        BY <2>1 DEF last_process_byte
      <3> HIDE DEF e
      <3>2. \A k \in Int : k \in e * i .. e * i + n - 1 <=> e * i <= k /\ k < byte_num
        BY <1>1, <1>2, <3>1
      <3> QED
        BY <2>1, <3>2 DEF Span, e
    <2>2. CASE i # procs - 1
      <3>1. n = e
        BY <2>2
      <3> HIDE DEF e
      <3>2. \A k \in Int : k \in e * i .. e * i + n - 1 <=> e * i <= k /\ k < e * (i + 1)
        BY <1>1, <1>2, <3>1
      <3> QED
        BY <2>2, <3>2 DEF Span, e
    <2> QED
      BY <2>1, <2>2
  <1>4. DOMAIN writers \subseteq Int
    BY DEF MmType
  <1> QED
    BY <1>3, <1>4 DEF Memcpy

LEMMA MmStart == MmInit => MmInv
  <1> SUFFICES ASSUME MmInit PROVE MmInv
    OBVIOUS
  <1>1. byte_num \in Nat /\ procs \in Nat \ {0} /\ procs <= num_process /\ num_process \in Nat
    BY MmapCopyAssumption DEF MmInit
  <1>2. MmType
    <2>1. nextBlock \in 0 .. procs - 1
      BY <1>1 DEF MmInit
    <2>2. /\ copier \in [0 .. num_process - 1 -> {"none", "failed", "runs", "exited", "reaped"}]
          /\ writers \in [0 .. byte_num - 1 -> SUBSET Blocks]
      BY DEF MmInit
    <2>3. copying \in {"fork", "copy", "unmap", "returned"} /\ childSignal \in BOOLEAN /\ handler \in BOOLEAN
      BY DEF MmInit
    <2> QED
      BY <1>1, <2>1, <2>2, <2>3 DEF MmType
  <1>3. MmProgress
    BY <1>1 DEF MmInit, MmProgress, Blocks
  <1>4. MmSignalled
    BY <1>1 DEF MmInit, MmSignalled, Blocks
  <1> QED
    BY <1>2, <1>3, <1>4 DEF MmInv

(* The parent's own steps, which write nothing. *)
LEMMA ForkOneKeeps == ASSUME MmInv, ForkOne PROVE MmInv'
  <1> USE DEF MmInv
  <1>1. UNCHANGED <<byte_num, procs, writers, copying, childSignal, handler>>
    BY DEF ForkOne
  <1>2. Blocks' = Blocks /\ (\A i : Span(i)' = Span(i)) /\ Blocks \subseteq DOMAIN copier
    BY <1>1, MmapCopyAssumption DEF Blocks, Span, each_process_byte, MmType
  <1>3. PICK r \in {"runs", "failed"} : copier' = [copier EXCEPT ![nextBlock] = r]
    BY DEF ForkOne
  <1>4. nextBlock \in Blocks /\ nextBlock' = nextBlock + 1 /\ nextBlock < procs - 1 /\ copying = "fork"
    BY DEF ForkOne, Blocks, MmType
  <1>5. \A i \in Blocks : copier'[i] = IF i = nextBlock THEN r ELSE copier[i]
    BY <1>2, <1>3 DEF MmType
  <1>6. MmType'
    BY <1>1, <1>2, <1>3, <1>4 DEF MmType
  <1>7. MmProgress'
    <2>1. \A i \in Blocks : copier'[i] = "none" <=> i >= nextBlock'
      BY <1>4, <1>5 DEF MmProgress, MmType, Blocks
    <2>2. \A i \in Blocks : copier'[i] \in {"exited", "reaped"} => copier[i] \in {"exited", "reaped"}
      BY <1>5
    <2> QED
      BY <1>1, <1>2, <1>4, <2>1, <2>2 DEF MmProgress
  <1>8. MmSignalled'
    BY <1>1, <1>2, <1>5 DEF MmSignalled
  <1> QED
    BY <1>6, <1>7, <1>8

LEMMA UnblockKeeps == ASSUME MmInv, Unblock PROVE MmInv'
  <1> USE DEF MmInv
  <1>1. UNCHANGED <<byte_num, procs, nextBlock, copier, writers, childSignal>>
    BY DEF Unblock
  <1>2. Blocks' = Blocks /\ (\A i : Span(i)' = Span(i))
    BY <1>1 DEF Blocks, Span, each_process_byte
  <1>3. copying = "fork" /\ copying' = "copy" /\ handler' = TRUE /\ nextBlock = procs - 1
    BY DEF Unblock
  <1>4. MmType'
    BY <1>1, <1>2, <1>3 DEF MmType
  <1>5. MmProgress'
    BY <1>1, <1>2, <1>3 DEF MmProgress
  <1>6. MmSignalled'
    BY <1>1, <1>2, <1>3 DEF MmSignalled
  <1> QED
    BY <1>4, <1>5, <1>6

LEMMA ParentReturnsKeeps == ASSUME MmInv, ParentReturns PROVE MmInv'
  <1> USE DEF MmInv
  <1>1. UNCHANGED <<byte_num, procs, nextBlock, copier, writers, childSignal, handler>>
    BY DEF ParentReturns
  <1>2. Blocks' = Blocks /\ (\A i : Span(i)' = Span(i))
    BY <1>1 DEF Blocks, Span, each_process_byte
  <1>3. copying = "unmap" /\ copying' = "returned"
    BY DEF ParentReturns
  <1>4. MmType'
    BY <1>1, <1>2, <1>3 DEF MmType
  <1>5. MmProgress'
    BY <1>1, <1>2, <1>3 DEF MmProgress
  <1>6. MmSignalled'
    BY <1>1, <1>2, <1>3 DEF MmSignalled
  <1> QED
    BY <1>4, <1>5, <1>6

LEMMA ParentCopiesKeeps == ASSUME MmInv, ParentCopies PROVE MmInv'
  <1> USE DEF MmInv
  <1>1. UNCHANGED <<byte_num, procs, nextBlock, copier, childSignal, handler>>
    BY DEF ParentCopies
  <1>2. Blocks' = Blocks /\ (\A i : Span(i)' = Span(i)) /\ procs - 1 \in Blocks
    BY <1>1 DEF Blocks, Span, each_process_byte, MmType
  <1>3. copying = "copy" /\ copying' = "unmap"
    BY DEF ParentCopies
  <1>4. /\ DOMAIN writers' = DOMAIN writers
        /\ \A k \in DOMAIN writers :
              writers'[k] = IF k \in Span(procs - 1) THEN writers[k] \cup {procs - 1} ELSE writers[k]
    BY <1>2, MemcpyWrites DEF ParentCopies
  <1>5. MmType'
    <2>1. writers' \in [0 .. byte_num - 1 -> SUBSET Blocks]
      BY <1>2, <1>4 DEF MmType, ParentCopies, Memcpy
    <2> QED
      BY <1>1, <1>2, <1>3, <2>1 DEF MmType
  <1>6. MmProgress'
    BY <1>1, <1>2, <1>3, <1>4 DEF MmProgress
  <1>7. MmSignalled'
    BY <1>1, <1>2, <1>3 DEF MmSignalled
  <1> QED
    BY <1>5, <1>6, <1>7

(* A child, whose block is not the parent's: it was forked. *)
LEMMA ChildCopiesKeeps == ASSUME MmInv, NEW c \in Blocks, ChildCopies(c) PROVE MmInv'
  <1> USE DEF MmInv
  <1>1. UNCHANGED <<byte_num, procs, nextBlock, copying, handler>> /\ copier[c] = "runs"
    BY DEF ChildCopies
  <1>2. Blocks' = Blocks /\ (\A i : Span(i)' = Span(i)) /\ Blocks \subseteq DOMAIN copier
    BY <1>1, MmapCopyAssumption DEF Blocks, Span, each_process_byte, MmType
  <1>3. c # procs - 1
    BY <1>1 DEF MmProgress, MmType, Blocks
  <1>4. /\ DOMAIN writers' = DOMAIN writers
        /\ \A k \in DOMAIN writers : writers'[k] = IF k \in Span(c) THEN writers[k] \cup {c} ELSE writers[k]
    BY <1>3, MemcpyWrites DEF ChildCopies
  <1>5. PICK r \in {"exited", "reaped"} : copier' = [copier EXCEPT ![c] = r]
    BY DEF ChildCopies
  <1>6. \A i \in Blocks : copier'[i] = IF i = c THEN r ELSE copier[i]
    BY <1>2, <1>5 DEF MmType
  <1>7. childSignal' = (handler \/ copying = "fork")
    BY DEF ChildCopies
  <1>8. MmType'
    <2>1. writers' \in [0 .. byte_num - 1 -> SUBSET Blocks]
      BY <1>2, <1>4 DEF MmType, ChildCopies, Memcpy
    <2>2. copier' \in [0 .. num_process - 1 -> {"none", "failed", "runs", "exited", "reaped"}]
      BY <1>5 DEF MmType
    <2>3. childSignal' \in BOOLEAN
      BY <1>7
    <2> QED
      BY <1>1, <1>2, <2>1, <2>2, <2>3 DEF MmType
  <1>9. MmProgress'
    <2>1. \A i \in Blocks : copier'[i] = "none" <=> i >= nextBlock
      BY <1>1, <1>6 DEF MmProgress
    <2>2. \A k \in DOMAIN writers' : \A i \in writers'[k] : k \in Span(i)
      BY <1>4 DEF MmProgress
    <2>3. \A i \in Blocks : copier'[i] \in {"exited", "reaped"} =>
             \A k \in DOMAIN writers' : k \in Span(i) => i \in writers'[k]
      BY <1>4, <1>6 DEF MmProgress
    <2>4. copying \in {"unmap", "returned"} =>
             \A k \in DOMAIN writers' : k \in Span(procs - 1) => procs - 1 \in writers'[k]
      BY <1>4 DEF MmProgress
    <2> QED
      BY <1>1, <1>2, <2>1, <2>2, <2>3, <2>4 DEF MmProgress
  <1>10. MmSignalled'
    BY <1>1, <1>7 DEF MmSignalled
  <1> QED
    BY <1>8, <1>9, <1>10

LEMMA HandlerKeeps == ASSUME MmInv, subprocess_signal_handle PROVE MmInv'
  <1> USE DEF MmInv
  <1>1. UNCHANGED <<byte_num, procs, nextBlock, writers, copying>> /\ childSignal' = FALSE
    BY DEF subprocess_signal_handle
  <1>2. Blocks' = Blocks /\ (\A i : Span(i)' = Span(i)) /\ Blocks \subseteq DOMAIN copier
    BY <1>1, MmapCopyAssumption DEF Blocks, Span, each_process_byte, MmType
  <1>3. \A i \in Blocks : copier'[i] = IF copier[i] = "exited" THEN "reaped" ELSE copier[i]
    BY <1>2 DEF subprocess_signal_handle
  <1>4. MmType'
    <2>1. copier' \in [0 .. num_process - 1 -> {"none", "failed", "runs", "exited", "reaped"}]
      BY DEF MmType, subprocess_signal_handle
    <2>2. handler' \in BOOLEAN
      BY DEF subprocess_signal_handle
    <2> QED
      BY <1>1, <1>2, <2>1, <2>2 DEF MmType
  <1>5. MmProgress'
    BY <1>1, <1>2, <1>3 DEF MmProgress
  <1>6. MmSignalled'
    BY <1>2, <1>3 DEF MmSignalled
  <1> QED
    BY <1>4, <1>5, <1>6

LEMMA MmStep == MmInv /\ [MmNext]_mmVars => MmInv'
  <1> SUFFICES ASSUME MmInv, [MmNext]_mmVars PROVE MmInv'
    OBVIOUS
  <1>1. CASE UNCHANGED mmVars
    <2>1. Blocks' = Blocks /\ (\A i : Span(i)' = Span(i))
      BY <1>1 DEF mmVars, Blocks, Span, each_process_byte
    <2>2. MmType' /\ MmSignalled'
      BY <1>1, <2>1 DEF mmVars, MmInv, MmType, MmSignalled
    <2>3. MmProgress'
      BY <1>1, <2>1 DEF mmVars, MmInv, MmProgress
    <2> QED
      BY <2>2, <2>3 DEF MmInv
  <1>2. CASE MmOver
    BY <1>1, <1>2 DEF MmOver
  <1>3. ASSUME NEW c \in Blocks, ChildCopies(c) PROVE MmInv'
    BY <1>3, ChildCopiesKeeps
  <1> QED
    BY <1>1, <1>2, <1>3, ForkOneKeeps, UnblockKeeps, ParentCopiesKeeps, ParentReturnsKeeps, HandlerKeeps
    DEF MmNext

LEMMA MmImplied == MmInv => MmapCopies
  <1> SUFFICES ASSUME MmInv PROVE MmapCopies
    OBVIOUS
  <1> USE DEF MmInv
  <1>1. ASSUME NEW k \in DOMAIN writers PROVE Cardinality(writers[k]) <= 1
    <2>1. \A i, j \in writers[k] : i = j
      <3>1. \A i \in writers[k] : i \in Blocks /\ k \in Span(i)
        BY <1>1 DEF MmType, MmProgress
      <3> QED
        BY <3>1, SpansDisjoint
    <2>2. writers[k] = {} \/ \E i \in writers[k] : writers[k] = {i}
      BY <2>1
    <2>3. Cardinality({}) = 0 /\ \A i : Cardinality({i}) = 1
      BY FS_EmptySet, FS_Singleton
    <2>4. Cardinality(writers[k]) \in {0, 1}
      BY <2>2, <2>3
    <2> QED
      BY <2>4
  <1>2. ASSUME copying \in {"unmap", "returned"}, \A i \in Blocks : copier[i] # "runs",
               NEW k \in DOMAIN writers, writers[k] = {}
        PROVE  \E i \in Blocks : /\ copier[i] = "failed"
                                 /\ each_process_byte * i <= k /\ k < each_process_byte * (i + 1)
    <2>1. k \in 0 .. byte_num - 1
      BY DEF MmType
    <2>2. PICK i \in Blocks : k \in Span(i)
      BY <2>1, SpansCover
    <2>3. i # procs - 1
      BY <1>2, <2>2 DEF MmProgress
    <2>4. copier[i] # "none"
      BY <1>2, <2>3 DEF MmProgress, MmType, Blocks
    <2>5. copier[i] \notin {"exited", "reaped"}
      BY <1>2, <2>2 DEF MmProgress
    <2>6. copier[i] = "failed"
      BY <1>2, <2>4, <2>5, MmapCopyAssumption DEF MmType, Blocks
    <2>7. each_process_byte * i <= k /\ k < each_process_byte * (i + 1)
      BY <2>2, <2>3 DEF Span
    <2> QED
      BY <2>6, <2>7
  <1> QED
    BY <1>1, <1>2 DEF MmapCopies, MmSignalled

(* For every length of the file and number of processes: no byte of the    *)
(* target is written by two of them, and when all have stopped copying     *)
(* only the blocks of failed forks are missing; no zombie goes unannounced.*)
THEOREM EveryByteOnce == MmSpec => []MmapCopies
  BY MmStart, MmStep, MmImplied, PTL DEF MmSpec

-----------------------------------------------------------------------------
(* echo_server.c *)
Kids == {"none", "read", "write", "zombie", "reaped"}
ForkType ==
    /\ kid \in [EchoClients -> Kids] /\ term \in [EchoClients -> {"idle", "typing", "shut", "over"}]
    /\ broken \in [EchoClients -> BOOLEAN] /\ typed \in [EchoClients -> Nat]
    /\ taken \in [EchoClients -> Nat] /\ returned \in [EchoClients -> Nat]
    /\ queue \in Seq(EchoClients) /\ sigchld \in BOOLEAN /\ merged \in Nat

(* A client that has not connected is nowhere; one that waits, in the      *)
(* queue or in main's hands, is there once and has no child yet.           *)
Waiting ==
    /\ \A c \in EchoClients : term[c] = "idle" => /\ kid[c] = "none" /\ accepted # c
                                                 /\ \A i \in DOMAIN queue : queue[i] # c
    /\ \A i \in DOMAIN queue : kid[queue[i]] = "none" /\ accepted # queue[i]
    /\ \A i, j \in DOMAIN queue : queue[i] = queue[j] => i = j
    /\ ppc = "fork" => accepted \in EchoClients /\ kid[accepted] = "none"

(* What a child has read it has answered, between two reads; and it ends,  *)
(* on a connection that is not broken, only when no more can be typed.     *)
Answered ==
    \A c \in EchoClients : ~broken[c] =>
        /\ kid[c] # "write" => returned[c] = taken[c]
        /\ kid[c] \in {"zombie", "reaped"} => taken[c] = typed[c] /\ term[c] \in {"shut", "over"}

ZombiesExplained == Cardinality(Undead) <= merged + (IF sigchld THEN 1 ELSE 0)

ForkInv == ForkType /\ Waiting /\ Answered /\ ZombiesExplained

LEMMA ForkStart == ForkInit => ForkInv
  <1> SUFFICES ASSUME ForkInit PROVE ForkInv
    OBVIOUS
  <1>1. ForkType
    <2>1. kid \in [EchoClients -> Kids]
      BY DEF ForkInit, Kids
    <2>2. queue \in Seq(EchoClients) /\ merged \in Nat
      BY DEF ForkInit
    <2> QED
      BY <2>1, <2>2 DEF ForkInit, ForkType
  <1>2. Waiting
    <2>1. DOMAIN queue = {} /\ ppc = "accept" /\ \A c \in EchoClients : kid[c] = "none" /\ accepted # c
      BY ForkEchoAssumption DEF ForkInit
    <2> QED
      BY <2>1 DEF Waiting
  <1>3. Answered
    BY DEF ForkInit, Answered
  <1>4. Undead = {}
    BY DEF Undead, ForkInit
  <1>5. ZombiesExplained
    BY <1>4, FS_EmptySet DEF ZombiesExplained, ForkInit
  <1> QED
    BY <1>1, <1>2, <1>3, <1>5 DEF ForkInv

LEMMA UndeadFinite == IsFiniteSet(Undead) /\ Cardinality(Undead) \in Nat
  <1>1. Undead \subseteq EchoClients
    BY DEF Undead
  <1>2. IsFiniteSet(Undead)
    BY <1>1, ForkEchoAssumption, FS_Subset
  <1> QED
    BY <1>2, FS_CardinalityType

(* A client's step: no child changes, but what was typed may. *)
LEMMA ClientKeeps ==
  ASSUME ForkInv, NEW c \in EchoClients,
         MpConnect(c) \/ write_routine(c) \/ TypeQ(c) \/ read_routine(c) \/ MpAborts(c)
  PROVE  ForkInv'
  <1> USE DEF ForkInv
  <1>1. UNCHANGED <<returned, taken, ppc, accepted, kid, sigchld, merged>>
    BY DEF MpConnect, write_routine, TypeQ, read_routine, MpAborts, serverSide
  <1>2. ZombiesExplained'
    BY <1>1 DEF ZombiesExplained, Undead
  <1>3. CASE MpConnect(c)
    <2>1. /\ term[c] = "idle" /\ term' = [term EXCEPT ![c] = "typing"] /\ queue' = Append(queue, c)
          /\ UNCHANGED <<broken, typed>>
      BY <1>3 DEF MpConnect
    <2>2. term'[c] = "typing" /\ \A d \in EchoClients \ {c} : term'[d] = term[d]
      BY <2>1 DEF ForkType
    <2>3. ForkType'
      BY <1>1, <2>1 DEF ForkType
    <2>4. /\ Len(queue) \in Nat /\ DOMAIN queue = 1 .. Len(queue) /\ DOMAIN queue' = 1 .. Len(queue) + 1
          /\ queue'[Len(queue) + 1] = c /\ \A i \in DOMAIN queue : queue'[i] = queue[i]
      BY <2>1 DEF ForkType
    <2>5. \A i \in DOMAIN queue' : i \in DOMAIN queue \/ i = Len(queue) + 1
      BY <2>4
    <2>6. Waiting'
      BY <1>1, <2>1, <2>2, <2>4, <2>5 DEF Waiting
    <2>7. Answered'
      BY <1>1, <2>1, <2>2 DEF Waiting, Answered
    <2> QED
      BY <1>2, <2>3, <2>6, <2>7
  <1>4. CASE write_routine(c)
    <2>1. term[c] = "typing" /\ ~broken[c] /\ typed' = [typed EXCEPT ![c] = @ + 1] /\ UNCHANGED <<term, broken, queue>>
      BY <1>4 DEF write_routine
    <2>2. ForkType' /\ Waiting'
      BY <1>1, <2>1 DEF ForkType, Waiting
    <2>3. \A d \in EchoClients \ {c} : typed'[d] = typed[d]
      BY <2>1 DEF ForkType
    <2>4. Answered'
      BY <1>1, <2>1, <2>3 DEF Answered
    <2> QED
      BY <1>2, <2>2, <2>4
  <1>5. CASE TypeQ(c) \/ read_routine(c)
    <2>1. /\ term[c] \in {"typing", "shut"} /\ UNCHANGED <<broken, typed, queue>>
          /\ \/ term' = [term EXCEPT ![c] = "shut"]
             \/ term' = [term EXCEPT ![c] = "over"]
      BY <1>5 DEF TypeQ, read_routine
    <2>2. term'[c] \in {"shut", "over"} /\ \A d \in EchoClients \ {c} : term'[d] = term[d]
      BY <2>1 DEF ForkType
    <2>3. ForkType'
      BY <1>1, <2>1 DEF ForkType
    <2>4. Waiting' /\ Answered'
      BY <1>1, <2>1, <2>2 DEF Waiting, Answered
    <2> QED
      BY <1>2, <2>3, <2>4
  <1>6. CASE MpAborts(c)
    <2>1. broken' = [broken EXCEPT ![c] = TRUE] /\ UNCHANGED <<term, typed, queue>>
      BY <1>6 DEF MpAborts
    <2>2. ForkType' /\ Waiting'
      BY <1>1, <2>1 DEF ForkType, Waiting
    <2>3. \A d \in EchoClients : ~broken'[d] => ~broken[d]
      BY <2>1 DEF ForkType
    <2>4. Answered'
      BY <1>1, <2>1, <2>3 DEF Answered
    <2> QED
      BY <1>2, <2>2, <2>4
  <1> QED
    BY <1>3, <1>4, <1>5, <1>6

LEMMA AcceptKeeps == ASSUME ForkInv, ForkAccept PROVE ForkInv'
  <1> USE DEF ForkInv
  <1>1. /\ queue # <<>> /\ accepted' = Head(queue) /\ queue' = Tail(queue) /\ ppc' = "fork"
        /\ UNCHANGED <<term, broken, typed, returned, taken, kid, sigchld, merged>>
    BY DEF ForkAccept, clientSide
  <1>2. ZombiesExplained' /\ Answered'
    BY <1>1 DEF ZombiesExplained, Undead, Answered
  <1>3. /\ Len(queue) \in Nat \ {0} /\ DOMAIN queue = 1 .. Len(queue) /\ DOMAIN queue' = 1 .. Len(queue) - 1
        /\ Head(queue) = queue[1] /\ queue' \in Seq(EchoClients)
        /\ \A i \in DOMAIN queue' : queue'[i] = queue[i + 1]
    BY <1>1 DEF ForkType
  <1>4. \A i \in DOMAIN queue' : i + 1 \in DOMAIN queue /\ i + 1 # 1
    BY <1>3
  <1>5. queue[1] \in EchoClients /\ 1 \in DOMAIN queue
    BY <1>3 DEF ForkType
  <1>6. \A i, j \in DOMAIN queue' : i + 1 = j + 1 => i = j
    BY <1>3
  <1>7. Waiting'
    BY <1>1, <1>3, <1>4, <1>5, <1>6 DEF Waiting
  <1>8. ForkType'
    BY <1>1, <1>3 DEF ForkType
  <1> QED
    BY <1>2, <1>7, <1>8

(* A child changes state without becoming or ceasing to be a zombie. *)
LEMMA KidMoves ==
  ASSUME ForkType, ZombiesExplained, NEW c \in EchoClients, NEW k \in Kids \ {"zombie"}, kid[c] # "zombie",
         kid' = [kid EXCEPT ![c] = k], UNCHANGED <<sigchld, merged>>
  PROVE  ZombiesExplained' /\ kid' \in [EchoClients -> Kids] /\ kid'[c] = k
         /\ \A d \in EchoClients \ {c} : kid'[d] = kid[d]
  <1>1. kid' \in [EchoClients -> Kids] /\ kid'[c] = k /\ \A d \in EchoClients \ {c} : kid'[d] = kid[d]
    BY DEF ForkType
  <1>2. Undead' = Undead
    BY <1>1 DEF Undead
  <1> QED
    BY <1>1, <1>2 DEF ZombiesExplained

LEMMA ForkChildKeeps == ASSUME ForkInv, ForkChild PROVE ForkInv'
  <1> USE DEF ForkInv
  <1>1. ppc = "fork" /\ ppc' = "close" /\ UNCHANGED <<term, broken, typed, returned, taken, queue, accepted, sigchld, merged>>
    BY DEF ForkChild, clientSide
  <1>2. accepted \in EchoClients /\ kid[accepted] = "none"
    BY <1>1 DEF Waiting
  <1>3. CASE kid' = [kid EXCEPT ![accepted] = "read"]
    <2>1. /\ ZombiesExplained' /\ kid' \in [EchoClients -> Kids] /\ kid'[accepted] = "read"
          /\ \A d \in EchoClients \ {accepted} : kid'[d] = kid[d]
      BY <1>1, <1>2, <1>3, KidMoves DEF Kids
    <2>2. \A i \in DOMAIN queue : queue[i] \in EchoClients
      BY DEF ForkType
    <2>3. ForkType' /\ Waiting' /\ Answered'
      BY <1>1, <1>2, <2>1, <2>2 DEF ForkType, Waiting, Answered
    <2> QED
      BY <2>1, <2>3
  <1>4. CASE kid' = kid
    BY <1>1, <1>4 DEF ForkType, Waiting, Answered, ZombiesExplained, Undead
  <1> QED
    BY <1>3, <1>4 DEF ForkChild

(* One signal, one waitpid: the zombie it reaps, or none is left. *)
LEMMA HandlerReaps == ASSUME ForkInv, read_child_process PROVE ForkInv'
  <1> USE DEF ForkInv
  <1>1. sigchld /\ sigchld' = FALSE /\ UNCHANGED <<term, broken, typed, returned, taken, queue, ppc, accepted, merged>>
    BY DEF read_child_process, clientSide
  <1>2. CASE Undead = {} /\ kid' = kid
    <2>1. Undead' = {}
      BY <1>2 DEF Undead
    <2>2. ZombiesExplained'
      BY <1>1, <2>1, FS_EmptySet DEF ZombiesExplained, ForkType
    <2>3. ForkType' /\ Waiting' /\ Answered'
      BY <1>1, <1>2 DEF ForkType, Waiting, Answered
    <2> QED
      BY <2>2, <2>3
  <1>3. ASSUME NEW c \in Undead, kid' = [kid EXCEPT ![c] = "reaped"] PROVE ForkInv'
    <2>1. c \in EchoClients /\ kid[c] = "zombie"
      BY DEF Undead
    <2>2. kid' \in [EchoClients -> Kids] /\ kid'[c] = "reaped" /\ \A d \in EchoClients \ {c} : kid'[d] = kid[d]
      BY <1>3, <2>1 DEF ForkType, Kids
    <2>3. Undead' = Undead \ {c}
      BY <2>2 DEF Undead
    <2>4. Cardinality(Undead \ {c}) = Cardinality(Undead) - 1
      BY UndeadFinite, FS_RemoveElement
    <2>5. ZombiesExplained'
      BY <1>1, <2>3, <2>4, UndeadFinite DEF ZombiesExplained, ForkType
    <2>6. \A i \in DOMAIN queue : queue[i] \in EchoClients /\ queue[i] # c
      BY <2>1 DEF ForkType, Waiting
    <2>7. ForkType'
      BY <1>1, <2>2 DEF ForkType
    <2>8. Waiting'
      BY <1>1, <2>1, <2>2, <2>6 DEF Waiting
    <2>9. Answered'
      BY <1>1, <2>1, <2>2 DEF Answered
    <2> QED
      BY <2>5, <2>7, <2>8, <2>9
  <1> QED
    BY <1>2, <1>3 DEF read_child_process

LEMMA KidKeeps == ASSUME ForkInv, NEW c \in EchoClients, ForkKid(c) PROVE ForkInv'
  <1> USE DEF ForkInv
  <1>0. \A i \in DOMAIN queue : queue[i] \in EchoClients
    BY DEF ForkType
  <1>1. CASE ChildReads(c) \/ ChildWrites(c)
    <2>1. UNCHANGED <<term, broken, typed, queue, ppc, accepted, sigchld, merged>>
      BY <1>1 DEF ChildReads, ChildWrites, clientSide
    <2>2. CASE ChildReads(c)
      <3>1. /\ kid[c] = "read" /\ kid' = [kid EXCEPT ![c] = "write"]
            /\ taken' = [taken EXCEPT ![c] = typed[c]] /\ returned' = returned
        BY <2>2 DEF ChildReads
      <3>2. /\ ZombiesExplained' /\ kid' \in [EchoClients -> Kids] /\ kid'[c] = "write"
            /\ \A d \in EchoClients \ {c} : kid'[d] = kid[d] /\ taken'[d] = taken[d]
        BY <2>1, <3>1, KidMoves DEF Kids, ForkType
      <3>3. ForkType'
        BY <2>1, <3>1, <3>2 DEF ForkType
      <3>4. Waiting' /\ Answered'
        BY <1>0, <2>1, <3>1, <3>2 DEF Waiting, Answered
      <3> QED
        BY <3>2, <3>3, <3>4
    <2>3. CASE ChildWrites(c)
      <3>1. /\ kid[c] = "write" /\ kid' = [kid EXCEPT ![c] = "read"]
            /\ returned' = [returned EXCEPT ![c] = taken[c]] /\ taken' = taken
        BY <2>3 DEF ChildWrites
      <3>2. /\ ZombiesExplained' /\ kid' \in [EchoClients -> Kids] /\ kid'[c] = "read" /\ returned'[c] = taken[c]
            /\ \A d \in EchoClients \ {c} : kid'[d] = kid[d] /\ returned'[d] = returned[d]
        BY <2>1, <3>1, KidMoves DEF Kids, ForkType
      <3>3. ForkType'
        BY <2>1, <3>1, <3>2 DEF ForkType
      <3>4. Waiting' /\ Answered'
        BY <1>0, <2>1, <3>1, <3>2 DEF Waiting, Answered
      <3> QED
        BY <3>2, <3>3, <3>4
    <2> QED
      BY <1>1, <2>2, <2>3
  <1>2. CASE ChildEnds(c)
    <2>1. /\ kid[c] \in {"read", "write"} /\ kid' = [kid EXCEPT ![c] = "zombie"] /\ sigchld' = TRUE
          /\ merged' = (IF sigchld THEN merged + 1 ELSE merged)
          /\ UNCHANGED <<term, broken, typed, returned, taken, queue, ppc, accepted>>
          /\ ~broken[c] => kid[c] = "read" /\ taken[c] = typed[c] /\ term[c] = "shut"
      BY <1>2 DEF ChildEnds, clientSide
    <2>2. kid' \in [EchoClients -> Kids] /\ kid'[c] = "zombie" /\ \A d \in EchoClients \ {c} : kid'[d] = kid[d]
      BY <2>1 DEF ForkType, Kids
    <2>3. Undead' = Undead \cup {c} /\ c \notin Undead
      BY <2>1, <2>2 DEF Undead
    <2>4. Cardinality(Undead') = Cardinality(Undead) + 1
      BY <2>3, UndeadFinite, FS_AddElement
    <2>5. ZombiesExplained'
      BY <2>1, <2>4, UndeadFinite DEF ZombiesExplained, ForkType
    <2>6. ForkType'
      BY <2>1, <2>2 DEF ForkType
    <2>7. Waiting'
      BY <1>0, <2>1, <2>2 DEF Waiting
    <2>8. Answered'
      BY <2>1, <2>2 DEF Answered
    <2> QED
      BY <2>5, <2>6, <2>7, <2>8
  <1> QED
    BY <1>1, <1>2 DEF ForkKid

LEMMA ForkStep == ForkInv /\ [ForkNext]_forkVars => ForkInv'
  <1> SUFFICES ASSUME ForkInv, [ForkNext]_forkVars PROVE ForkInv'
    OBVIOUS
  <1>1. CASE MainCloses
    <2>1. /\ ppc' = "accept" /\ accepted' = Nobody
          /\ UNCHANGED <<term, broken, typed, returned, taken, queue, kid, sigchld, merged>>
      BY <1>1 DEF MainCloses, clientSide
    <2>2. \A i \in DOMAIN queue : queue[i] # Nobody
      BY ForkEchoAssumption DEF ForkInv, ForkType
    <2> QED
      BY <2>1, <2>2, ForkEchoAssumption DEF ForkInv, ForkType, Waiting, Answered, ZombiesExplained, Undead
  <1>2. CASE UNCHANGED forkVars
    BY <1>2 DEF forkVars, ForkInv, ForkType, Waiting, Answered, ZombiesExplained, Undead
  <1> QED
    BY <1>1, <1>2, AcceptKeeps, ForkChildKeeps, HandlerReaps, KidKeeps, ClientKeeps DEF ForkNext, ForkMain

(* However SIGCHLDs merge, forks fail and connections break: there are no  *)
(* more zombies than merged signals and the one pending, and a child that  *)
(* ends on a sound connection has sent back every message typed.           *)
THEOREM ZombiesCounted == ForkSpec => []ForkZombies
  <1>1. ForkInv => ForkZombies
    BY DEF ForkInv, ForkZombies, ZombiesExplained, Answered
  <1> QED
    BY <1>1, ForkStart, ForkStep, PTL DEF ForkSpec

-----------------------------------------------------------------------------
(* The epoll servers.  What the programs have in common: one that exits or *)
(* waits when accept finds nobody accepts once, one that waits for data    *)
(* reads once and answers, one that exits at an error learns of the end    *)
(* from the event, and one that sends its whole buffer has cleared it.     *)
LEMMA ProgramFacts ==
  ASSUME NEW p \in Programs
  PROVE  /\ p.noConn \in {"exit", "block"} => ~p.acceptAll
         /\ p # NoUseRdhup /\ (p.error = "exit" \/ p.empty = "exit") => p.rdhup
         /\ p.empty = "block" => ~p.drain /\ p.reply = "read"
         /\ p.rdhup => p.reply = "none" /\ ~p.drain
         /\ p.reply = "buffer" => p.bzero
         /\ p.reply \in {"none", "read", "buffer"}
  <1>1. CASE p \in {Day03, Day04, Day05, Day06}
    BY <1>1 DEF Day03, Day04, Day05, Day06
  <1>2. CASE p = EchoEpoll
    BY <1>2 DEF EchoEpoll
  <1>3. CASE p = MtLt
    BY <1>3 DEF MtLt
  <1>4. CASE p = MtEt
    BY <1>4 DEF MtEt
  <1>5. CASE p = MultiPort
    BY <1>5 DEF MultiPort
  <1>6. CASE p = UseRdhup
    BY <1>6 DEF UseRdhup
  <1>7. CASE p = NoUseRdhup
    BY <1>7 DEF NoUseRdhup
  <1> QED
    BY <1>1, <1>2, <1>3, <1>4, <1>5, <1>6, <1>7 DEF Programs

Sockets == Peers \cup {Listener, Udp}
EsType ==
    /\ prog \in Programs /\ conn \in [Peers -> {"idle", "queued", "open", "closed"}]
    /\ sent \in [Peers -> Nat] /\ got \in [Peers -> Nat] /\ backlog \in Seq(Peers)
    /\ fin \in [Peers -> BOOLEAN] /\ rst \in [Peers -> BOOLEAN]
    /\ batch \in Seq([fd : Sockets, rdhup : BOOLEAN]) /\ toWrite \in 0 .. BufSize
    /\ out \in [Peers -> Seq(Peers \X Nat)]

(* What the programs rely on when they handle an event of the batch: each  *)
(* socket is in it once, and what epoll_wait saw is still so.              *)
Ready(e) ==
    /\ e.fd = Listener /\ ~prog.acceptAll => backlog # <<>>
    /\ e.fd \in Peers /\ prog.empty = "block" => got[e.fd] < sent[e.fd] \/ fin[e.fd]
    /\ e.fd \in Peers /\ prog.rdhup /\ ~e.rdhup => conn[e.fd] = "open" /\ got[e.fd] < sent[e.fd]
BatchReady ==
    /\ \A j, k \in DOMAIN batch : batch[j].fd = batch[k].fd => j = k
    /\ \A k \in DOMAIN batch : Ready(batch[k]) \/ (k = 1 /\ toWrite > 0)

(* What c was sent, s: its own bytes in their order; nothing beyond the     *)
(* first b, and all of these unless a write was short.                      *)
Ordered(c, s) == \A k \in DOMAIN s : s[k][1] = c /\ \A j \in 1 .. k - 1 : s[j][2] < s[k][2]
Whole(c, s) == \A k \in DOMAIN s : s[k] = <<c, k>>
Below(s, b) == \A k \in DOMAIN s : s[k][2] <= b
SentUpTo(c, b) == Below(out[c], b) /\ (c \notin cut => Len(out[c]) = b)
(* The answer to a peer whose connection is not reset: what was read is    *)
(* sent, or its last m bytes are at the front of the buffer.               *)
Pending(c) == toWrite > 0 /\ batch[1].fd = c
InBuffer(c, m) == /\ m <= got[c] /\ SentUpTo(c, got[c] - m)
                  /\ \A k \in 1 .. toWrite : buf[k] = IF k <= m THEN <<c, got[c] - m + k>> ELSE <<>>
Echo(c) == prog.reply # "none" /\ ~rst[c] =>
    IF Pending(c) THEN \E m \in 1 .. toWrite : InBuffer(c, m) ELSE SentUpTo(c, got[c])
EchoOk ==
    /\ toWrite > 0 => prog.reply # "none" /\ batch # <<>> /\ batch[1].fd \in Peers
    /\ \A c \in Peers : Echo(c)
    /\ \A c \in Peers : Ordered(c, out[c]) /\ (c \notin cut => Whole(c, out[c]))

EsInv == EsType /\ BatchReady /\ EchoOk /\ EsKeepsServing

LEMMA EsStart == EsInit => EsInv
  <1> SUFFICES ASSUME EsInit PROVE EsInv
    OBVIOUS
  <1>1. EsType
    BY EventServerAssumption DEF EsInit, EsType
  <1>2. BatchReady /\ EsKeepsServing
    BY DEF EsInit, BatchReady, EsKeepsServing
  <1>3. EchoOk
    <2>1. \A c \in Peers : out[c] = <<>> /\ got[c] = 0
      BY DEF EsInit
    <2>2. \A c \in Peers : SentUpTo(c, got[c]) /\ Ordered(c, out[c]) /\ Whole(c, out[c])
      BY <2>1 DEF SentUpTo, Below, Ordered, Whole
    <2>3. toWrite = 0
      BY DEF EsInit
    <2> QED
      BY <2>2, <2>3 DEF EchoOk, Echo, Pending
  <1> QED
    BY <1>1, <1>2, <1>3 DEF EsInv

LEMMA EsInvSound == EsInv => EsSound
  <1> SUFFICES ASSUME EsInv PROVE EsSound
    OBVIOUS
  <1>1. ASSUME NEW c \in Peers, c \notin cut PROVE out[c] = [k \in DOMAIN out[c] |-> <<c, k>>]
    <2>1. out[c] \in Seq(Peers \X Nat)
      BY DEF EsInv, EsType
    <2>2. out[c] = [k \in DOMAIN out[c] |-> out[c][k]]
      BY <2>1
    <2>3. \A k \in DOMAIN out[c] : out[c][k] = <<c, k>>
      BY <1>1 DEF EsInv, EchoOk, Whole
    <2> QED
      BY <2>2, <2>3
  <1>2. ASSUME NEW c \in Peers
        PROVE  \A k \in DOMAIN out[c] : out[c][k][1] = c /\ \A j \in 1 .. k - 1 : out[c][j][2] < out[c][k][2]
    BY DEF EsInv, EchoOk, Ordered
  <1>3. EsOwnBytes
    BY <1>1, <1>2 DEF EsOwnBytes
  <1> QED
    BY <1>3 DEF EsInv, EsSound

(* The peers only add to what there is to do. *)
LEMMA PeersAdd ==
  ASSUME EsInv, UNCHANGED loopVars, status = "up" \/ conn' = conn,
         conn' \in [Peers -> {"idle", "queued", "open", "closed"}], sent' \in [Peers -> Nat], backlog' \in Seq(Peers),
         fin' \in [Peers -> BOOLEAN], rst' \in [Peers -> BOOLEAN], backlog # <<>> => backlog' # <<>>,
         \A c \in Peers : /\ conn[c] = "open" => conn'[c] = "open"
                          /\ sent[c] <= sent'[c] /\ (fin[c] => fin'[c]) /\ (rst[c] => rst'[c])
  PROVE  EsInv'
  <1>1. /\ prog' = prog /\ got' = got /\ batch' = batch /\ buf' = buf /\ toWrite' = toWrite /\ out' = out
        /\ status' = status /\ limit' = limit /\ cut' = cut
    BY DEF loopVars, runVars
  <1>2. EsType' /\ EsKeepsServing'
    BY <1>1 DEF EsInv, EsType, EsKeepsServing, Exhausted
  <1>3. \A c \in Peers : got[c] < sent[c] => got[c] < sent'[c]
    BY DEF EsInv, EsType
  <1>4. \A k \in DOMAIN batch : Ready(batch[k]) => Ready(batch[k])'
    BY <1>1, <1>3 DEF EsInv, Ready
  <1>5. BatchReady'
    BY <1>1, <1>4 DEF EsInv, BatchReady
  <1>6. \A c \in Peers : Echo(c)'
    BY <1>1 DEF EsInv, EchoOk, Echo, Pending, InBuffer, SentUpTo
  <1>7. EchoOk'
    BY <1>1, <1>6 DEF EsInv, EchoOk
  <1> QED
    BY <1>2, <1>5, <1>7 DEF EsInv

LEMMA PeersKeep == ASSUME EsInv, PeerStep PROVE EsInv'
  <1> status = "up"
    BY DEF PeerStep
  <1>0. /\ conn \in [Peers -> {"idle", "queued", "open", "closed"}] /\ sent \in [Peers -> Nat] /\ backlog \in Seq(Peers)
        /\ fin \in [Peers -> BOOLEAN] /\ rst \in [Peers -> BOOLEAN] /\ \A d \in Peers : sent[d] <= sent[d]
    BY DEF EsInv, EsType
  <1>1. ASSUME NEW c \in Peers, PeerConnects(c) PROVE EsInv'
    <2>1. conn' = [conn EXCEPT ![c] = "queued"] /\ conn[c] = "idle" /\ backlog' = Append(backlog, c)
          /\ UNCHANGED <<loopVars, sent, fin, rst>>
      BY <1>1 DEF PeerConnects
    <2>2. backlog' \in Seq(Peers) /\ backlog' # <<>>
      BY <1>0, <2>1, AppendProperties
    <2>3. conn' \in [Peers -> {"idle", "queued", "open", "closed"}] /\ \A d \in Peers : conn[d] = "open" => conn'[d] = "open"
      BY <1>0, <2>1
    <2> QED
      BY <1>0, <2>1, <2>2, <2>3, PeersAdd
  <1>2. ASSUME NEW c \in Peers, PeerSends(c) PROVE EsInv'
    <2>1. sent' = [sent EXCEPT ![c] = @ + 1] /\ UNCHANGED <<loopVars, conn, fin, rst, backlog>>
      BY <1>2 DEF PeerSends
    <2>2. sent' \in [Peers -> Nat] /\ \A d \in Peers : sent[d] <= sent'[d]
      BY <1>0, <2>1
    <2> QED
      BY <1>0, <2>1, <2>2, PeersAdd
  <1>3. ASSUME NEW c \in Peers, PeerCloses(c) PROVE EsInv'
    <2>1. fin' = [fin EXCEPT ![c] = TRUE] /\ UNCHANGED <<loopVars, conn, sent, rst, backlog>>
      BY <1>3 DEF PeerCloses
    <2>2. fin' \in [Peers -> BOOLEAN] /\ \A d \in Peers : fin[d] => fin'[d]
      BY <1>0, <2>1
    <2> QED
      BY <1>0, <2>1, <2>2, PeersAdd
  <1>4. ASSUME NEW c \in Peers, PeerResets(c) PROVE EsInv'
    <2>1. fin' = [fin EXCEPT ![c] = TRUE] /\ rst' = [rst EXCEPT ![c] = TRUE] /\ UNCHANGED <<loopVars, conn, sent, backlog>>
      BY <1>4 DEF PeerResets
    <2>2. fin' \in [Peers -> BOOLEAN] /\ rst' \in [Peers -> BOOLEAN]
          /\ \A d \in Peers : (fin[d] => fin'[d]) /\ (rst[d] => rst'[d])
      BY <1>0, <2>1
    <2> QED
      BY <1>0, <2>1, <2>2, PeersAdd
  <1>5. CASE DatagramArrives
    <2>1. UNCHANGED <<loopVars, conn, sent, fin, rst, backlog>>
      BY <1>5 DEF DatagramArrives
    <2> QED
      BY <1>0, <2>1, PeersAdd
  <1> QED
    BY <1>1, <1>2, <1>3, <1>4, <1>5 DEF PeerStep

-----------------------------------------------------------------------------
(* The batch after an event is dealt with, or before it is: the other      *)
(* entries are for other sockets.                                          *)
LEMMA StaysReady ==
  ASSUME EsInv, UNCHANGED <<prog, sent, fin>>,
         \A s \in Peers : s # Current => got'[s] = got[s] /\ (conn[s] = "open" => conn'[s] = "open"),
         Current # Listener /\ backlog # <<>> => backlog' # <<>>
  PROVE  \A e \in [fd : Sockets, rdhup : BOOLEAN] : e.fd # Current /\ Ready(e) => Ready(e)'
  BY DEF Ready

LEMMA OthersReady ==
  ASSUME EsInv, batch # <<>>, UNCHANGED <<prog, sent, fin>>,
         \A s \in Peers : s # Current => got'[s] = got[s] /\ (conn[s] = "open" => conn'[s] = "open"),
         Current # Listener /\ backlog # <<>> => backlog' # <<>>
  PROVE  /\ batch' = batch /\ (Ready(batch[1])' \/ toWrite' > 0) => BatchReady'
         /\ batch' = Tail(batch) => BatchReady'
  <1>1. /\ batch \in Seq([fd : Sockets, rdhup : BOOLEAN]) /\ DOMAIN batch = 1 .. Len(batch) /\ Len(batch) \in Nat \ {0}
        /\ Current = batch[1].fd
    BY DEF EsInv, EsType, Current
  <1>2. \A e \in [fd : Sockets, rdhup : BOOLEAN] : e.fd # Current /\ Ready(e) => Ready(e)'
    BY StaysReady
  <1>3. ASSUME NEW k \in DOMAIN batch, k # 1
        PROVE  batch[k].fd # Current /\ Ready(batch[k]) /\ batch[k] \in [fd : Sockets, rdhup : BOOLEAN]
    <2>1. 1 \in DOMAIN batch
      BY <1>1
    <2>2. batch[k].fd # Current /\ Ready(batch[k])
      BY <1>1, <1>3, <2>1 DEF EsInv, BatchReady
    <2> QED
      BY <1>1, <2>2, ElementOfSeq
  <1>4. ASSUME batch' = Tail(batch) PROVE BatchReady'
    <2>1. /\ DOMAIN batch' = 1 .. Len(batch) - 1
          /\ \A k \in 1 .. Len(batch) - 1 : k + 1 \in DOMAIN batch /\ k + 1 # 1 /\ batch'[k] = batch[k + 1]
      BY <1>1, <1>4
    <2>2. \A j, k \in DOMAIN batch' : batch'[j].fd = batch'[k].fd => j = k
      <3> SUFFICES ASSUME NEW j \in DOMAIN batch', NEW k \in DOMAIN batch', batch'[j].fd = batch'[k].fd PROVE j = k
        OBVIOUS
      <3>1. j + 1 \in DOMAIN batch /\ k + 1 \in DOMAIN batch /\ batch[j + 1].fd = batch[k + 1].fd
        BY <2>1
      <3>2. j + 1 = k + 1
        BY <3>1 DEF EsInv, BatchReady
      <3> QED
        BY <1>1, <2>1, <3>2
    <2>3. ASSUME NEW k \in DOMAIN batch' PROVE Ready(batch[k])'
      <3>1. batch'[k] = batch[k + 1] /\ k + 1 \in DOMAIN batch /\ k + 1 # 1
        BY <2>1
      <3>2. PICK e \in [fd : Sockets, rdhup : BOOLEAN] : e = batch[k + 1]
        BY <1>3, <3>1
      <3>3. e.fd # Current /\ Ready(e)
        BY <1>3, <3>1, <3>2 DEF Ready
      <3>4. Ready(e)'
        BY <1>2, <3>3
      <3> QED
        BY <3>1, <3>2, <3>4 DEF Ready
    <2> QED
      BY <2>2, <2>3 DEF BatchReady
  <1>5. ASSUME batch' = batch, Ready(batch[1])' \/ toWrite' > 0 PROVE BatchReady'
    <2>1. ASSUME NEW k \in DOMAIN batch', k # 1 PROVE Ready(batch[k])'
      <3>1. batch'[k] = batch[k] /\ k \in DOMAIN batch
        BY <1>5
      <3>2. PICK e \in [fd : Sockets, rdhup : BOOLEAN] : e = batch[k]
        BY <1>3, <2>1, <3>1
      <3>3. e.fd # Current /\ Ready(e)
        BY <1>3, <2>1, <3>1, <3>2 DEF Ready
      <3>4. Ready(e)'
        BY <1>2, <3>3
      <3> QED
        BY <3>1, <3>2, <3>4 DEF Ready
    <2>2. \A k \in DOMAIN batch' : Ready(batch[k])' \/ (k = 1 /\ toWrite' > 0)
      BY <1>5, <2>1
    <2> QED
      BY <1>5, <2>2 DEF EsInv, BatchReady
  <1> QED
    BY <1>4, <1>5

LEMMA TableIsSeq == ASSUME NEW S, NEW n \in Nat, NEW f \in [1 .. n -> S] PROVE f \in Seq(S) /\ Len(f) = n
  OBVIOUS

LEMMA HeadOfSeq ==
  ASSUME NEW S, NEW q \in Seq(S), q # <<>>
  PROVE  q[1] \in S /\ 1 \in DOMAIN q /\ Head(q) = q[1] /\ Tail(q) \in Seq(S)
  OBVIOUS

(* Nothing is to be written: a step that reads nothing owes nothing. *)
LEMMA EchoIdle ==
  ASSUME EsInv, toWrite = 0, UNCHANGED <<prog, cut, got, rst, out, toWrite>>
  PROVE  EchoOk'
  BY DEF EsInv, EchoOk, Echo, Pending, SentUpTo

LEMMA WaitKeeps == ASSUME EsInv, EsWait PROVE EsInv'
  <1>1. /\ batch = <<>> /\ UNCHANGED <<prog, cut, conn, sent, fin, rst, backlog, got, toWrite, out, status>>
    BY DEF EsWait, peerVars, runVars
  <1>2. PICK order \in SetToSeqs(Reported) :
           batch' = [k \in DOMAIN order |-> [fd |-> order[k], rdhup |-> order[k] \in Peers /\ fin[order[k]]]]
    BY DEF EsWait
  <1>3. Reported \subseteq Sockets /\ Cardinality(Reported) \in Nat
    <2>1. Reported \subseteq Sockets
      BY DEF Reported, Sockets
    <2>2. IsFiniteSet({Listener, Udp})
      <3>1. IsFiniteSet({Listener}) /\ IsFiniteSet({Udp}) /\ {Listener, Udp} = {Listener} \cup {Udp}
        BY FS_Singleton
      <3> QED
        BY <3>1, FS_Union
    <2>3. IsFiniteSet(Sockets)
      BY <2>2, EventServerAssumption, FS_Union DEF Sockets
    <2>4. IsFiniteSet(Reported)
      BY <2>1, <2>3, FS_Subset
    <2> QED
      BY <2>1, <2>4, FS_CardinalityType
  <1> DEFINE n == Cardinality(Reported)
  <1>4. order \in [1 .. n -> Reported] /\ \A i, j \in 1 .. n : i # j => order[i] # order[j]
    BY DEF SetToSeqs
  <1> HIDE DEF n
  <1>5. n \in Nat
    BY <1>3 DEF n
  <1>6. /\ batch' = [k \in 1 .. n |-> [fd |-> order[k], rdhup |-> order[k] \in Peers /\ fin[order[k]]]]
        /\ \A k \in 1 .. n : batch'[k].fd = order[k] /\ (batch'[k].rdhup <=> order[k] \in Peers /\ fin[order[k]])
                             /\ batch'[k] \in [fd : Sockets, rdhup : BOOLEAN]
    BY <1>2, <1>3, <1>4
  <1>7. batch' \in Seq([fd : Sockets, rdhup : BOOLEAN]) /\ DOMAIN batch' = 1 .. n
    <2>1. DOMAIN batch' = 1 .. n /\ batch' = [k \in 1 .. n |-> batch'[k]]
      BY <1>6
    <2>2. batch' \in [1 .. n -> [fd : Sockets, rdhup : BOOLEAN]]
      BY <1>6, <2>1
    <2> QED
      BY <1>5, <2>1, <2>2, TableIsSeq
  <1>8. toWrite = 0
    BY <1>1, EventServerAssumption DEF EsInv, EchoOk, EsType
  <1>9. ASSUME NEW k \in 1 .. n PROVE Ready(batch[k])'
    <2> DEFINE x == order[k]
    <2>1. x \in Reported /\ x \in Sockets /\ batch'[k].fd = x /\ (batch'[k].rdhup <=> x \in Peers /\ fin[x])
      BY <1>3, <1>4, <1>6
    <2>2. Readable(x)
      BY <2>1 DEF Reported
    <2>3. x = Listener => backlog # <<>>
      BY <2>2, EventServerAssumption DEF Readable
    <2>4. x \in Peers => x # Listener /\ x # Udp /\ sent[x] \in Nat /\ got[x] \in Nat
      BY EventServerAssumption DEF EsInv, EsType
    <2>5. x \in Peers => conn[x] = "open" /\ (sent[x] - got[x] > 0 \/ fin[x])
      BY <2>2, <2>4 DEF Readable, Unread
    <2>6. x \in Peers => conn[x] = "open" /\ (got[x] < sent[x] \/ fin[x])
      BY <2>4, <2>5
    <2> QED
      BY <1>1, <2>1, <2>3, <2>6 DEF Ready
  <1>10. BatchReady'
    BY <1>4, <1>6, <1>7, <1>9 DEF BatchReady
  <1>11. EsType' /\ EsKeepsServing'
    BY <1>1, <1>7 DEF EsInv, EsType, EsWait, EsKeepsServing
  <1>12. EchoOk'
    BY <1>1, <1>8, EchoIdle
  <1> QED
    BY <1>10, <1>11, <1>12 DEF EsInv

(* The event at the head of the batch. *)
LEMMA HeadFacts ==
  ASSUME EsInv, NEW s, Handling(s)
  PROVE  /\ batch # <<>> /\ Current = s /\ s \in Sockets /\ status = "up" /\ batch[1].fd = s /\ 1 \in DOMAIN batch
         /\ Tail(batch) \in Seq([fd : Sockets, rdhup : BOOLEAN]) /\ toWrite \in 0 .. BufSize /\ Head(batch) = batch[1]
         /\ toWrite = 0 => Ready(batch[1])
         /\ s \notin Peers => toWrite = 0
  <1>1. /\ batch # <<>> /\ Current = s /\ status = "up" /\ batch \in Seq([fd : Sockets, rdhup : BOOLEAN])
        /\ toWrite \in 0 .. BufSize
    BY DEF Handling, EsInv, EsType
  <1>2. /\ batch[1] \in [fd : Sockets, rdhup : BOOLEAN] /\ 1 \in DOMAIN batch /\ Head(batch) = batch[1]
        /\ Tail(batch) \in Seq([fd : Sockets, rdhup : BOOLEAN])
    BY <1>1, HeadOfSeq
  <1>3. batch[1].fd = s /\ s \in Sockets
    BY <1>1, <1>2 DEF Current
  <1>4. toWrite = 0 => Ready(batch[1])
    BY <1>1, <1>2 DEF EsInv, BatchReady
  <1>5. s \notin Peers => toWrite = 0
    BY <1>1, <1>3, EventServerAssumption DEF EsInv, EchoOk
  <1> QED
    BY <1>1, <1>2, <1>3, <1>4, <1>5

LEMMA AcceptsKeeps == ASSUME EsInv, AcceptConn PROVE EsInv'
  <1>1. Handling(Listener) /\ UNCHANGED <<prog, cut, sent, got, fin, rst, toWrite, out>>
    BY DEF AcceptConn, runVars
  <1>2. /\ batch # <<>> /\ Current = Listener /\ status = "up" /\ batch[1].fd = Listener
        /\ Tail(batch) \in Seq([fd : Sockets, rdhup : BOOLEAN]) /\ toWrite = 0 /\ Ready(batch[1])
    BY <1>1, HeadFacts, EventServerAssumption
  <1>3. prog \in Programs
    BY DEF EsInv, EsType
  <1>4. EchoOk'
    BY <1>1, <1>2, EchoIdle
  <1>5. CASE backlog # <<>>
    <2>1. /\ backlog' = Tail(backlog) /\ conn' = [conn EXCEPT ![Head(backlog)] = "open"]
          /\ batch' = (IF prog.acceptAll THEN batch ELSE Tail(batch)) /\ status' = status
      BY <1>5 DEF AcceptConn
    <2>2. /\ conn' \in [Peers -> {"idle", "queued", "open", "closed"}] /\ backlog' \in Seq(Peers)
          /\ \A s \in Peers : conn[s] = "open" => conn'[s] = "open"
      BY <1>5, <2>1 DEF EsInv, EsType
    <2>3. EsType' /\ EsKeepsServing'
      BY <1>1, <1>2, <2>1, <2>2 DEF EsInv, EsType, EsKeepsServing
    <2>4. batch' = Tail(batch) \/ (batch' = batch /\ Ready(batch[1])')
      <3>1. CASE prog.acceptAll
        <4>1. Listener \notin Peers /\ batch' = batch
          BY <2>1, <3>1, EventServerAssumption
        <4> QED
          BY <1>1, <1>2, <3>1, <4>1 DEF Ready
      <3>2. CASE ~prog.acceptAll
        BY <2>1, <3>2
      <3> QED
        BY <3>1, <3>2
    <2>5. BatchReady'
      BY <1>1, <1>2, <2>2, <2>4, OthersReady
    <2> QED
      BY <1>4, <2>3, <2>5 DEF EsInv
  <1>6. CASE backlog = <<>>
    <2>1. /\ batch' = Tail(batch) /\ UNCHANGED <<backlog, conn>>
          /\ status' = CASE prog.noConn = "exit" -> "exit" [] prog.noConn = "block" -> "blocked" [] OTHER -> status
      BY <1>6 DEF AcceptConn
    <2>2. prog.acceptAll
      BY <1>2, <1>6 DEF Ready
    <2>3. prog.noConn # "exit" /\ prog.noConn # "block"
      BY <1>3, <2>2, ProgramFacts
    <2>4. status' = "up"
      BY <1>2, <2>1, <2>3
    <2>5. EsType' /\ EsKeepsServing'
      BY <1>1, <1>2, <2>1, <2>4 DEF EsInv, EsType, EsKeepsServing
    <2>6. BatchReady'
      BY <1>1, <1>2, <2>1, OthersReady
    <2> QED
      BY <1>4, <2>5, <2>6 DEF EsInv
  <1> QED
    BY <1>5, <1>6

LEMMA AcceptFailsKeeps == ASSUME EsInv, AcceptFails PROVE EsInv'
  <1>1. /\ Handling(Listener) /\ Exhausted /\ batch' = Tail(batch)
        /\ UNCHANGED <<prog, limit, cut, conn, sent, fin, rst, backlog, got, toWrite, out>>
        /\ status' = IF prog.noConn = "exit" THEN "exit" ELSE status
    BY DEF AcceptFails, peerVars
  <1>2. /\ batch # <<>> /\ Current = Listener /\ status = "up"
        /\ Tail(batch) \in Seq([fd : Sockets, rdhup : BOOLEAN]) /\ toWrite = 0
    BY <1>1, HeadFacts, EventServerAssumption
  <1>3. EsType'
    BY <1>1, <1>2 DEF EsInv, EsType
  <1>4. EsKeepsServing'
    <2>1. Exhausted'
      BY <1>1 DEF Exhausted
    <2> QED
      BY <1>1, <1>2, <2>1 DEF EsKeepsServing
  <1>5. BatchReady'
    BY <1>1, <1>2, OthersReady
  <1> QED
    BY <1>1, <1>2, <1>3, <1>4, <1>5, EchoIdle DEF EsInv

LEMMA DatagramKeeps == ASSUME EsInv, AnswerDatagram PROVE EsInv'
  <1>1. /\ Handling(Udp) /\ UNCHANGED <<prog, cut, conn, sent, fin, rst, backlog, got, toWrite, out, status>>
        /\ batch' = Tail(batch)
    BY DEF AnswerDatagram, runVars
  <1>2. /\ batch # <<>> /\ Current = Udp /\ Tail(batch) \in Seq([fd : Sockets, rdhup : BOOLEAN]) /\ toWrite = 0
        /\ status = "up"
    BY <1>1, HeadFacts, EventServerAssumption
  <1>3. EsType' /\ EsKeepsServing'
    BY <1>1, <1>2 DEF EsInv, EsType, EsKeepsServing
  <1>4. BatchReady'
    BY <1>1, <1>2, OthersReady
  <1> QED
    BY <1>1, <1>2, <1>3, <1>4, EchoIdle DEF EsInv

(* The ends of a peer's event without an answer: it is closed or not, the  *)
(* batch goes on, or the handler goes round.                               *)
LEMMA EventEnds ==
  ASSUME EsInv, NEW c \in Peers, Handling(c), toWrite = 0,
         UNCHANGED <<prog, cut, sent, fin, rst, backlog, got, toWrite, out>>,
         conn' = conn \/ conn' = [conn EXCEPT ![c] = "closed"],
         batch' \in {Tail(batch), <<>>} \/ (batch' = batch /\ ~prog.rdhup /\ prog.empty # "block"),
         status' = "up" \/ (status' = "exit" /\ prog = NoUseRdhup)
  PROVE  EsInv'
  <1>1. /\ batch # <<>> /\ Current = c /\ Tail(batch) \in Seq([fd : Sockets, rdhup : BOOLEAN]) /\ batch[1].fd = c
    BY HeadFacts
  <1>2. /\ conn' \in [Peers -> {"idle", "queued", "open", "closed"}]
        /\ \A s \in Peers : s # c => conn'[s] = conn[s]
    BY DEF EsInv, EsType
  <1>3. EsType' /\ EsKeepsServing'
    <2>1. <<>> \in Seq([fd : Sockets, rdhup : BOOLEAN])
      BY EmptySeq
    <2>2. batch' \in Seq([fd : Sockets, rdhup : BOOLEAN])
      BY <1>1, <2>1 DEF EsInv, EsType
    <2> QED
      BY <1>2, <2>2 DEF EsInv, EsType, EsKeepsServing
  <1>4. BatchReady'
    <2>1. CASE batch' = <<>>
      BY <2>1 DEF BatchReady
    <2>2. CASE batch' = Tail(batch)
      BY <1>1, <1>2, <2>2, OthersReady
    <2>3. CASE batch' = batch /\ ~prog.rdhup /\ prog.empty # "block"
      <3>1. Ready(batch[1])'
        <4>1. batch'[1].fd = c /\ c # Listener
          BY <1>1, <2>3, EventServerAssumption
        <4> QED
          BY <2>3, <4>1 DEF Ready
      <3> QED
        BY <1>1, <1>2, <2>3, <3>1, OthersReady
    <2> QED
      BY <2>1, <2>2, <2>3
  <1> QED
    BY <1>3, <1>4, EchoIdle DEF EsInv

LEMMA RdhupKeeps == ASSUME EsInv, NEW c \in Peers, CloseRdhup(c) PROVE EsInv'
  <1>1. /\ Handling(c) /\ prog.rdhup /\ conn' = [conn EXCEPT ![c] = "closed"] /\ batch' = Tail(batch) /\ status' = status
        /\ UNCHANGED <<prog, cut, sent, fin, rst, backlog, got, toWrite, out>>
    BY DEF CloseRdhup, CloseIt, Close, runVars
  <1>2. toWrite = 0
    <2>1. prog.reply = "none"
      BY <1>1, ProgramFacts DEF EsInv, EsType
    <2> QED
      BY <2>1, EventServerAssumption DEF EsInv, EsType, EchoOk
  <1>3. status' = "up"
    BY <1>1, HeadFacts
  <1> QED
    BY <1>1, <1>2, <1>3, EventEnds

(* A read of a peer's event: what the programs that exit or wait when it   *)
(* fails may count on.                                                     *)
LEMMA ReadFacts ==
  ASSUME EsInv, NEW c \in Peers, Reads(c)
  PROVE  /\ Handling(c) /\ toWrite = 0 /\ status = "up" /\ prog \in Programs
         /\ prog.rdhup => conn[c] = "open" /\ Unread(c) > 0
         /\ prog.empty = "block" => Unread(c) > 0 \/ fin[c]
         /\ prog.drain => ~prog.rdhup /\ prog.empty # "block"
  <1>1. Handling(c) /\ ~(prog.rdhup /\ Head(batch).rdhup) /\ toWrite = 0
    BY DEF Reads
  <1>2. /\ batch[1].fd = c /\ Head(batch) = batch[1] /\ Ready(batch[1]) /\ status = "up"
    BY <1>1, HeadFacts
  <1>3. prog \in Programs /\ sent[c] \in Nat /\ got[c] \in Nat
    BY DEF EsInv, EsType
  <1>4. prog.rdhup => conn[c] = "open" /\ got[c] < sent[c]
    BY <1>1, <1>2 DEF Ready
  <1>5. prog.empty = "block" => got[c] < sent[c] \/ fin[c]
    BY <1>2 DEF Ready
  <1>6. got[c] < sent[c] => Unread(c) > 0
    BY <1>3 DEF Unread
  <1> QED
    BY <1>1, <1>2, <1>3, <1>4, <1>5, <1>6, ProgramFacts

LEMMA FailsKeeps == ASSUME EsInv, NEW c \in Peers, ReadFails(c) PROVE EsInv'
  <1>1. /\ Reads(c) /\ (conn[c] = "open" => Unread(c) = 0)
        /\ UNCHANGED <<prog, cut, sent, fin, rst, backlog, got, toWrite, out>>
    BY DEF ReadFails, runVars
  <1>2. /\ Handling(c) /\ toWrite = 0 /\ status = "up" /\ prog \in Programs
        /\ prog.rdhup => conn[c] = "open" /\ Unread(c) > 0
        /\ prog.drain => ~prog.rdhup /\ prog.empty # "block"
    BY <1>1, ReadFacts
  <1>3. ~prog.rdhup
    BY <1>1, <1>2
  <1>4. CASE prog.error = "close"
    <2>1. conn' = [conn EXCEPT ![c] = "closed"] /\ batch' = Tail(batch) /\ status' = status
      BY <1>4 DEF ReadFails, CloseIt, Close
    <2> QED
      BY <1>1, <1>2, <2>1, EventEnds
  <1>5. CASE prog.error = "exit"
    <2>1. status' = "exit" /\ conn' = conn /\ batch' = batch
      BY <1>5 DEF ReadFails
    <2>2. prog = NoUseRdhup
      BY <1>2, <1>3, <1>5, ProgramFacts
    <2>3. ~prog.rdhup /\ prog.empty # "block"
      BY <2>2 DEF NoUseRdhup
    <2> QED
      BY <1>1, <1>2, <2>1, <2>2, <2>3, EventEnds
  <1>6. CASE prog.error # "close" /\ prog.error # "exit"
    <2>1. conn' = conn /\ status' = status /\ batch' = IF prog.drain THEN batch ELSE Tail(batch)
      BY <1>6 DEF ReadFails, GoOn
    <2> QED
      BY <1>1, <1>2, <2>1, EventEnds
  <1> QED
    BY <1>4, <1>5, <1>6

LEMMA EofKeeps == ASSUME EsInv, NEW c \in Peers, ReadEof(c) PROVE EsInv'
  <1>1. /\ Reads(c) /\ Unread(c) = 0 /\ conn' = [conn EXCEPT ![c] = "closed"]
        /\ batch' = (IF prog.eofEnds THEN Tail(batch) ELSE batch)
        /\ UNCHANGED <<prog, cut, sent, fin, rst, backlog, got, toWrite, out, status>>
    BY DEF ReadEof, Close, runVars
  <1>2. /\ Handling(c) /\ toWrite = 0 /\ status = "up" /\ prog \in Programs
        /\ prog.rdhup => conn[c] = "open" /\ Unread(c) > 0
    BY <1>1, ReadFacts
  <1>3. ~prog.rdhup
    BY <1>1, <1>2
  <1>4. ~prog.eofEnds => prog.empty # "block"
    BY <1>2 DEF Programs, Day03, Day04, Day05, Day06, EchoEpoll, MtLt, MtEt, MultiPort, UseRdhup, NoUseRdhup
  <1> QED
    BY <1>1, <1>2, <1>3, <1>4, EventEnds

LEMMA NothingKeeps == ASSUME EsInv, NEW c \in Peers, ReadNothing(c) PROVE EsInv'
  <1>1. /\ Reads(c) /\ Unread(c) = 0 /\ ~fin[c]
        /\ UNCHANGED <<prog, cut, sent, fin, rst, backlog, got, toWrite, out>>
    BY DEF ReadNothing, runVars
  <1>2. /\ Handling(c) /\ toWrite = 0 /\ status = "up" /\ prog \in Programs
        /\ prog.rdhup => conn[c] = "open" /\ Unread(c) > 0
        /\ prog.empty = "block" => Unread(c) > 0 \/ fin[c]
    BY <1>1, ReadFacts
  <1>3. ~prog.rdhup /\ prog.empty # "block"
    BY <1>1, <1>2
  <1>4. CASE prog.empty = "close"
    <2>1. conn' = [conn EXCEPT ![c] = "closed"] /\ batch' = Tail(batch) /\ status' = status
      BY <1>4 DEF ReadNothing, CloseIt, Close
    <2> QED
      BY <1>1, <1>2, <2>1, EventEnds
  <1>5. CASE prog.empty = "exit"
    <2>1. status' = "exit" /\ conn' = conn /\ batch' = batch
      BY <1>5 DEF ReadNothing
    <2>2. prog = NoUseRdhup
      BY <1>2, <1>3, <1>5, ProgramFacts
    <2> QED
      BY <1>1, <1>2, <1>3, <2>1, <2>2, EventEnds
  <1>6. CASE prog.empty # "close" /\ prog.empty # "exit"
    <2>1. conn' = conn /\ status' = status /\ batch' = IF prog.empty = "endBatch" THEN <<>> ELSE Tail(batch)
      BY <1>3, <1>6 DEF ReadNothing
    <2> QED
      BY <1>1, <1>2, <2>1, EventEnds
  <1> QED
    BY <1>4, <1>5, <1>6

-----------------------------------------------------------------------------
(* What Unpadded keeps of a buffer whose padding is behind its bytes: the  *)
(* function its recursion defines is the one that grows by a byte up to    *)
(* the padding.                                                            *)
Grown(c, b, m) == [x \in 1 .. m |-> <<c, b + x>>]
LEMMA GrowsByOne ==
  ASSUME NEW c \in Peers, NEW b \in Nat, NEW m \in Nat, m # 0
  PROVE  Append(Grown(c, b, m - 1), <<c, b + m>>) = Grown(c, b, m)
  <1> DEFINE s == Grown(c, b, m - 1)
             t == Grown(c, b, m)
             u == <<c, b + m>>
  <1>1. m - 1 \in Nat /\ u \in Peers \X Nat
    OBVIOUS
  <1>2. s \in [1 .. m - 1 -> Peers \X Nat] /\ t \in [1 .. m -> Peers \X Nat]
    BY DEF Grown
  <1>3. /\ \A x \in 1 .. m - 1 : t[x] = s[x]
        /\ t[m] = u
    BY DEF Grown
  <1> HIDE DEF s, t, u
  <1>4. s \in Seq(Peers \X Nat) /\ Len(s) = m - 1 /\ t \in Seq(Peers \X Nat) /\ Len(t) = m
    BY <1>1, <1>2, TableIsSeq
  <1>5. Append(s, u) \in Seq(Peers \X Nat) /\ Len(Append(s, u)) = m
        /\ \A x \in 1 .. m - 1 : Append(s, u)[x] = s[x] /\ Append(s, u)[m] = u
    BY <1>1, <1>4, AppendProperties
  <1>6. Append(s, u)[m] = u
    BY <1>1, <1>4, AppendProperties
  <1>7. \A x \in 1 .. Len(t) : Append(s, u)[x] = t[x]
    <2>1. \A x \in 1 .. m : x = m \/ x \in 1 .. m - 1
      OBVIOUS
    <2> QED
      BY <1>3, <1>4, <1>5, <1>6, <2>1
  <1>8. Append(s, u) = t
    BY <1>4, <1>5, <1>7, SeqEqual
  <1> QED
    BY <1>8 DEF s, t, u

LEMMA Unpads ==
  ASSUME NEW c \in Peers, NEW b \in Nat, NEW n \in Nat, NEW m \in Nat,
         \A k \in 1 .. n : buf[k] = IF k <= m THEN <<c, b + k>> ELSE <<>>
  PROVE  Unpadded(n) = Grown(c, b, IF n <= m THEN n ELSE m)
  <1> DEFINE Rec(f) == f = [k \in 0 .. n |-> IF k = 0 THEN <<>>
                                             ELSE IF buf[k] = <<>> THEN f[k - 1] ELSE Append(f[k - 1], buf[k])]
             g == [k \in 0 .. n |-> Grown(c, b, IF k <= m THEN k ELSE m)]
             F == CHOOSE f : Rec(f)
  <1>1. \A k \in 1 .. n : k - 1 \in 0 .. n /\ k \in 0 .. n /\ k # 0 /\ k \in Nat /\ m \in Nat
    OBVIOUS
  <1>2. g[0] = <<>>
    <2>1. Grown(c, b, 0) = <<>>
      BY DEF Grown
    <2> QED
      BY <2>1
  <1>3. ASSUME NEW k \in 1 .. n PROVE g[k] = IF buf[k] = <<>> THEN g[k - 1] ELSE Append(g[k - 1], buf[k])
    <2>1. CASE k <= m
      <3>1. buf[k] = <<c, b + k>> /\ buf[k] # <<>>
        <4>1. buf[k] = <<c, b + k>>
          BY <2>1
        <4>2. Len(<<c, b + k>>) = 2 /\ Len(<<>>) = 0
          OBVIOUS
        <4> QED
          BY <4>1, <4>2
      <3>2. g[k] = Grown(c, b, k) /\ g[k - 1] = Grown(c, b, k - 1)
        BY <1>1, <2>1
      <3> QED
        BY <1>1, <3>1, <3>2, GrowsByOne
    <2>2. CASE ~(k <= m)
      <3>1. buf[k] = <<>>
        BY <2>2
      <3>2. g[k] = Grown(c, b, m) /\ g[k - 1] = Grown(c, b, m)
        BY <1>1, <2>2
      <3> QED
        BY <3>1, <3>2
    <2> QED
      BY <2>1, <2>2
  <1>4. \A k \in 0 .. n : k = 0 \/ k \in 1 .. n
    OBVIOUS
  <1>5. Rec(g)
    <2>1. g = [k \in 0 .. n |-> g[k]]
      OBVIOUS
    <2> HIDE DEF g
    <2>2. \A k \in 0 .. n : g[k] = IF k = 0 THEN <<>> ELSE IF buf[k] = <<>> THEN g[k - 1] ELSE Append(g[k - 1], buf[k])
      BY <1>2, <1>3, <1>4
    <2> QED
      BY <2>1, <2>2
  <1>6. g[n] = Grown(c, b, IF n <= m THEN n ELSE m)
    OBVIOUS
  <1> HIDE DEF g
  <1>7. Rec(F)
    <2>1. \E f : Rec(f)
      BY <1>5
    <2> HIDE DEF Rec
    <2> QED
      BY <2>1
  <1>8. Unpadded(n) = F[n]
    BY DEF Unpadded
  <1> HIDE DEF F
  <1>9. F[n] = g[n]
    <2> DEFINE S == {x \in 0 .. n : F[x] # g[x]}
    <2> SUFFICES ASSUME S # {} PROVE FALSE
      OBVIOUS
    <2>1. S \in SUBSET Nat
      OBVIOUS
    <2>2. PICK x \in S : \A y \in S : x <= y
      <3> HIDE DEF S
      <3> QED
        BY <2>1, Least
    <2>3. \A k \in 0 .. n : F[k] = IF k = 0 THEN <<>> ELSE IF buf[k] = <<>> THEN F[k - 1] ELSE Append(F[k - 1], buf[k])
      BY <1>7
    <2>4. \A k \in 0 .. n : g[k] = IF k = 0 THEN <<>> ELSE IF buf[k] = <<>> THEN g[k - 1] ELSE Append(g[k - 1], buf[k])
      BY <1>5
    <2>5. x \in 0 .. n /\ x # 0
      BY <2>3, <2>4
    <2>6. x - 1 \in 0 .. n /\ x - 1 \notin S
      BY <2>2, <2>5
    <2>7. F[x - 1] = g[x - 1]
      BY <2>6
    <2> QED
      BY <2>3, <2>4, <2>5, <2>7
  <1> QED
    BY <1>6, <1>8, <1>9

LEMMA BytesKeeps == ASSUME EsInv, NEW c \in Peers, ReadBytes(c) PROVE EsInv'
  <1> DEFINE n == IF Unread(c) < BufSize THEN Unread(c) ELSE BufSize
  <1>1. /\ Reads(c) /\ Unread(c) > 0 /\ got' = [got EXCEPT ![c] = @ + n]
        /\ UNCHANGED <<prog, cut, conn, sent, fin, rst, backlog, out, status>>
    BY DEF ReadBytes, peerVars, runVars
  <1>2. /\ Handling(c) /\ toWrite = 0 /\ status = "up" /\ prog \in Programs /\ (prog.drain => ~prog.rdhup /\ prog.empty # "block")
    BY <1>1, ReadFacts
  <1>3. /\ batch # <<>> /\ Current = c /\ Tail(batch) \in Seq([fd : Sockets, rdhup : BOOLEAN]) /\ batch[1].fd = c
    BY <1>2, HeadFacts
  <1>4. n \in 1 .. BufSize /\ BufSize \in Nat \ {0} /\ n \in Nat
    BY <1>1, EventServerAssumption DEF Unread, EsInv, EsType
  <1> HIDE DEF n
  <1>5. got[c] \in Nat /\ got' \in [Peers -> Nat] /\ got'[c] = got[c] + n /\ \A s \in Peers : s # c => got'[s] = got[s]
    BY <1>1, <1>4 DEF EsInv, EsType
  <1>6. EsKeepsServing'
    BY <1>1, <1>2 DEF EsKeepsServing
  <1>7. CASE prog.reply = "none"
    <2>1. batch' = (IF prog.drain THEN batch ELSE Tail(batch)) /\ toWrite' = toWrite
      BY <1>7 DEF ReadBytes, GoOn
    <2>2. EsType'
      BY <1>1, <1>3, <1>5, <2>1 DEF EsInv, EsType
    <2>3. EchoOk'
      BY <1>1, <1>2, <1>7, <2>1, EventServerAssumption DEF EsInv, EchoOk, Echo
    <2>4. batch' = batch => Ready(batch[1])' \/ batch' = Tail(batch)
      <3>1. c # Listener
        BY EventServerAssumption
      <3>2. CASE prog.drain
        BY <1>1, <1>2, <1>3, <3>1, <3>2 DEF Ready
      <3>3. CASE ~prog.drain
        BY <2>1, <3>3
      <3> QED
        BY <3>2, <3>3
    <2>5. batch' = batch \/ batch' = Tail(batch)
      BY <2>1
    <2>6. BatchReady'
      BY <1>1, <1>3, <1>5, <2>4, <2>5, OthersReady
    <2> QED
      BY <1>6, <2>2, <2>3, <2>6 DEF EsInv
  <1>8. CASE prog.reply # "none"
    <2>1. buf' = Filled(c, n) /\ batch' = batch /\ toWrite' = IF prog.reply = "buffer" THEN BufSize ELSE n
      BY <1>8 DEF ReadBytes, n
    <2>2. toWrite' \in n .. BufSize /\ toWrite' > 0 /\ toWrite' \in 0 .. BufSize /\ toWrite' \in Nat
      BY <1>4, <2>1
    <2>3. EsType'
      BY <1>1, <1>5, <2>1, <2>2 DEF EsInv, EsType
    <2>4. BatchReady'
      BY <1>1, <1>3, <1>5, <2>1, <2>2, OthersReady
    <2>5. ASSUME ~rst[c] PROVE SentUpTo(c, got[c])
      BY <1>2, <1>8, <2>5 DEF EsInv, EchoOk, Echo, Pending
    <2>6. ASSUME ~rst[c] PROVE Echo(c)'
      <3>1. Pending(c)' /\ n <= got'[c] /\ got'[c] - n = got[c]
        BY <1>1, <1>3, <1>4, <1>5, <2>1, <2>2 DEF Pending
      <3>2. ASSUME NEW k \in 1 .. toWrite'
            PROVE  buf'[k] = IF k <= n THEN <<c, got[c] + k>> ELSE <<>>
        <4>1. k \in 1 .. BufSize
          BY <1>4, <2>2, <3>2
        <4>2. buf'[k] = IF k <= n THEN <<c, got[c] + k>> ELSE IF prog.bzero THEN <<>> ELSE buf[k]
          BY <2>1, <4>1 DEF Filled
        <4>3. CASE k <= n
          BY <4>2, <4>3
        <4>4. CASE ~(k <= n)
          <5>1. prog.reply = "buffer"
            BY <1>4, <2>1, <4>4, <3>2
          <5>2. prog.bzero
            BY <1>2, <5>1, ProgramFacts
          <5> QED
            BY <4>2, <4>4, <5>2
        <4> QED
          BY <4>3, <4>4
      <3>3. Below(out'[c], got[c]) /\ (c \notin cut' => Len(out'[c]) = got[c])
        BY <1>1, <2>5, <2>6 DEF SentUpTo
      <3>4. n \in 1 .. toWrite'
        BY <1>4, <2>2
      <3>5. PICK m \in 1 .. toWrite' : m = n
        BY <3>4
      <3>6. InBuffer(c, m)'
        BY <3>1, <3>2, <3>3, <3>5 DEF InBuffer, SentUpTo
      <3> QED
        BY <3>1, <3>6 DEF Echo
    <2>7. ASSUME NEW d \in Peers, d # c PROVE Echo(d)'
      <3>1. ~Pending(d) /\ ~Pending(d)'
        BY <1>2, <1>3, <2>1, <2>7 DEF Pending
      <3>2. Echo(d)
        BY DEF EsInv, EchoOk
      <3> QED
        BY <1>1, <1>5, <2>7, <3>1, <3>2 DEF Echo, SentUpTo
    <2>8. rst[c] => Echo(c)'
      BY <1>1 DEF Echo
    <2>9. EchoOk'
      BY <1>1, <1>3, <1>8, <2>1, <2>6, <2>7, <2>8 DEF EsInv, EchoOk
    <2> QED
      BY <1>6, <2>3, <2>4, <2>9 DEF EsInv
  <1> QED
    BY <1>7, <1>8

(* The answer, m bytes after the first b, goes behind what the peer was    *)
(* sent before, which has none beyond these b.                             *)
LEMMA GrownBehind ==
  ASSUME NEW c \in Peers, NEW s \in Seq(Peers \X Nat), NEW b \in Nat, NEW m \in Nat, Ordered(c, s), Below(s, b)
  PROVE  /\ s \o Grown(c, b, m) \in Seq(Peers \X Nat) /\ Len(s \o Grown(c, b, m)) = Len(s) + m
         /\ Ordered(c, s \o Grown(c, b, m)) /\ Below(s \o Grown(c, b, m), b + m)
         /\ Len(s) = b /\ Whole(c, s) => Whole(c, s \o Grown(c, b, m))
  <1> DEFINE t == Grown(c, b, m)
             r == s \o t
  <1>1. Len(s) \in Nat /\ DOMAIN s = 1 .. Len(s)
    OBVIOUS
  <1>2. t \in [1 .. m -> Peers \X Nat] /\ \A x \in 1 .. m : t[x] = <<c, b + x>>
    BY <1>1 DEF Grown
  <1> HIDE DEF t
  <1>3. t \in Seq(Peers \X Nat) /\ Len(t) = m
    BY <1>2, TableIsSeq
  <1>4. /\ r \in Seq(Peers \X Nat) /\ Len(r) = Len(s) + m /\ DOMAIN r = 1 .. Len(s) + m
        /\ \A k \in 1 .. Len(s) : r[k] = s[k]
        /\ \A k \in 1 .. m : r[Len(s) + k] = t[k]
    <2> DEFINE B == Peers \X Nat
    <2>1. s \in Seq(B) /\ t \in Seq(B)
      BY <1>3
    <2> HIDE DEF B
    <2>2. /\ s \o t \in Seq(B) /\ Len(s \o t) = Len(s) + Len(t) /\ DOMAIN (s \o t) = 1 .. Len(s) + Len(t)
          /\ \A k \in 1 .. Len(s) : (s \o t)[k] = s[k]
          /\ \A k \in 1 .. Len(t) : (s \o t)[Len(s) + k] = t[k]
      <3>1. s \o t \in Seq(B) /\ Len(s \o t) = Len(s) + Len(t)
        BY <2>1, ConcatProperties
      <3>2. DOMAIN (s \o t) = 1 .. Len(s) + Len(t)
        BY <3>1
      <3>3. \A k \in 1 .. Len(s) : (s \o t)[k] = s[k]
        BY <2>1
      <3>4. \A k \in 1 .. Len(t) : (s \o t)[Len(s) + k] = t[k]
        BY <2>1
      <3> QED
        BY <3>1, <3>2, <3>3, <3>4
    <2> QED
      BY <1>3, <2>2 DEF B
  <1> HIDE DEF r
  <1>5. ASSUME NEW k \in DOMAIN r
        PROVE  \/ k \in 1 .. Len(s) /\ k \in DOMAIN s /\ r[k] = s[k] /\ s[k][2] <= b /\ s[k][1] = c /\ s[k][2] \in Nat
               \/ k - Len(s) \in 1 .. m /\ r[k] = <<c, b + (k - Len(s))>>
    <2>1. CASE k <= Len(s)
      <3>1. k \in 1 .. Len(s) /\ k \in DOMAIN s /\ r[k] = s[k]
        BY <1>1, <1>4, <2>1
      <3>2. s[k] \in Peers \X Nat
        BY <3>1, ElementOfSeq
      <3>3. s[k][2] \in Nat
        BY <3>2
      <3> QED
        BY <3>1, <3>3 DEF Ordered, Below
    <2>2. CASE ~(k <= Len(s))
      <3>1. k - Len(s) \in 1 .. m /\ Len(s) + (k - Len(s)) = k
        BY <1>1, <1>4, <2>2
      <3>2. r[Len(s) + (k - Len(s))] = t[k - Len(s)]
        BY <1>4, <3>1
      <3>3. t[k - Len(s)] = <<c, b + (k - Len(s))>>
        BY <1>2, <3>1
      <3> QED
        BY <3>1, <3>2, <3>3
    <2> QED
      BY <2>1, <2>2
  <1>6. Below(r, b + m)
    <2>1. ASSUME NEW k \in DOMAIN r PROVE r[k][2] <= b + m
      BY <1>1, <1>5
    <2> QED
      BY <2>1 DEF Below
  <1>7. Ordered(c, r)
    <2>1. ASSUME NEW k \in DOMAIN r PROVE r[k][1] = c
      BY <1>5
    <2>2. ASSUME NEW k \in DOMAIN r, NEW j \in 1 .. k - 1 PROVE r[j][2] < r[k][2]
      <3>1. j \in DOMAIN r /\ k \in Int /\ j \in Int /\ j < k
        BY <1>1, <1>4
      <3>2. CASE k \in 1 .. Len(s) /\ k \in DOMAIN s /\ r[k] = s[k]
        <4>1. j \in 1 .. Len(s) /\ r[j] = s[j]
          <5>1. j \in 1 .. k - 1 /\ k \in 1 .. Len(s) /\ Len(s) \in Nat
            BY <1>1, <3>2
          <5>2. j \in 1 .. Len(s)
            BY <5>1
          <5>3. \A i \in 1 .. Len(s) : r[i] = s[i]
            BY <1>4
          <5> QED
            BY <5>2, <5>3
        <4>2. s[j][2] < s[k][2]
          BY <3>2 DEF Ordered
        <4> QED
          BY <3>2, <4>1, <4>2
      <3>3. CASE k - Len(s) \in 1 .. m /\ r[k] = <<c, b + (k - Len(s))>>
        <4>1. r[k][2] = b + (k - Len(s))
          BY <3>3
        <4>2. \/ r[j][2] <= b /\ r[j][2] \in Nat
              \/ j - Len(s) \in 1 .. m /\ r[j][2] = b + (j - Len(s))
          BY <1>5, <3>1
        <4> QED
          BY <1>1, <3>1, <3>3, <4>1, <4>2
      <3> QED
        BY <1>5, <3>2, <3>3
    <2> QED
      BY <2>1, <2>2 DEF Ordered
  <1>8. ASSUME Len(s) = b, Whole(c, s) PROVE Whole(c, r)
    <2>1. ASSUME NEW k \in DOMAIN r PROVE r[k] = <<c, k>>
      <3>1. CASE k \in DOMAIN s /\ r[k] = s[k]
        BY <1>8, <3>1 DEF Whole
      <3>2. CASE k - Len(s) \in 1 .. m /\ r[k] = <<c, b + (k - Len(s))>>
        <4>1. b + (k - Len(s)) = k
          BY <1>1, <1>4, <1>8
        <4> QED
          BY <3>2, <4>1
      <3> QED
        BY <1>5, <3>1, <3>2
    <2> QED
      BY <2>1 DEF Whole
  <1> QED
    BY <1>4, <1>6, <1>7, <1>8 DEF r, t

LEMMA WritesKeep == ASSUME EsInv, NEW c \in Peers, WriteBytes(c) PROVE EsInv'
  <1>1. /\ Handling(c) /\ toWrite > 0 /\ toWrite' = 0 /\ batch' = (IF prog.drain THEN batch ELSE Tail(batch))
        /\ UNCHANGED <<prog, conn, sent, fin, rst, backlog, got, buf>>
    BY DEF WriteBytes, GoOn, peerVars
  <1>2. /\ batch # <<>> /\ Current = c /\ Tail(batch) \in Seq([fd : Sockets, rdhup : BOOLEAN]) /\ batch[1].fd = c
        /\ status = "up" /\ toWrite \in 0 .. BufSize /\ toWrite \in Nat
    <2>1. /\ batch # <<>> /\ Current = c /\ Tail(batch) \in Seq([fd : Sockets, rdhup : BOOLEAN]) /\ batch[1].fd = c
          /\ status = "up" /\ toWrite \in 0 .. BufSize
      BY <1>1, HeadFacts
    <2>2. toWrite \in Nat
      BY <2>1, EventServerAssumption
    <2> QED
      BY <2>1, <2>2
  <1>3. prog \in Programs /\ prog.reply # "none" /\ out \in [Peers -> Seq(Peers \X Nat)] /\ got[c] \in Nat
    BY <1>1 DEF EsInv, EchoOk, EsType
  <1>4. ~prog.rdhup /\ (prog.drain => prog.empty # "block")
    BY <1>3, ProgramFacts
  <1>5. BatchReady'
    <2>1. CASE ~prog.drain
      BY <1>1, <1>2, <2>1, OthersReady
    <2>2. CASE prog.drain
      <3>1. c # Listener
        BY EventServerAssumption
      <3>2. Ready(batch[1])'
        BY <1>1, <1>2, <1>4, <2>2, <3>1 DEF Ready
      <3> QED
        BY <1>1, <1>2, <2>2, <3>2, OthersReady
    <2> QED
      BY <2>1, <2>2
  <1>6. batch' \in Seq([fd : Sockets, rdhup : BOOLEAN]) /\ toWrite' \in 0 .. BufSize
    BY <1>1, <1>2, EventServerAssumption DEF EsInv, EsType
  <1>7. CASE rst[c]
    <2>1. out' = out /\ cut' = cut /\ status' \in {"up", "sigpipe"}
      BY <1>2, <1>7 DEF WriteBytes
    <2>2. EsType' /\ EsKeepsServing'
      <3>1. EsType'
        BY <1>1, <1>6, <2>1 DEF EsInv, EsType
      <3>2. prog' = prog /\ rst'[c]
        BY <1>1, <1>7
      <3> QED
        BY <1>3, <2>1, <3>1, <3>2 DEF EsKeepsServing
    <2>3. ASSUME NEW d \in Peers PROVE Echo(d)'
      <3>1. Echo(d)
        BY DEF EsInv, EchoOk
      <3>2. d # c => ~Pending(d)
        BY <1>2 DEF Pending
      <3>3. ~Pending(d)'
        BY <1>1 DEF Pending
      <3> QED
        BY <1>1, <1>7, <2>1, <3>1, <3>2, <3>3 DEF Echo, SentUpTo
    <2>4. EchoOk'
      BY <1>1, <2>1, <2>3 DEF EsInv, EchoOk
    <2> QED
      BY <1>5, <2>2, <2>4 DEF EsInv
  <1>8. CASE ~rst[c]
    <2>1. PICK n \in 0 .. toWrite :
             /\ out' = [out EXCEPT ![c] = @ \o Unpadded(n)]
             /\ cut' = IF Unpadded(n) = Unpadded(toWrite) THEN cut ELSE cut \cup {c}
      BY <1>8 DEF WriteBytes
    <2>2. PICK m \in 1 .. toWrite : InBuffer(c, m)
      <3>1. Pending(c)
        BY <1>1, <1>2 DEF Pending
      <3> QED
        BY <1>3, <1>8, <3>1 DEF EsInv, EchoOk, Echo
    <2> DEFINE s == out[c]
               b == got[c] - m
    <2>3. /\ m \in Nat /\ n \in Nat /\ b \in Nat /\ b + m = got[c] /\ SentUpTo(c, b)
          /\ \A k \in 1 .. toWrite : buf[k] = IF k <= m THEN <<c, b + k>> ELSE <<>>
      BY <1>2, <1>3, <2>2 DEF InBuffer
    <2>4. s \in Seq(Peers \X Nat) /\ Len(s) \in Nat /\ Ordered(c, s) /\ (c \notin cut => Whole(c, s))
      BY <1>3 DEF EsInv, EchoOk
    <2>5. Below(s, b) /\ (c \notin cut => Len(s) = b)
      BY <2>3 DEF SentUpTo
    <2> HIDE DEF s, b
    <2>6. Unpadded(toWrite) = Grown(c, b, m)
      <3>1. Unpadded(toWrite) = Grown(c, b, IF toWrite <= m THEN toWrite ELSE m)
        BY <1>2, <2>3, Unpads
      <3>2. (IF toWrite <= m THEN toWrite ELSE m) = m
        BY <1>2, <2>2
      <3> QED
        BY <3>1, <3>2
    <2>7. PICK i \in 0 .. m : Unpadded(n) = Grown(c, b, i) /\ (c \notin cut' => i = m)
      <3>1. CASE Unpadded(n) = Unpadded(toWrite)
        BY <2>3, <2>6, <3>1
      <3>2. CASE Unpadded(n) # Unpadded(toWrite)
        <4>1. c \in cut'
          BY <2>1, <3>2
        <4>2. \A k \in 1 .. n : buf[k] = IF k <= m THEN <<c, b + k>> ELSE <<>>
          BY <1>2, <2>3
        <4>3. Unpadded(n) = Grown(c, b, IF n <= m THEN n ELSE m)
          BY <2>3, <4>2, Unpads
        <4>4. (IF n <= m THEN n ELSE m) \in 0 .. m
          BY <2>3
        <4> QED
          BY <4>1, <4>3, <4>4
      <3> QED
        BY <3>1, <3>2
    <2> DEFINE r == s \o Grown(c, b, i)
    <2>8. i \in Nat /\ i <= m
      BY <2>3
    <2>9. /\ r \in Seq(Peers \X Nat) /\ Len(r) = Len(s) + i /\ Ordered(c, r) /\ Below(r, b + i)
          /\ Len(s) = b /\ Whole(c, s) => Whole(c, r)
      BY <2>3, <2>4, <2>5, <2>8, GrownBehind
    <2>10. out' = [out EXCEPT ![c] = r]
      BY <2>1, <2>7 DEF s
    <2> HIDE DEF r
    <2>11. /\ out' \in [Peers -> Seq(Peers \X Nat)] /\ out'[c] = r /\ \A d \in Peers : d # c => out'[d] = out[d]
           /\ cut \subseteq cut' /\ \A d \in Peers : d # c => (d \in cut' <=> d \in cut)
      BY <1>3, <2>1, <2>9, <2>10
    <2>12. EsType' /\ EsKeepsServing'
      <3>1. status' = "up"
        BY <1>2, <1>8 DEF WriteBytes
      <3> QED
        BY <1>1, <1>6, <2>11, <3>1 DEF EsInv, EsType, EsKeepsServing
    <2>13. SentUpTo(c, got[c])'
      <3>1. Below(r, got[c])
        <4>1. \A k \in DOMAIN r : r[k] \in Peers \X Nat
          BY <2>9, ElementOfSeq
        <4>2. \A k \in DOMAIN r : r[k][2] \in Nat /\ r[k][2] <= b + i
          BY <2>9, <4>1 DEF Below
        <4> QED
          BY <2>3, <2>8, <4>2 DEF Below
      <3>2. c \notin cut' => Len(r) = got[c]
        BY <2>3, <2>5, <2>7, <2>9, <2>11
      <3> QED
        BY <1>1, <2>11, <3>1, <3>2 DEF SentUpTo
    <2>14. ASSUME NEW d \in Peers PROVE Echo(d)'
      <3>1. Echo(d)
        BY DEF EsInv, EchoOk
      <3>2. ~Pending(d)'
        BY <1>1 DEF Pending
      <3>3. CASE d # c
        <4>1. ~Pending(d)
          BY <1>2, <3>3 DEF Pending
        <4> QED
          BY <1>1, <2>11, <3>1, <3>2, <3>3, <4>1 DEF Echo, SentUpTo
      <3>4. CASE d = c
        BY <2>13, <3>2, <3>4 DEF Echo
      <3> QED
        BY <3>3, <3>4
    <2>15. ASSUME NEW d \in Peers PROVE Ordered(d, out'[d]) /\ (d \notin cut' => Whole(d, out'[d]))
      <3>1. CASE d = c
        BY <2>4, <2>5, <2>9, <2>11, <3>1
      <3>2. CASE d # c
        BY <2>11, <3>2 DEF EsInv, EchoOk
      <3> QED
        BY <3>1, <3>2
    <2>16. EchoOk'
      BY <1>1, <2>14, <2>15 DEF EchoOk
    <2> QED
      BY <1>5, <2>12, <2>16 DEF EsInv
  <1> QED
    BY <1>7, <1>8

LEMMA StallsKeep == ASSUME EsInv, NEW c \in Peers, WriteStalls(c) PROVE EsInv'
  <1>1. /\ toWrite > 0 /\ prog.empty = "block" /\ status' = "stalled"
        /\ UNCHANGED <<prog, cut, conn, sent, fin, rst, backlog, got, batch, buf, toWrite, out>>
    BY DEF WriteStalls, runVars, peerVars
  <1>2. prog \in Programs /\ prog.reply = "read"
    BY <1>1, ProgramFacts DEF EsInv, EsType
  <1>3. prog = EchoEpoll
    BY <1>1, <1>2 DEF Programs, Day03, Day04, Day05, Day06, EchoEpoll, MtLt, MtEt, MultiPort, UseRdhup, NoUseRdhup
  <1>4. EsType' /\ EsKeepsServing'
    BY <1>1, <1>3 DEF EsInv, EsType, EsKeepsServing
  <1>5. BatchReady'
    BY <1>1 DEF EsInv, BatchReady, Ready
  <1>6. EchoOk'
    BY <1>1 DEF EsInv, EchoOk, Echo, Pending, InBuffer, SentUpTo
  <1> QED
    BY <1>4, <1>5, <1>6 DEF EsInv

-----------------------------------------------------------------------------
LEMMA EsStep == EsInv /\ [EsNext]_esVars => EsInv'
  <1> SUFFICES ASSUME EsInv, [EsNext]_esVars PROVE EsInv'
    OBVIOUS
  <1>1. CASE UNCHANGED esVars
    <2>1. UNCHANGED <<loopVars, conn, sent, fin, rst, backlog>>
      BY <1>1 DEF esVars, peerVars, loopVars
    <2>2. /\ conn \in [Peers -> {"idle", "queued", "open", "closed"}] /\ sent \in [Peers -> Nat] /\ backlog \in Seq(Peers)
          /\ fin \in [Peers -> BOOLEAN] /\ rst \in [Peers -> BOOLEAN] /\ \A d \in Peers : sent[d] <= sent[d]
      BY DEF EsInv, EsType
    <2> QED
      BY <2>1, <2>2, PeersAdd
  <1>2. CASE PeerStep
    BY <1>2, PeersKeep
  <1>3. CASE EsWait \/ AcceptConn \/ AcceptFails \/ AnswerDatagram
    BY <1>3, WaitKeeps, AcceptsKeeps, AcceptFailsKeeps, DatagramKeeps
  <1>4. ASSUME NEW c \in Peers, CloseRdhup(c) \/ ReadBytes(c) \/ ReadFails(c) PROVE EsInv'
    BY <1>4, RdhupKeeps, BytesKeeps, FailsKeeps
  <1>5. ASSUME NEW c \in Peers, ReadEof(c) \/ ReadNothing(c) \/ WriteBytes(c) \/ WriteStalls(c) PROVE EsInv'
    BY <1>5, EofKeeps, NothingKeeps, WritesKeep, StallsKeep
  <1> QED
    BY <1>1, <1>2, <1>3, <1>4, <1>5 DEF EsNext, EsServer

(* The ten epoll servers, for any number of peers, any buffer and any      *)
(* limit of descriptors: a peer is sent its own bytes in their order,      *)
(* nothing of the padding and, unless a write found no room for it, all    *)
(* that was before.  Whatever the peers do between the system calls,       *)
(* server-30 exits only for want of descriptors, none waits in accept or   *)
(* recv, echo_epoll_server.c alone may wait in a write, and SIGPIPE takes  *)
(* only who writes to a peer that has reset its connection.                *)
THEOREM EsKept == EsSpec => []EsSound
  <1>1. EsInit => EsInv
    BY EsStart
  <1>2. EsInv /\ [EsNext]_esVars => EsInv'
    BY EsStep
  <1>3. EsInv => EsSound
    BY EsInvSound
  <1> QED
    BY <1>1, <1>2, <1>3, PTL DEF EsSpec
====
