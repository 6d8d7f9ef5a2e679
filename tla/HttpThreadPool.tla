--------------------------- MODULE HttpThreadPool ---------------------------
(***************************************************************************)
(* webserver/threadpool: threadpool<http_conn>, whose workers bracket every *)
(* process() with a connectionRAII of ConnPool.  The event loop that calls  *)
(* append is not part of the repository: it is one thread, and it appends a *)
(* connection when epoll reports it, that is when its EPOLLONESHOT          *)
(* registration is armed.  The list is locked for one action at a time; the *)
(* semaphore operations lie outside the lock and are actions of their own.  *)
(***************************************************************************)
EXTENDS Integers, Sequences, FiniteSets, SequencesExt

CONSTANTS Workers, Requests, Conns, NULL, m_max_requests

ASSUME PoolAssumption == /\ IsFiniteSet(Workers) /\ IsFiniteSet(Requests) /\ IsFiniteSet(Conns)
                         /\ NULL \notin Requests \cup Conns
                         /\ m_max_requests \in Nat \ {0}

VARIABLES m_actor_model,            \* 1 is Reactor, 0 Proactor; set by the constructor
          m_workqueue, m_queuestat,
          wat, request,              \* per worker: where run() is, and its local `request`
          loop,                     \* the event loop: "epoll", or "post" inside append
          armed,                    \* the connections epoll may report
          m_state, timer_flag, improv, mysql,   \* the fields of a http_conn
          asked,                    \* the event each connection was appended for
          connList, m_FreeConn, m_CurConn, reserve, pc, conRAII, destroyed, closed

Pool == INSTANCE ConnPool WITH Threads <- Workers

workqueueVars == <<m_actor_model, m_workqueue, m_queuestat>>
workerVars == <<wat, request>>
connVars == <<m_state, timer_flag, improv, mysql, asked>>
poolVars == <<connList, m_FreeConn, m_CurConn, reserve, pc, conRAII, destroyed, closed>>
httpVars == <<workqueueVars, workerVars, loop, armed, connVars, poolVars>>

HttpInit == /\ m_actor_model \in {0, 1}
        /\ m_workqueue = <<>> /\ m_queuestat = 0
        /\ wat = [w \in Workers |-> "wait"] /\ request = [w \in Workers |-> NULL]
        /\ loop = "epoll" /\ armed = Requests
        /\ m_state = [r \in Requests |-> 0] /\ asked = m_state
        /\ timer_flag = [r \in Requests |-> 0] /\ improv = [r \in Requests |-> 0]
        /\ mysql = [r \in Requests |-> NULL]
        /\ Pool!Init

GotoStep(w, step) == wat' = [wat EXCEPT ![w] = step]

(* A worker has its request to itself from Pop to the end of process() or  *)
(* of write(), or until it has flagged it.                                 *)
Handles(w) == wat[w] \in {"io", "connect", "process", "failed", "flag"}

-----------------------------------------------------------------------------
(* EPOLLONESHOT: once reported, a connection is not reported again until   *)
(* it is armed again.                                                      *)
ReportAgain(r) == r \in armed /\ armed' = armed                  \* mutant
Report(r) == r \in armed /\ armed' = armed \ {r}

(* append (state 0 for reading, 1 for writing) and append_p, up to unlock. *)
(* A refused request is dropped: append returns false.                     *)
Append_(r, state) ==
    /\ IF Len(m_workqueue) >= m_max_requests
       THEN loop' = "epoll" /\ UNCHANGED <<m_workqueue, m_state, asked>>
       ELSE /\ m_state' = IF m_actor_model = 1 THEN [m_state EXCEPT ![r] = state] ELSE m_state
            /\ asked' = [asked EXCEPT ![r] = state]
            /\ m_workqueue' = Append(m_workqueue, r)
            /\ loop' = "post"

Event(r, state) ==
    /\ loop = "epoll"
    /\ Report(r) /\ Append_(r, state)
    /\ improv' = [improv EXCEPT ![r] = 0]
    /\ UNCHANGED <<m_actor_model, m_queuestat, workerVars, timer_flag, mysql, poolVars>>

(* The post that ends append. *)
PostLost ==                                                      \* mutant
    /\ loop = "post" /\ loop' = "epoll"
    /\ UNCHANGED <<workqueueVars, workerVars, armed, connVars, poolVars>>
Post ==
    /\ loop = "post" /\ loop' = "epoll"
    /\ m_queuestat' = m_queuestat + 1
    /\ UNCHANGED <<m_actor_model, m_workqueue, workerVars, armed, connVars, poolVars>>

(* The loop closes a connection that a worker or a full queue gave up on,  *)
(* and the slot serves a new client.                                       *)
Reopen(r) ==
    /\ loop = "epoll" /\ r \notin armed
    /\ \A i \in DOMAIN m_workqueue : m_workqueue[i] # r
    /\ \A w \in Workers : Handles(w) => request[w] # r
    /\ armed' = armed \cup {r}
    /\ timer_flag' = [timer_flag EXCEPT ![r] = 0]
    /\ UNCHANGED <<workqueueVars, workerVars, loop, m_state, improv, mysql, asked, poolVars>>

-----------------------------------------------------------------------------
(* run(): wait for the semaphore, then take the front of the list. *)
Wait(w) ==
    /\ wat[w] = "wait" /\ m_queuestat > 0
    /\ m_queuestat' = m_queuestat - 1
    /\ GotoStep(w, "pop")
    /\ UNCHANGED <<m_actor_model, m_workqueue, request, loop, armed, connVars, poolVars>>

PopShared(w) ==                                                  \* mutant
    /\ wat[w] = "pop"
    /\ m_workqueue # <<>>
    /\ request' = [request EXCEPT ![w] = Head(m_workqueue)]
    /\ GotoStep(w, IF m_actor_model = 1 THEN "io" ELSE "connect")
    /\ UNCHANGED <<workqueueVars, loop, armed, connVars, poolVars>>
Pop(w) ==
    /\ wat[w] = "pop"
    /\ IF m_workqueue = <<>>
       THEN GotoStep(w, "wait") /\ UNCHANGED <<m_workqueue, request>>
       ELSE /\ request' = [request EXCEPT ![w] = Head(m_workqueue)]
            /\ m_workqueue' = Tail(m_workqueue)
            /\ GotoStep(w, IF m_actor_model = 1 THEN "io" ELSE "connect")
    /\ UNCHANGED <<m_actor_model, m_queuestat, loop, armed, connVars, poolVars>>

(* Reactor: the worker does the reading or the writing itself.  read_once  *)
(* may fail.                                                               *)
Read(w) ==
    /\ wat[w] = "io" /\ m_state[request[w]] = 0
    /\ \/ GotoStep(w, "connect") /\ improv' = [improv EXCEPT ![request[w]] = 1]
       \/ GotoStep(w, "failed") /\ UNCHANGED improv
    /\ UNCHANGED <<workqueueVars, request, loop, armed, m_state, timer_flag, mysql, asked, poolVars>>

(* write() arms the connection again when it is done with it, or fails.    *)
(* From then on the loop may append it, and another worker handle it,      *)
(* before this one has stored what came of its own write.                  *)
Write(w) ==
    /\ wat[w] = "io" /\ m_state[request[w]] # 0
    /\ \/ GotoStep(w, "served") /\ armed' = armed \cup {request[w]}
       \/ GotoStep(w, "failed") /\ UNCHANGED armed
    /\ UNCHANGED <<workqueueVars, request, loop, connVars, poolVars>>

(* The stores: improv, and after a failure timer_flag, which has the       *)
(* connection closed.                                                      *)
NoteForgets(w) ==                                                \* mutant
    /\ wat[w] \in {"served", "failed"}
    /\ \/ wat[w] = "served" /\ GotoStep(w, "wait") /\ request' = [request EXCEPT ![w] = NULL]
       \/ wat[w] = "failed" /\ GotoStep(w, "flag") /\ UNCHANGED request
    /\ UNCHANGED <<workqueueVars, loop, armed, connVars, poolVars>>
Note(w) ==
    /\ wat[w] \in {"served", "failed"}
    /\ improv' = [improv EXCEPT ![request[w]] = 1]
    /\ \/ wat[w] = "served" /\ GotoStep(w, "wait") /\ request' = [request EXCEPT ![w] = NULL]
       \/ wat[w] = "failed" /\ GotoStep(w, "flag") /\ UNCHANGED request
    /\ UNCHANGED <<workqueueVars, loop, armed, m_state, timer_flag, mysql, asked, poolVars>>
Flag(w) ==
    /\ wat[w] = "flag"
    /\ timer_flag' = [timer_flag EXCEPT ![request[w]] = 1]
    /\ GotoStep(w, "wait") /\ request' = [request EXCEPT ![w] = NULL]
    /\ UNCHANGED <<workqueueVars, loop, armed, m_state, improv, mysql, asked, poolVars>>

(* The constructor of connectionRAII: GetConnection, stored in the request *)
(* as well as in the object itself.                                        *)
Connect(w) ==
    /\ wat[w] = "connect"
    /\ Pool!GetConnection(w)
    /\ IF pc'[w] = "using"
       THEN /\ mysql' = [mysql EXCEPT ![request[w]] = conRAII'[w]]
            /\ GotoStep(w, "process")
       ELSE UNCHANGED <<mysql, wat>>
    /\ UNCHANGED <<workqueueVars, request, loop, armed, m_state, timer_flag, improv, asked>>

(* process() ends by arming the connection for its next event; from then   *)
(* on the loop may append it again while this worker is still here.        *)
Process(w) ==
    /\ wat[w] = "process"
    /\ armed' = armed \cup {request[w]}
    /\ GotoStep(w, "release") /\ request' = [request EXCEPT ![w] = NULL]
    /\ UNCHANGED <<workqueueVars, loop, connVars, poolVars>>

(* The destructor of connectionRAII. *)
Release(w) ==
    /\ wat[w] = "release"
    /\ Pool!ReleaseConnection(w)
    /\ IF pc'[w] = "idle" THEN GotoStep(w, "wait") ELSE UNCHANGED wat
    /\ UNCHANGED <<workqueueVars, request, loop, armed, connVars>>

Work(w) == Pop(w) \/ Read(w) \/ Write(w) \/ Note(w) \/ Flag(w) \/ Process(w) \/ Release(w)

HttpNext == \/ Post
        \/ \E r \in Requests : Reopen(r) \/ \E state \in {0, m_actor_model} : Event(r, state)
        \/ \E w \in Workers : Wait(w) \/ Connect(w) \/ Work(w)

(* Threads that can run are scheduled; both semaphores are granted to a    *)
(* thread for which they keep becoming positive.                           *)
HttpSpec == /\ HttpInit /\ [][HttpNext]_httpVars
        /\ WF_httpVars(Post)
        /\ \A w \in Workers : WF_httpVars(Work(w)) /\ SF_httpVars(Wait(w)) /\ SF_httpVars(Connect(w))

-----------------------------------------------------------------------------
(* Every variable has its type; the list keeps to m_max_requests.          *)
HttpTypeOK ==
    /\ m_actor_model \in {0, 1}
    /\ m_workqueue \in Seq(Requests) /\ Len(m_workqueue) <= m_max_requests
    /\ m_queuestat \in 0 .. m_max_requests
    /\ wat \in [Workers -> {"wait", "pop", "io", "served", "failed", "flag", "connect", "process", "release"}]
    /\ request \in [Workers -> Requests \cup {NULL}]
    /\ loop \in {"epoll", "post"} /\ armed \subseteq Requests
    /\ \A f \in {m_state, timer_flag, improv, asked} : f \in [Requests -> {0, 1}]
    /\ mysql \in [Requests -> Conns \cup {NULL}]
    /\ Pool!TypeOK

(* The semaphore, the loop between unlock and post, and the workers between *)
(* wait and lock account for the list: a woken worker always finds a request,*)
(* the `empty` test of run() never fires and no request is left asleep.  The *)
(* list never grows beyond m_max_requests.                                  *)
SemaphoreCountsRequests ==
    /\ Len(m_workqueue) =
        m_queuestat + (IF loop = "post" THEN 1 ELSE 0) + Cardinality({w \in Workers : wat[w] = "pop"})
    /\ Len(m_workqueue) <= m_max_requests

(* A connection is handled by one worker at a time and is not queued twice, *)
(* nor while it is handled, and what the worker reads in m_state is the     *)
(* event it was appended for.  Others may still have the store behind their *)
(* write() of an earlier event to make, and read and write no more of it.   *)
(* During process(), the request's mysql is the connection this worker      *)
(* holds and no other worker does, although the next handler of the same    *)
(* request overwrites it before this worker has released.                   *)
OneHandler ==
    /\ \A w, v \in Workers : w # v /\ Handles(w) /\ Handles(v) => request[w] # request[v]
    /\ \A w \in Workers : Handles(w) => \A i \in DOMAIN m_workqueue : m_workqueue[i] # request[w]
    /\ \A i, j \in DOMAIN m_workqueue : i # j => m_workqueue[i] # m_workqueue[j]
    /\ \A w \in Workers : wat[w] = "io" /\ m_actor_model = 1 => m_state[request[w]] = asked[request[w]]
    /\ \A w \in Workers : wat[w] = "process" =>
          /\ mysql[request[w]] = conRAII[w]
          /\ conRAII[w] # NULL => \A v \in Workers \ {w} : conRAII[v] # conRAII[w]

(* Both: no request is lost and none is handled by two. *)
RequestsSound == SemaphoreCountsRequests /\ OneHandler

(* An accepted request is taken up by a worker, which then processes it,    *)
(* has written it or gives it up; and in Reactor mode improv is set, which   *)
(* the loop waits for, although it is set behind the write() that lets the   *)
(* next event of the connection in.                                          *)
AcceptedHandled ==
    /\ \A r \in Requests :
          LET accepted == \E i \in DOMAIN m_workqueue : m_workqueue[i] = r IN
          /\ accepted ~> \E w \in Workers : Handles(w) /\ request[w] = r
          /\ accepted ~> (m_actor_model = 1 => improv[r] = 1)
    /\ \A w \in Workers : Handles(w) ~> wat[w] \in {"process", "served", "flag"}
=============================================================================
