----------------------------- MODULE BlockQueue -----------------------------
(***************************************************************************)
(* webserver/log/block_queue.h: a ring buffer guarded by one mutex and one *)
(* condition variable.  Every method holds m_mutex from its first to its   *)
(* last access of the fields and releases it only inside m_cond.wait and   *)
(* m_cond.timewait, so a method is one action, and pop is cut where it     *)
(* waits.  waiters is the set of threads asleep in m_cond; a thread whose  *)
(* pc says it waits and which is not in waiters has been woken and is      *)
(* queueing for the mutex again.                                           *)
(***************************************************************************)
EXTENDS Integers, Sequences

CONSTANTS Threads, Items, NoItem, MaxSize

ASSUME MaxSizeAssumption == MaxSize \in Nat \ {0}  \* the constructor exits otherwise
ASSUME NoItemAssumption == NoItem \notin Items

VARIABLES m_array, m_size, m_front, m_back,
          pc,       \* pc[t]: where thread t is in its call, "idle" between calls
          waiters,  \* the threads asleep in m_cond
          item,     \* item[t]: the out-parameter of t's last successful pop
          value     \* value[t]: the out-parameter of t's last front() or back()

ring == <<m_array, m_size, m_front, m_back>>
vars == <<m_array, m_size, m_front, m_back, pc, waiters, item, value>>

Slots == 0 .. MaxSize - 1

(* block_queue(int max_size); new T[max_size] default-constructs the items *)
Init == /\ m_array = [i \in Slots |-> NoItem]
        /\ m_size = 0
        /\ m_front = -1
        /\ m_back = -1
        /\ pc = [t \in Threads |-> "idle"]
        /\ waiters = {}
        /\ item = [t \in Threads |-> NoItem]
        /\ value = [t \in Threads |-> NoItem]

-----------------------------------------------------------------------------
(* The index after i in the ring; i is -1 before the first push or pop. *)
NextSlot(i) == (i + 1) % MaxSize

Full == m_size >= MaxSize

NoBroadcast == UNCHANGED waiters                              \* mutant
Broadcast == waiters' = {}

EnqueueBehind(x) ==                                           \* mutant
    /\ m_array' = [m_array EXCEPT ![IF m_back = -1 THEN 0 ELSE m_back] = x]
    /\ m_back' = NextSlot(m_back)
    /\ m_size' = m_size + 1
    /\ UNCHANGED m_front
Enqueue(x) ==
    /\ m_back' = NextSlot(m_back)
    /\ m_array' = [m_array EXCEPT ![NextSlot(m_back)] = x]
    /\ m_size' = m_size + 1
    /\ UNCHANGED m_front

(* push(item): a full queue is left alone but broadcasts all the same. *)
Push(t, x) ==
    /\ pc[t] = "idle"
    /\ \/ Full /\ UNCHANGED ring
       \/ ~Full /\ Enqueue(x)
    /\ Broadcast
    /\ UNCHANGED <<pc, item, value>>

(* The tail of both pops: take the item after m_front and return true. *)
DequeueStale(t) ==                                            \* mutant
    /\ m_size > 0
    /\ m_front' = NextSlot(m_front)
    /\ item' = [item EXCEPT ![t] = m_array[IF m_front = -1 THEN 0 ELSE m_front]]
    /\ m_size' = m_size - 1
    /\ pc' = [pc EXCEPT ![t] = "idle"]
    /\ UNCHANGED <<m_array, m_back, waiters, value>>
Dequeue(t) ==
    /\ m_size > 0
    /\ m_front' = NextSlot(m_front)
    /\ item' = [item EXCEPT ![t] = m_array[NextSlot(m_front)]]
    /\ m_size' = m_size - 1
    /\ pc' = [pc EXCEPT ![t] = "idle"]
    /\ UNCHANGED <<m_array, m_back, waiters, value>>

Sleep(t, where) ==
    /\ m_size <= 0
    /\ pc' = [pc EXCEPT ![t] = where]
    /\ waiters' = waiters \cup {t}
    /\ UNCHANGED <<ring, item, value>>

(* pop(item): the loop re-tests m_size after every wake-up.  The wait      *)
(* itself only fails on an invalid mutex, which m_mutex never is.          *)
Pop(t) ==
    /\ pc[t] = "idle" \/ (pc[t] = "pop" /\ t \notin waiters)
    /\ Dequeue(t) \/ Sleep(t, "pop")

(* pop(item, ms_timeout) up to its wait. *)
TimedPop(t) ==
    /\ pc[t] = "idle"
    /\ Dequeue(t) \/ Sleep(t, "timed")

(* pop(item, ms_timeout) after a wake-up: one re-test, no second wait. *)
TimedPopResume(t) ==
    /\ pc[t] = "timed" /\ t \notin waiters
    /\ \/ Dequeue(t)
       \/ /\ m_size <= 0
          /\ pc' = [pc EXCEPT ![t] = "idle"]
          /\ UNCHANGED <<ring, waiters, item, value>>

(* The deadline passes: the sleeper stops waiting for a signal ...         *)
Timeout(t) ==
    /\ pc[t] = "timed" /\ t \in waiters
    /\ waiters' = waiters \ {t}
    /\ pc' = [pc EXCEPT ![t] = "timedout"]
    /\ UNCHANGED <<ring, item, value>>

(* ... and, once it has the mutex again, returns false, whatever arrived.  *)
TimedOutReturn(t) ==
    /\ pc[t] = "timedout"
    /\ pc' = [pc EXCEPT ![t] = "idle"]
    /\ UNCHANGED <<ring, waiters, item, value>>

(* pthread_cond_wait and pthread_cond_timedwait may return unsignalled. *)
SpuriousWakeup(t) ==
    /\ t \in waiters
    /\ waiters' = waiters \ {t}
    /\ UNCHANGED <<ring, pc, item, value>>

ClearKeepsFront(t) ==                                         \* mutant
    /\ pc[t] = "idle"
    /\ m_size' = 0
    /\ m_back' = -1
    /\ UNCHANGED <<m_array, m_front, pc, waiters, item, value>>
Clear(t) ==
    /\ pc[t] = "idle"
    /\ m_size' = 0
    /\ m_front' = -1
    /\ m_back' = -1
    /\ UNCHANGED <<m_array, pc, waiters, item, value>>

(* front(value) reads m_array[m_front], the slot before the oldest item;   *)
(* before the first pop that is m_array[-1], outside the array.            *)
GetFront(t) ==
    /\ pc[t] = "idle" /\ m_size # 0
    /\ IF m_front = -1
       THEN \E junk \in Items \cup {NoItem} : value' = [value EXCEPT ![t] = junk]
       ELSE value' = [value EXCEPT ![t] = m_array[m_front]]
    /\ UNCHANGED <<ring, pc, waiters, item>>

GetBack(t) ==
    /\ pc[t] = "idle" /\ m_size # 0
    /\ value' = [value EXCEPT ![t] = m_array[m_back]]
    /\ UNCHANGED <<ring, pc, waiters, item>>

Next == \E t \in Threads :
            \/ \E x \in Items : Push(t, x)
            \/ Pop(t) \/ TimedPop(t) \/ TimedPopResume(t)
            \/ Timeout(t) \/ TimedOutReturn(t) \/ SpuriousWakeup(t)
            \/ Clear(t) \/ GetFront(t) \/ GetBack(t)

Spec == Init /\ [][Next]_vars

-----------------------------------------------------------------------------
(* Every variable has its type. *)
TypeOK ==
    /\ m_array \in [Slots -> Items \cup {NoItem}]
    /\ m_size \in 0 .. MaxSize
    /\ m_front \in -1 .. MaxSize - 1
    /\ m_back \in -1 .. MaxSize - 1
    /\ pc \in [Threads -> {"idle", "pop", "timed", "timedout"}]
    /\ waiters \subseteq Threads
    /\ item \in [Threads -> Items \cup {NoItem}]
    /\ value \in [Threads -> Items \cup {NoItem}]

(* The slot of the i-th oldest item, 1 <= i <= m_size. *)
SlotOf(i) == (m_front + i) % MaxSize

(* The two cursors and the counter agree: m_size slots on from m_front is  *)
(* m_back, through every wrap of push's and pop's modulo, and the cursors  *)
(* are -1 together, so that back() never reads m_array[-1].                *)
CursorsAgree ==
    /\ m_front + m_size \in {m_back, m_back + MaxSize}
    /\ m_back = -1 => m_front = -1 /\ m_size = 0

(* No item is ever handed out that was not pushed: every slot pop can read *)
(* next holds a pushed item, never the array's default-constructed filler. *)
LiveSlotsHoldItems ==
    \A i \in 1 .. m_size : m_array[SlotOf(i)] \in Items

(* No lost wake-up: a thread sleeps in m_cond only while the queue is      *)
(* empty, because push broadcasts before it releases the mutex.            *)
SleepOnlyWhenEmpty == waiters # {} => m_size = 0

(* The queue's contents as the callers see them, oldest first. *)
Contents == [i \in 1 .. m_size |-> m_array[SlotOf(i)]]

Fifo == INSTANCE BoundedFifo WITH q <- Contents

(* The ring buffer implements the bounded FIFO: whatever push, pop, timed  *)
(* pop and clear do to cursors and slots, items leave in the order they    *)
(* were pushed, each to one thread.                                        *)
ImplementsFifo == Fifo!FifoSpec
=============================================================================
