----------------------------- MODULE BoundedFifo -----------------------------
(***************************************************************************)
(* What a bounded, blocking queue promises its callers: a sequence of at   *)
(* most MaxSize items, items leave in the order in which they entered, and *)
(* every item is handed to exactly one taker.  block_queue<T> (module      *)
(* BlockQueue) is shown to implement it; AsyncLog uses it as its queue.    *)
(***************************************************************************)
EXTENDS Naturals, Sequences

CONSTANTS Threads,  \* the threads that call the queue
          Items,    \* the values that may be pushed
          NoItem,   \* what an out-parameter holds before the first pop
          MaxSize   \* the capacity

VARIABLES q,        \* the items in the queue, oldest first
          item      \* item[t]: the item thread t took last

fifoVars == <<q, item>>

FifoInit == /\ q = <<>>
            /\ item = [t \in Threads |-> NoItem]

Put(x) == /\ Len(q) < MaxSize
          /\ q' = Append(q, x)
          /\ UNCHANGED item

Take(t) == /\ q # <<>>
           /\ item' = [item EXCEPT ![t] = Head(q)]
           /\ q' = Tail(q)

Flush == /\ q' = <<>>
         /\ UNCHANGED item

FifoNext == \/ \E x \in Items : Put(x)
            \/ \E t \in Threads : Take(t)
            \/ Flush

FifoSpec == FifoInit /\ [][FifoNext]_fifoVars
=============================================================================
