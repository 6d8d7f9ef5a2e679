------------------------------ MODULE TimeHeap ------------------------------
(***************************************************************************)
(* youshuang 11-6: time_heap, a binary min-heap of timers in a growing     *)
(* array.  del_timer only clears the callback; the timer stays in the heap *)
(* until it expires.                                                       *)
(***************************************************************************)
EXTENDS Integers, Sequences, FiniteSets, FiniteSetsExt

CONSTANTS Timers, NULL,
          Cap        \* the capacity the heap is constructed with

VARIABLES heap,        \* [array, cur_size, expire, cb_func]: the array, whose length is
                       \* the capacity, and the timers, cb_func[t] telling whether t
                       \* still has its callback
          heapFired    \* the timers whose cb_func the last operation called

capacity(h) == Cardinality(DOMAIN h.array)
Parent(i) == (i - 1) \div 2

(* percolate_down(hole): the holes it passes through, each filled from the *)
(* earlier of its children, the last one with the timer that was moved.    *)
Child(h, i) ==
    LET c == 2 * i + 1
    IN  IF c < h.cur_size - 1 /\ h.expire[h.array[c + 1]] < h.expire[h.array[c]] THEN c + 1 ELSE c
percolate_down(h, hole) ==
    LET temp == h.array[hole]
        Holes[i \in DOMAIN h.array] ==
            IF 2 * i + 1 <= h.cur_size - 1 /\ h.expire[h.array[Child(h, i)]] < h.expire[temp]
            THEN {i} \cup Holes[Child(h, i)] ELSE {i}
        holes == Holes[hole]
    IN  [h EXCEPT !.array = [i \in DOMAIN @ |->
            IF i \notin holes THEN @[i] ELSE IF i = Max(holes) THEN temp ELSE @[Child(h, i)]]]

(* The two constructors: an empty heap, or one built from an array. *)
Empty(cap) == [array |-> [i \in 0 .. cap - 1 |-> NULL], cur_size |-> 0,
               expire |-> [t \in Timers |-> 0], cb_func |-> [t \in Timers |-> FALSE]]
Heapify(init_array, e) ==
    LET size == Len(init_array)
        raw == [array |-> [i \in 0 .. size - 1 |-> init_array[i + 1]], cur_size |-> size,
                expire |-> e, cb_func |-> [t \in Timers |-> TRUE]]
        Built[i \in 0 .. size] ==
            IF i > (size - 1) \div 2 THEN raw ELSE percolate_down(Built[i + 1], i)
    IN  Built[0]

(* resize doubles the array. *)
resize(h) == [h EXCEPT !.array = [i \in 0 .. 2 * capacity(h) - 1 |->
                                     IF i < h.cur_size THEN h.array[i] ELSE NULL]]

AddInPlace(h, t) ==                                              \* mutant
    LET r == IF h.cur_size >= capacity(h) THEN resize(h) ELSE h
    IN  [r EXCEPT !.array[r.cur_size] = t, !.cur_size = @ + 1]
add_timer(h, t) ==
    LET r == IF h.cur_size >= capacity(h) THEN resize(h) ELSE h
        Holes[i \in DOMAIN r.array] ==
            IF i > 0 /\ r.expire[r.array[Parent(i)]] > r.expire[t]
            THEN {i} \cup Holes[Parent(i)] ELSE {i}
        holes == Holes[r.cur_size]
    IN  [r EXCEPT !.cur_size = @ + 1,
                  !.array = [i \in DOMAIN @ |-> IF i \notin holes THEN @[i]
                                               ELSE IF i = Min(holes) THEN t ELSE @[Parent(i)]]]

(* The last timer takes the place of the first.  The pointers the code     *)
(* leaves behind from cur_size on, array[0] of an empty heap included, are *)
(* never followed; they are NULL here.                                     *)
pop_timer(h) ==
    LET last == h.cur_size - 1
        moved == [h EXCEPT !.array[0] = h.array[last], !.cur_size = last]
        down == IF last = 0 THEN moved ELSE percolate_down(moved, 0)
    IN  [down EXCEPT !.array[last] = NULL, !.expire[h.array[0]] = 0, !.cb_func[h.array[0]] = FALSE]

(* tick pops until the heap is empty or the first timer is not due. *)
tick(h, cur) ==
    LET After[k \in 0 .. h.cur_size] == IF k = 0 THEN h ELSE pop_timer(After[k - 1])
        Stops(k) == After[k].cur_size = 0 \/ h.expire[After[k].array[0]] > cur
    IN  After[Min({k \in 0 .. h.cur_size : Stops(k)})]

Held(h) == {h.array[i] : i \in 0 .. h.cur_size - 1}

(* A heap constructed empty, or from an array of all the timers in some    *)
(* order with some expiry times.                                           *)
HeapInit(orders, times) ==
    /\ heap \in {Empty(Cap)} \cup {Heapify(s, e) : s \in orders, e \in [Timers -> times]}
    /\ heapFired = {}

HeapAdd(t, e) == /\ heap' = add_timer([heap EXCEPT !.expire[t] = e, !.cb_func[t] = TRUE], t)
                 /\ heapFired' = {}
HeapDel(t)    == heap' = [heap EXCEPT !.cb_func[t] = FALSE] /\ heapFired' = {}
HeapTick(cur) == /\ heap' = tick(heap, cur)
                 /\ heapFired' = {t \in Held(heap) \ Held(heap') : heap.cb_func[t]}

(* The heap is a heap, and holds no timer twice, after any number of lazy  *)
(* deletions and growths: no parent expires after its child.               *)
HeapOrdered ==
    /\ \A i \in 1 .. heap.cur_size - 1 :
          heap.expire[heap.array[Parent(i)]] <= heap.expire[heap.array[i]]
    /\ Cardinality(Held(heap)) = heap.cur_size /\ Held(heap) \subseteq Timers
=============================================================================
