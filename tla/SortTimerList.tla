--------------------------- MODULE SortTimerList ---------------------------
(***************************************************************************)
(* sort_timer_lst, the ascending doubly linked list of timers, in its two  *)
(* versions: webserver/timer, whose add_timer falls through to the general *)
(* insertion after it has made the timer the new head, and youshuang 11-2, *)
(* which returns there.  The list is one record of pointers, so that an    *)
(* operator can follow the assignments of the code one by one.  `delete`   *)
(* leaves Freed in the links of a timer: nothing may lead to it afterwards.*)
(* What a freed timer's expire was is forgotten.                           *)
(***************************************************************************)
EXTENDS Integers, FiniteSets

CONSTANTS Timers, NULL, Freed,
          Returns        \* whether add_timer returns after inserting at the head

VARIABLES list,          \* [head, tail, next, prev, expire]
          listFired      \* the timers whose cb_func the last operation called

Empty == [head |-> NULL, tail |-> NULL,
          next |-> [t \in Timers |-> Freed], prev |-> [t \in Timers |-> Freed],
          expire |-> [t \in Timers |-> 0]]

ListInit == list = Empty /\ listFired = {}

New(l, t, e) == [l EXCEPT !.next[t] = NULL, !.prev[t] = NULL, !.expire[t] = e]
Delete(l, t) == [l EXCEPT !.next[t] = Freed, !.prev[t] = Freed, !.expire[t] = 0]

(* The last timer from p on that does not expire after e. *)
LastBefore(l, e, p) ==
    LET Walk[x \in Timers] ==
            IF l.next[x] \notin Timers \/ e < l.expire[l.next[x]] THEN x ELSE Walk[l.next[x]]
    IN  Walk[p]

(* The private add_timer(timer, lst_head). *)
InsertKeepsTail(l, t, lst_head) ==                               \* mutant
    LET p == LastBefore(l, l.expire[t], lst_head)  q == l.next[p]
    IN  IF q = NULL
        THEN [l EXCEPT !.next[p] = t, !.prev[t] = p, !.next[t] = NULL]
        ELSE [l EXCEPT !.next[p] = t, !.next[t] = q, !.prev[q] = t, !.prev[t] = p]
Insert(l, t, lst_head) ==
    LET p == LastBefore(l, l.expire[t], lst_head)  q == l.next[p]
    IN  IF q = NULL
        THEN [l EXCEPT !.next[p] = t, !.prev[t] = p, !.next[t] = NULL, !.tail = t]
        ELSE [l EXCEPT !.next[p] = t, !.next[t] = q, !.prev[q] = t, !.prev[t] = p]

add_timer(l, t) ==
    IF l.head = NULL THEN [l EXCEPT !.head = t, !.tail = t]
    ELSE IF l.expire[t] < l.expire[l.head]
         THEN LET atHead == [l EXCEPT !.next[t] = l.head, !.prev[l.head] = t, !.head = t]
              IN  IF Returns THEN atHead ELSE Insert(atHead, t, t)
         ELSE Insert(l, t, l.head)

(* The caller has just moved the timer's expire to a later time. *)
adjust_timer(l, t) ==
    LET tmp == l.next[t]
    IN  IF tmp = NULL \/ l.expire[t] < l.expire[tmp] THEN l
        ELSE IF t = l.head
        THEN Insert([l EXCEPT !.head = tmp, !.prev[tmp] = NULL, !.next[t] = NULL], t, tmp)
        ELSE Insert([l EXCEPT !.next[l.prev[t]] = tmp, !.prev[tmp] = l.prev[t]], t, tmp)

del_timer(l, t) ==
    IF t = l.head /\ t = l.tail THEN [Delete(l, t) EXCEPT !.head = NULL, !.tail = NULL]
    ELSE IF t = l.head
    THEN Delete([l EXCEPT !.head = l.next[t], !.prev[l.next[t]] = NULL], t)
    ELSE IF t = l.tail
    THEN Delete([l EXCEPT !.tail = l.prev[t], !.next[l.prev[t]] = NULL], t)
    ELSE Delete([l EXCEPT !.next[l.prev[t]] = l.next[t], !.prev[l.next[t]] = l.prev[t]], t)

(* The timers that hang on the list, following next from the head. *)
Members(l) ==
    LET From[x \in Timers \cup {NULL, Freed}] == IF x \notin Timers THEN {} ELSE {x} \cup From[l.next[x]]
    IN  From[l.head]

(* tick runs down the list to the first timer that is not due.  It does not *)
(* touch tail, also when it empties the list.                               *)
FirstNotDue(l, cur) ==
    LET Walk[x \in Timers \cup {NULL, Freed}] ==
            IF x \notin Timers \/ cur < l.expire[x] THEN x ELSE Walk[l.next[x]]
    IN  Walk[l.head]
tick(l, cur) ==
    LET h == FirstNotDue(l, cur)
        gone == Members(l) \ Members([l EXCEPT !.head = h])
        swept == [l EXCEPT !.head = h,
                           !.next = [t \in Timers |-> IF t \in gone THEN Freed ELSE @[t]],
                           !.prev = [t \in Timers |-> IF t \in gone THEN Freed ELSE @[t]],
                           !.expire = [t \in Timers |-> IF t \in gone THEN 0 ELSE @[t]]]
    IN  IF gone = {} \/ h = NULL THEN swept ELSE [swept EXCEPT !.prev[h] = NULL]

ListAdd(t, e)    == list' = add_timer(New(list, t, e), t) /\ listFired' = {}
ListAdjust(t, e) == list' = adjust_timer([list EXCEPT !.expire[t] = e], t) /\ listFired' = {}
ListDel(t)       == list' = del_timer(list, t) /\ listFired' = {}
ListTick(cur)    == /\ list' = tick(list, cur)
                    /\ listFired' = Members(list) \ Members(list')

(* The list hangs together: following next from head visits every timer    *)
(* that was not deleted and ends at tail; prev leads back (the head's own   *)
(* prev is NULL, or the head itself after webserver's fall-through); expire *)
(* ascends.                                                                 *)
ListLinked ==
    LET M == Members(list) IN
    /\ M = {t \in Timers : list.next[t] # Freed}
    /\ list.head # NULL => list.tail \in M /\ list.next[list.tail] = NULL
    /\ \A t \in M \ {list.head} : list.prev[t] \in M /\ list.next[list.prev[t]] = t
    /\ list.head # NULL => list.prev[list.head] \in {NULL} \cup (IF Returns THEN {} ELSE {list.head})
    /\ \A t \in M : list.next[t] # NULL => list.expire[t] <= list.expire[list.next[t]]
=============================================================================
