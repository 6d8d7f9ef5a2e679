----------------------------- MODULE TimeWheel -----------------------------
(***************************************************************************)
(* youshuang 11-5: time_wheel, N slots of unordered doubly linked timers.  *)
(* The wheel is one record of pointers; `delete` leaves Freed in the links *)
(* of a timer and forgets its fields.  The caller hands over the timer     *)
(* object that add_timer would allocate.                                   *)
(***************************************************************************)
EXTENDS Integers, FiniteSets, FiniteSetsExt

CONSTANTS Timers, NULL, Freed,
          N,      \* the number of slots
          TI      \* the seconds one slot stands for

VARIABLES wheel,        \* [slots, cur_slot, rotation, time_slot, next, prev]
          wheelFired,   \* the timers whose cb_func the last operation called
          turns         \* how often tick was called

WheelInit ==
    /\ wheel = [slots |-> [s \in 0 .. N - 1 |-> NULL], cur_slot |-> 0,
                rotation |-> [t \in Timers |-> 0], time_slot |-> [t \in Timers |-> 0],
                next |-> [t \in Timers |-> Freed], prev |-> [t \in Timers |-> Freed]]
    /\ wheelFired = {} /\ turns = 0

Ticks(timeout) == IF timeout < TI THEN 1 ELSE timeout \div TI

(* add_timer(timeout), with timeout >= 0. *)
PutEarly(w, t, ticks) ==                                         \* mutant
    LET ts == (w.cur_slot + (ticks % N)) % N
        new == [w EXCEPT !.rotation[t] = (ticks - 1) \div N, !.time_slot[t] = ts,
                         !.next[t] = w.slots[ts], !.prev[t] = NULL, !.slots[ts] = t]
    IN  IF w.slots[ts] = NULL THEN new ELSE [new EXCEPT !.prev[w.slots[ts]] = t]
Put(w, t, ticks) ==
    LET ts == (w.cur_slot + (ticks % N)) % N
        new == [w EXCEPT !.rotation[t] = ticks \div N, !.time_slot[t] = ts,
                         !.next[t] = w.slots[ts], !.prev[t] = NULL, !.slots[ts] = t]
    IN  IF w.slots[ts] = NULL THEN new ELSE [new EXCEPT !.prev[w.slots[ts]] = t]

(* Unlinking and deleting a timer of slot ts: del_timer and tick share it. *)
Unlink(w, t) ==
    LET ts == w.time_slot[t]  after == w.next[t]  before == w.prev[t]
        out == IF t = w.slots[ts] THEN [w EXCEPT !.slots[ts] = after]
                                  ELSE [w EXCEPT !.next[before] = after]
        back == IF after = NULL THEN out
                ELSE [out EXCEPT !.prev[after] = IF t = w.slots[ts] THEN NULL ELSE before]
    IN  [back EXCEPT !.next[t] = Freed, !.prev[t] = Freed,
                      !.rotation[t] = 0, !.time_slot[t] = 0]

(* The timers of slot ts, following next. *)
InSlot(w, ts) ==
    LET From[x \in Timers \cup {NULL, Freed}] == IF x \notin Timers THEN {} ELSE {x} \cup From[w.next[x]]
    IN  From[w.slots[ts]]

(* tick: in the current slot a timer with rotations left loses one, the    *)
(* others fire and are unlinked; then the wheel turns by one slot.         *)
Turn(w) ==
    LET here == InSlot(w, w.cur_slot)
        expired == {t \in here : w.rotation[t] = 0}
        left == FoldSet(LAMBDA t, x : Unlink(x, t), w, expired)
    IN  [left EXCEPT !.rotation = [t \in Timers |-> IF t \in here \ expired THEN @[t] - 1 ELSE @[t]],
                     !.cur_slot = (w.cur_slot + 1) % N]

WheelAdd(t, timeout) == /\ wheel' = Put(wheel, t, Ticks(timeout))
                        /\ wheelFired' = {} /\ UNCHANGED turns
WheelDel(t)          == wheel' = Unlink(wheel, t) /\ wheelFired' = {} /\ UNCHANGED turns
WheelTick            == /\ wheel' = Turn(wheel) /\ turns' = turns + 1
                        /\ wheelFired' = {t \in InSlot(wheel, wheel.cur_slot) : wheel.rotation[t] = 0}

(* On the wheel are the timers that were not deleted, each in the slot it   *)
(* names, and prev leads back along next: what del_timer relies on.         *)
WheelLinked ==
    /\ \A t \in Timers : wheel.next[t] # Freed <=> t \in InSlot(wheel, wheel.time_slot[t])
    /\ \A s \in 0 .. N - 1 : \A t \in InSlot(wheel, s) :
          /\ wheel.time_slot[t] = s
          /\ IF t = wheel.slots[s] THEN wheel.prev[t] = NULL
             ELSE wheel.prev[t] \in InSlot(wheel, s) /\ wheel.next[wheel.prev[t]] = t
=============================================================================
