-------------------------- MODULE TimerContainers --------------------------
(***************************************************************************)
(* A client of the timer containers of the repository: both versions of    *)
(* the sorted list, the time wheel or the time heap.  Each is to implement *)
(* TimerService.                                                           *)
(***************************************************************************)
EXTENDS Integers, Sequences, FiniteSets, SequencesExt

CONSTANTS Timers, NULL, Freed, None, N, TI, Cap,
          Delays,     \* the timeouts clients ask for
          MaxTime     \* bound: the last second, and the last turn of the wheel

ASSUME ContainersAssumption ==
    /\ IsFiniteSet(Timers) /\ NULL \notin Timers /\ Freed \notin Timers /\ NULL # Freed
    /\ None \notin Nat
    /\ N \in Nat \ {0} /\ TI \in Nat \ {0} /\ Cap \in Nat \ {0}
    /\ Delays \subseteq Nat /\ MaxTime \in Nat

VARIABLES now,                        \* time(NULL)
          uses,                       \* the container the client uses
          promised,                   \* promised[t]: when the client expects t to fire
          wlist, wfired,              \* webserver/timer/lst_timer.cpp
          ylist, yfired,              \* youshuang/timer/11-2lst_timer.h
          wheel, wheelFired, turns,   \* youshuang/timer/11-5tw_timer.h
          heap, heapFired             \* youshuang/timer/11-6time_heap.h

wheelVars == <<wheel, wheelFired, turns>>
listVars == <<wlist, wfired, ylist, yfired>>
heapVars == <<heap, heapFired>>
vars == <<now, uses, promised, listVars, wheelVars, heapVars>>

WL == INSTANCE SortTimerList WITH Returns <- FALSE, list <- wlist, listFired <- wfired
YL == INSTANCE SortTimerList WITH Returns <- TRUE, list <- ylist, listFired <- yfired
TW == INSTANCE TimeWheel
TH == INSTANCE TimeHeap

(* A program uses one of the containers.  The two lists are driven side by *)
(* side, by the same calls.                                                *)
Init == /\ now = 0 /\ uses \in {"list", "wheel", "heap"}
        /\ WL!ListInit /\ YL!ListInit /\ TW!WheelInit
        /\ IF uses = "heap" THEN TH!HeapInit(SetToSeqs(Timers), {0, 1, 3})
                            ELSE TH!HeapInit({}, {})
        /\ promised = [t \in Timers |-> IF t \in TH!Held(heap) THEN heap.expire[t] ELSE None]

Expect(t, d) == promised' = [promised EXCEPT ![t] = d]

(* A timer object is the client's own until it hands it over; it moves or  *)
(* cancels only what is in the container, and moves only to a later time.  *)
ListAdd(t, d) ==
    /\ uses = "list" /\ t \notin YL!Members(ylist)
    /\ WL!ListAdd(t, now + d) /\ YL!ListAdd(t, now + d) /\ Expect(t, now + d)
    /\ UNCHANGED <<now, uses, wheelVars, heapVars>>
ListAdjust(t, d) ==
    /\ uses = "list" /\ t \in YL!Members(ylist) /\ now + d > ylist.expire[t]
    /\ WL!ListAdjust(t, now + d) /\ YL!ListAdjust(t, now + d) /\ Expect(t, now + d)
    /\ UNCHANGED <<now, uses, wheelVars, heapVars>>
ListDel(t) ==
    /\ uses = "list" /\ t \in YL!Members(ylist)
    /\ WL!ListDel(t) /\ YL!ListDel(t) /\ Expect(t, None)
    /\ UNCHANGED <<now, uses, wheelVars, heapVars>>

WheelAdd(t, d) ==
    /\ uses = "wheel" /\ wheel.next[t] = Freed
    /\ TW!WheelAdd(t, d) /\ Expect(t, turns + TW!Ticks(d))
    /\ UNCHANGED <<now, uses, listVars, heapVars>>
WheelDel(t) ==
    /\ uses = "wheel" /\ wheel.next[t] # Freed
    /\ TW!WheelDel(t) /\ Expect(t, None)
    /\ UNCHANGED <<now, uses, listVars, heapVars>>

HeapAdd(t, d) ==
    /\ uses = "heap" /\ t \notin TH!Held(heap)
    /\ TH!HeapAdd(t, now + d) /\ Expect(t, now + d)
    /\ UNCHANGED <<now, uses, listVars, wheelVars>>
HeapDel(t) ==
    /\ uses = "heap" /\ t \in TH!Held(heap)
    /\ TH!HeapDel(t) /\ Expect(t, None)
    /\ UNCHANGED <<now, uses, listVars, wheelVars>>

Calls(t, d) == ListAdd(t, d) \/ ListAdjust(t, d) \/ WheelAdd(t, d) \/ HeapAdd(t, d)
Cancels(t) == ListDel(t) \/ WheelDel(t) \/ HeapDel(t)

(* A second passes.  The alarm may come late, so that one tick has several *)
(* seconds to catch up with.                                               *)
Second ==
    /\ now < MaxTime /\ now' = now + 1
    /\ wfired' = {} /\ yfired' = {} /\ heapFired' = {}
    /\ UNCHANGED <<uses, promised, wlist, ylist, heap, wheelVars>>

Fired == yfired \cup wheelFired \cup heapFired
Tick ==
    /\ CASE uses = "list"  -> WL!ListTick(now) /\ YL!ListTick(now) /\ UNCHANGED <<wheelVars, heapVars>>
         [] uses = "wheel" -> turns < MaxTime /\ TW!WheelTick /\ UNCHANGED <<listVars, heapVars>>
         [] uses = "heap"  -> TH!HeapTick(now) /\ UNCHANGED <<listVars, wheelVars>>
    /\ promised' = [t \in Timers |-> IF t \in Fired' THEN None ELSE promised[t]]
    /\ UNCHANGED <<now, uses>>

Next == Second \/ Tick \/ \E t \in Timers : Cancels(t) \/ \E d \in Delays : Calls(t, d)

Spec == Init /\ [][Next]_vars

-----------------------------------------------------------------------------
Service == INSTANCE TimerService WITH
               clock <- IF uses = "wheel" THEN turns ELSE now, due <- promised, fired <- Fired

(* Whatever was added, moved, deleted and caught up with before, a tick    *)
(* calls the callbacks of exactly the timers whose time has come: none is  *)
(* early, late, called twice or called after its deletion.  A list by its  *)
(* expire, the wheel by the turns its timeout amounts to whatever the      *)
(* rotation and the slot, the heap through growth and lazy deletion.       *)
ImplementsService == Service!ServiceSpec

(* The pointer structures and the heap stay sound through every call,      *)
(* growth and lazy deletion (see ListLinked, WheelLinked, HeapOrdered),    *)
(* and webserver's list, without the return in add_timer, fires the same.  *)
ContainersSound == /\ wfired = yfired /\ WL!ListLinked /\ YL!ListLinked /\ TW!WheelLinked
                   /\ TH!HeapOrdered
=============================================================================
